------------------------------ MODULE MCCostViews -----------------------------
(* Instances of CostViews for TLC.                                         *)
EXTENDS CostViews, TLC

CONSTANTS o1, p1, p2, j1, j2, j3, e1, e2, e3, r1, r2, r3, r4, a1, a2, a3, a4

(* Two products, of two projects and of one, with one account in each      *)
(* project.  The fourth account names a region that is not there, which no *)
(* handler prevents.                                                       *)
FirstRows ==
    o1 :> Root @@ p1 :> o1 @@ p2 :> o1
        @@ j1 :> p1 @@ j2 :> p1 @@ j3 :> p2
        @@ e1 :> j1 @@ e2 :> j2 @@ e3 :> j3
        @@ r1 :> e1 @@ r2 :> e2 @@ r3 :> e3 @@ r4 :> NoRow
        @@ a1 :> r1 @@ a2 :> r2 @@ a3 :> r3 @@ a4 :> r4
Rows == DOMAIN FirstRows

KindOfRows ==
    [n \in Rows |-> CASE n = o1 -> "organization"
                      [] n \in {p1, p2} -> "product"
                      [] n \in {j1, j2, j3} -> "project"
                      [] n \in {e1, e2, e3} -> "environment"
                      [] n \in {r1, r2, r3, r4} -> "region"
                      [] n \in {a1, a2, a3, a4} -> "account"]

AmountOfAccount == a1 :> 1 @@ a2 :> 2 @@ a3 :> 4 @@ a4 :> 8

TokenOf(isViewer, type, id) == [viewer |-> isViewer, scopeType |-> type, scopeId |-> id]

(* A manager, viewers with the scopes the admin page offers, and viewers   *)
(* with scopes that only a request of one's own stores.                    *)
SomeTokens ==
    {TokenOf(FALSE, "none", NoScope),
     TokenOf(TRUE, "product", p1), TokenOf(TRUE, "project", j1),
     TokenOf(TRUE, "organization", o1), TokenOf(TRUE, "environment", e1),
     TokenOf(TRUE, "other", o1), TokenOf(TRUE, "product", NoScope)}
ViewersWithoutScope == {TokenOf(TRUE, "none", NoScope)}
===============================================================================
