---------------------------- MODULE CostViewsProofs ----------------------------
(***************************************************************************)
(* The two views of the costs agree and keep to the scope of a viewer, for *)
(* every hierarchy, token and number of writes.                            *)
(***************************************************************************)
EXTENDS CostViews, DataInduction

-------------------------------------------------------------------------------
(* The tables *)

LEMMA KindsOfRows ==
    /\ \A n \in Node : Kind[n] \in {"organization", "product", "project",
                                    "environment", "region", "account"}
    /\ Kinds[1] = "organization" /\ Kinds[2] = "product" /\ Kinds[3] = "project"
    /\ Kinds[4] = "environment" /\ Kinds[5] = "region" /\ Kinds[6] = "account"
BY HierarchyAssumption DEF Kinds

LEMMA ParentsOfKinds ==
    ASSUME NEW n \in Node
    PROVE  /\ Kind[n] = "organization" => ParentsOf(n) = {Root}
           /\ Kind[n] = "product" => ParentsOf(n) = NodesOf("organization")
           /\ Kind[n] = "project" => ParentsOf(n) = NodesOf("product")
           /\ Kind[n] = "environment" => ParentsOf(n) = NodesOf("project")
           /\ Kind[n] = "region" => ParentsOf(n) = NodesOf("environment")
           /\ Kind[n] = "account" => ParentsOf(n) = NodesOf("region")
BY DEF ParentsOf, KindAbove

(* Every row names, or named, a row of the table above.                    *)
InTheirTables ==
    /\ costs \subseteq Accounts
    /\ \A n \in Node : home[n] # NoRow => home[n] \in ParentsOf(n)

-------------------------------------------------------------------------------
(* The totals *)

LEMMA SomeAreFinite == \A S \in SUBSET Node : IsFiniteSet(S)
BY ViewsAssumption, FS_Subset

LEMMA RollupIsNat ==
    ASSUME NEW kind, NEW visited \in SUBSET Node, NEW total \in [Node -> Nat]
    PROVE  Rollup(kind, visited, total) \in [Node -> Nat]
<1>1. ASSUME NEW n \in Node
      PROVE  SumFunctionOnSet(total, Parts(n, visited)) \in Nat
  <2>1. Parts(n, visited) \in SUBSET Node
    BY DEF Parts
  <2>2. Summands(total, Parts(n, visited))
    BY <2>1, SomeAreFinite DEF Summands
  <2> QED
    BY <2>2, SumNat
<1> QED
  BY <1>1 DEF Rollup

LEMMA TotalsAreNat ==
    ASSUME InTheirTables, NEW visited \in SUBSET Node
    PROVE  /\ CostByAccount \in [Node -> Nat]
           /\ Totals(visited) \in [Node -> Nat]
<1>1. CostByAccount \in [Node -> Nat]
  BY ViewsAssumption DEF InTheirTables, CostByAccount
<1> QED
  BY <1>1, RollupIsNat DEF Totals

LEMMA VisitedAreRows == Visited \in SUBSET Node
BY DEF Visited, Looped, NodesOf
-------------------------------------------------------------------------------
(* The types *)

TypeInv ==
    /\ VTypeOK
    /\ InTheirTables
    /\ reading = "accounts" => scope \in Node

LEMMA InitTypes == VInit => TypeInv
<1> SUFFICES ASSUME VInit PROVE TypeInv
  OBVIOUS
<1>1. VTypeOK
  <2>1. /\ parent \in NodeParent /\ home \in NodeParent /\ loaded \in NodeParent
        /\ \A n \in Node : Exists(n) => home[n] = parent[n]
    BY ViewsAssumption DEF VInit, Exists, NodeParent
  <2>2. /\ shown \in [Node -> Nat \cup {Hidden}]
        /\ writes \in 0..MaxWrites
    BY ViewsAssumption DEF VInit
  <2> QED
    BY <2>1, <2>2 DEF VInit, VTypeOK
<1>2. InTheirTables
  BY ViewsAssumption DEF VInit, InTheirTables
<1>3. reading # "accounts"
  BY DEF VInit
<1> QED
  BY <1>1, <1>2, <1>3 DEF TypeInv

LEMMA StepTypes == TypeInv /\ [VNext]_vVars => TypeInv'
<1> SUFFICES ASSUME TypeInv, [VNext]_vVars PROVE TypeInv'
  OBVIOUS
<1> USE DEF TypeInv
<1>1. CASE Write
  <2>1. UNCHANGED <<token, tree, series>> /\ writes' = writes + 1 /\ writes < MaxWrites
    BY <1>1 DEF Write
  <2>2. /\ parent' \in NodeParent /\ home' \in NodeParent
        /\ \A n \in Node : Exists(n)' => home'[n] = parent'[n]
        /\ InTheirTables'
    <3>1. CASE \E n \in Node : \E p \in ParentsOf(n) :
                  home[n] = NoRow /\ Create(n, p) /\ home' = [home EXCEPT ![n] = p]
      <4>1. PICK n \in Node, p \in Node \cup {Root} :
                    /\ p \in ParentsOf(n) /\ home[n] = NoRow /\ Create(n, p)
                    /\ home' = [home EXCEPT ![n] = p]
        BY <3>1 DEF ParentsOf, NodesOf
      <4> QED
        BY <4>1 DEF Create, VTypeOK, NodeParent, Exists, InTheirTables
    <3>2. CASE \E n \in Node \ Accounts : Delete(n) /\ UNCHANGED home
      BY <3>2 DEF Delete, VTypeOK, NodeParent, Exists, InTheirTables
    <3>3. CASE \E a \in Accounts : /\ DropCosts(a) \/ DropAccount(a) \/ RecordCosts(a)
                                   /\ UNCHANGED home
      BY <3>3 DEF DropCosts, DropAccount, RecordCosts, VTypeOK, NodeParent, Exists,
                  InTheirTables, Accounts, NodesOf
    <3> QED
      BY <1>1, <3>1, <3>2, <3>3 DEF Write
  <2> QED
    BY <2>1, <2>2, ViewsAssumption DEF VTypeOK, tree, series
<1>2. CASE OpenTree
  BY <1>2 DEF OpenTree, VTypeOK, InTheirTables, vars, history, series, Exists
<1>3. CASE LoadLevel
  <2>1. loaded' \in NodeParent
    BY <1>3 DEF LoadLevel, VTypeOK, NodeParent
  <2> QED
    BY <1>3, <2>1 DEF LoadLevel, VTypeOK, InTheirTables, vars, history, series, Exists
<1>4. CASE AnswerTree
  <2>1. shown' \in [Node -> Nat \cup {Hidden}]
    <3> DEFINE totals == Totals(Visited)
    <3>1. totals \in [Node -> Nat]
      BY TotalsAreNat, VisitedAreRows
    <3>2. shown' = [n \in Node |-> IF n \in Visited THEN totals[n] ELSE Hidden]
      BY <1>4 DEF AnswerTree
    <3> HIDE DEF totals
    <3> QED
      BY <3>1, <3>2
  <2>2. loaded' \in NodeParent
    BY <1>4 DEF AnswerTree, NodeParent
  <2> QED
    BY <1>4, <2>1, <2>2 DEF AnswerTree, VTypeOK, InTheirTables, vars, history, series, Exists
<1>5. CASE \E query \in Node \cup {NoScope} : OpenSeries(query)
  <2>1. scope' \in Node \cup {NoScope} /\ (scope' = NoScope \/ scope' \in Node)
    <3>1. token.scopeId \in Node \cup {NoScope}
      BY ViewsAssumption DEF VTypeOK
    <3> QED
      BY <1>5, <3>1 DEF OpenSeries, EffectiveScope, NodesOf
  <2> QED
    BY <1>5, <2>1 DEF OpenSeries, VTypeOK, InTheirTables, vars, history, tree, Exists
<1>6. CASE ResolveAccounts
  <2>1. CloudAccountIDs(scope) \in SUBSET Accounts
    BY <1>6, KindsOfRows
    DEF ResolveAccounts, CloudAccountIDs, Selected, Accounts, NodesOf
  <2> QED
    BY <1>6, <2>1 DEF ResolveAccounts, VTypeOK, InTheirTables, vars, history, tree, Exists
<1>7. CASE AnswerSeries
  <2>1. points' \in SUBSET Accounts
    BY <1>7 DEF AnswerSeries, InTheirTables
  <2> QED
    BY <1>7, <2>1 DEF AnswerSeries, VTypeOK, InTheirTables, vars, history, tree, Exists
<1>8. CASE UNCHANGED vVars
  BY <1>8 DEF vVars, vars, history, tree, series, VTypeOK, InTheirTables, Exists
<1> QED
  BY <1>1, <1>2, <1>3, <1>4, <1>5, <1>6, <1>7, <1>8 DEF VNext

(* The views have the types of their answers, whatever is written.         *)
THEOREM TypeCorrect == VSpec => []VTypeOK
<1>1. TypeInv => VTypeOK
  BY DEF TypeInv
<1> QED
  BY InitTypes, StepTypes, <1>1, PTL DEF VSpec

-------------------------------------------------------------------------------
(* What belongs to a node *)

(* One to five steps up belong to the node, by as many steps.              *)
LEMMA OwnedInSteps ==
    ASSUME NEW s, NEW n,
           \/ n = s
           \/ n \in WithOwned({s})
           \/ n \in WithOwned(WithOwned({s}))
           \/ n \in WithOwned(WithOwned(WithOwned({s})))
           \/ n \in WithOwned(WithOwned(WithOwned(WithOwned({s}))))
           \/ n \in WithOwned(WithOwned(WithOwned(WithOwned(WithOwned({s})))))
    PROVE  BelongsTo(n, s)
<1>1. \A S, m : m \in S => m \in WithOwned(S)
  BY DEF WithOwned
<1> QED
  BY <1>1 DEF BelongsTo

(* What belongs to a node does so for ever: no id is given again.          *)
LEMMA BelongsForEver ==
    ASSUME \A m \in Node : home[m] # NoRow => home'[m] = home[m],
           NEW s \in Node, NEW n, BelongsTo(n, s)
    PROVE  BelongsTo(n, s)'
<1> DEFINE Then(S) == S \cup {m \in Node : home'[m] \in S}
<1>1. ASSUME NEW S \in SUBSET Node, NEW T, S \subseteq T
      PROVE  WithOwned(S) \in SUBSET Node /\ WithOwned(S) \subseteq Then(T)
  BY <1>1, HierarchyAssumption DEF WithOwned
<1>2. {s} \in SUBSET Node
  OBVIOUS
<1>3. n \in Then(Then(Then(Then(Then({s})))))
  <2> HIDE DEF Then
  <2> DEFINE S1 == WithOwned({s})
             S2 == WithOwned(S1)
             S3 == WithOwned(S2)
             S4 == WithOwned(S3)
             T1 == Then({s})
             T2 == Then(T1)
             T3 == Then(T2)
             T4 == Then(T3)
  <2>1. S1 \in SUBSET Node /\ S1 \subseteq T1
    BY <1>1, <1>2
  <2>2. S2 \in SUBSET Node /\ S2 \subseteq T2
    BY <1>1, <2>1
  <2>3. S3 \in SUBSET Node /\ S3 \subseteq T3
    BY <1>1, <2>2
  <2>4. S4 \in SUBSET Node /\ S4 \subseteq T4
    BY <1>1, <2>3
  <2>5. WithOwned(S4) \subseteq Then(T4)
    BY <1>1, <2>4
  <2> QED
    BY <2>5 DEF BelongsTo
<1> QED
  BY <1>3 DEF BelongsTo, WithOwned

-------------------------------------------------------------------------------
(* What is visited *)

(* The sets of the loops of handleTree.                                    *)
Orgs         == {n \in NodesOf("organization") : loaded[n] # NoRow}
Products     == Looped("product", Orgs)
Projects     == Looped("project", Products)
Environments == Looped("environment", Projects)
Regions      == Looped("region", Environments)
LeafAccounts == Looped("account", Regions)

LEMMA VisitedInLoops ==
    /\ Visited = Orgs \cup Products \cup Projects \cup Environments
                      \cup Regions \cup LeafAccounts
    /\ Orgs \subseteq NodesOf("organization")
    /\ Products \subseteq NodesOf("product")
    /\ Projects \subseteq NodesOf("project")
    /\ Environments \subseteq NodesOf("environment")
    /\ Regions \subseteq NodesOf("region")
    /\ LeafAccounts \subseteq Accounts
<1>1. \A kind, S : Looped(kind, S) \subseteq NodesOf(kind)
  BY DEF Looped
<1>2. Visited = Orgs \cup Products \cup Projects \cup Environments
                     \cup Regions \cup LeafAccounts
  BY DEF Visited, Orgs, Products, Projects, Environments, Regions, LeafAccounts
<1>3. Orgs \subseteq NodesOf("organization")
  BY DEF Orgs
<1> QED
  BY <1>1, <1>2, <1>3
  DEF Products, Projects, Environments, Regions, LeafAccounts, Accounts

(* Which of the loops a visited node is in.                                *)
LEMMA VisitedOfKind ==
    ASSUME NEW n \in Visited
    PROVE  /\ n \in Node
           /\ Kind[n] = "organization" => n \in Orgs
           /\ Kind[n] = "product" => n \in Products
           /\ Kind[n] = "project" => n \in Projects
           /\ Kind[n] = "environment" => n \in Environments
           /\ Kind[n] = "region" => n \in Regions
           /\ Kind[n] = "account" => n \in LeafAccounts
BY VisitedInLoops DEF NodesOf, Accounts

(* The rows are loaded as they were stored at some time.                   *)
LoadedAreOwned == \A n \in Node : loaded[n] # NoRow => loaded[n] = home[n]

-------------------------------------------------------------------------------
(* What is above an account *)

(* The rows above a row: its parent, and on to the fifth.                  *)
Up1(a) == home[a]
Up2(a) == home[Up1(a)]
Up3(a) == home[Up2(a)]
Up4(a) == home[Up3(a)]
Up5(a) == home[Up4(a)]
Rooted(a) ==
    {a, Up1(a), Up2(a), Up3(a), Up4(a), Up5(a)} \subseteq Node

(* A row that has five rows above it belongs to these and to itself.  The  *)
(* parents are a parameter: the lemma is used before and after a step.     *)
LEMMA BelongsAbove ==
    ASSUME NEW h, NEW a \in Node, NEW n \in Node,
           NEW u1 \in Node, NEW u2 \in Node, NEW u3 \in Node, NEW u4 \in Node, NEW u5 \in Node,
           u1 = h[a], u2 = h[u1], u3 = h[u2], u4 = h[u3], u5 = h[u4],
           NEW W1, W1 = {n} \cup {m \in Node : h[m] \in {n}},
           NEW W2, W2 = W1 \cup {m \in Node : h[m] \in W1},
           NEW W3, W3 = W2 \cup {m \in Node : h[m] \in W2},
           NEW W4, W4 = W3 \cup {m \in Node : h[m] \in W3},
           NEW W5, W5 = W4 \cup {m \in Node : h[m] \in W4}
    PROVE  a \in W5 <=> n \in {a, u1, u2, u3, u4, u5}
<1>1. \A x \in Node : x \in W1 <=> x = n \/ h[x] = n
  OBVIOUS
<1>2. \A x \in Node : x \in W2 <=> x = n \/ h[x] \in W1
  BY <1>1
<1>3. \A x \in Node : x \in W3 <=> x = n \/ h[x] \in W2
  BY <1>2
<1>4. \A x \in Node : x \in W4 <=> x = n \/ h[x] \in W3
  BY <1>3
<1>5. \A x \in Node : x \in W5 <=> x = n \/ h[x] \in W4
  BY <1>4
<1>6. u4 \in W1 <=> n \in {u4, u5}
  BY <1>1
<1>7. u3 \in W2 <=> n \in {u3, u4, u5}
  BY <1>2, <1>6
<1>8. u2 \in W3 <=> n \in {u2, u3, u4, u5}
  BY <1>3, <1>7
<1>9. u1 \in W4 <=> n \in {u1, u2, u3, u4, u5}
  BY <1>4, <1>8
<1> QED
  BY <1>5, <1>9

LEMMA RootedBelongs ==
    ASSUME NEW a \in Node, Rooted(a), NEW n \in Node
    PROVE  BelongsTo(a, n) <=> n \in {a, Up1(a), Up2(a), Up3(a), Up4(a), Up5(a)}
<1> DEFINE W1 == WithOwned({n})
           W2 == WithOwned(W1)
           W3 == WithOwned(W2)
           W4 == WithOwned(W3)
           W5 == WithOwned(W4)
<1>1. /\ W1 = {n} \cup {m \in Node : home[m] \in {n}}
      /\ W2 = W1 \cup {m \in Node : home[m] \in W1}
      /\ W3 = W2 \cup {m \in Node : home[m] \in W2}
      /\ W4 = W3 \cup {m \in Node : home[m] \in W3}
      /\ W5 = W4 \cup {m \in Node : home[m] \in W4}
  BY DEF WithOwned
<1>2. BelongsTo(a, n) <=> a \in W5
  BY DEF BelongsTo
<1>3. /\ Up1(a) \in Node /\ Up2(a) \in Node /\ Up3(a) \in Node /\ Up4(a) \in Node
      /\ Up5(a) \in Node
  BY DEF Rooted
<1> HIDE DEF W1, W2, W3, W4, W5
<1>4. a \in W5 <=> n \in {a, Up1(a), Up2(a), Up3(a), Up4(a), Up5(a)}
  BY <1>1, <1>3, BelongsAbove DEF Up1, Up2, Up3, Up4, Up5
<1> QED
  BY <1>2, <1>4

(* What is above such a row stays: no id is given again.                   *)
LEMMA RootedForEver ==
    ASSUME \A m \in Node : home[m] # NoRow => home'[m] = home[m],
           NEW a \in Node, Rooted(a)
    PROVE  /\ Rooted(a)'
           /\ \A n \in Node : BelongsTo(a, n)' <=> BelongsTo(a, n)
<1> DEFINE u1 == Up1(a)
           u2 == Up2(a)
           u3 == Up3(a)
           u4 == Up4(a)
           u5 == Up5(a)
<1>1. /\ u1 = home[a] /\ u2 = home[u1] /\ u3 = home[u2] /\ u4 = home[u3] /\ u5 = home[u4]
      /\ u1 \in Node /\ u2 \in Node /\ u3 \in Node /\ u4 \in Node /\ u5 \in Node
  BY DEF Rooted, Up1, Up2, Up3, Up4, Up5
<1>2. \A n \in Node : BelongsTo(a, n) <=> n \in {a, u1, u2, u3, u4, u5}
  BY RootedBelongs
<1> HIDE DEF u1, u2, u3, u4, u5
<1>3. /\ u1 = home'[a] /\ u2 = home'[u1] /\ u3 = home'[u2] /\ u4 = home'[u3]
      /\ u5 = home'[u4]
  BY <1>1, HierarchyAssumption
<1>4. Rooted(a)'
  BY <1>1, <1>3 DEF Rooted, Up1, Up2, Up3, Up4, Up5
<1>5. ASSUME NEW n \in Node
      PROVE  BelongsTo(a, n)' <=> n \in {a, u1, u2, u3, u4, u5}
  <2> DEFINE W1 == WithOwned({n})'
             W2 == W1 \cup {m \in Node : home'[m] \in W1}
             W3 == W2 \cup {m \in Node : home'[m] \in W2}
             W4 == W3 \cup {m \in Node : home'[m] \in W3}
             W5 == W4 \cup {m \in Node : home'[m] \in W4}
  <2>1. BelongsTo(a, n)' <=> a \in W5
    BY DEF BelongsTo, WithOwned
  <2>2. W1 = {n} \cup {m \in Node : home'[m] \in {n}}
    BY DEF WithOwned
  <2>3. /\ W2 = W1 \cup {m \in Node : home'[m] \in W1}
        /\ W3 = W2 \cup {m \in Node : home'[m] \in W2}
        /\ W4 = W3 \cup {m \in Node : home'[m] \in W3}
        /\ W5 = W4 \cup {m \in Node : home'[m] \in W4}
    OBVIOUS
  <2> HIDE DEF W1, W2, W3, W4, W5
  <2>4. a \in W5 <=> n \in {a, u1, u2, u3, u4, u5}
    <3> DEFINE h == home'
    <3>1. /\ u1 \in Node /\ u2 \in Node /\ u3 \in Node /\ u4 \in Node /\ u5 \in Node
          /\ u1 = h[a] /\ u2 = h[u1] /\ u3 = h[u2] /\ u4 = h[u3] /\ u5 = h[u4]
      BY <1>1, <1>3
    <3>2. /\ W1 = {n} \cup {m \in Node : h[m] \in {n}}
          /\ W2 = W1 \cup {m \in Node : h[m] \in W1}
          /\ W3 = W2 \cup {m \in Node : h[m] \in W2}
          /\ W4 = W3 \cup {m \in Node : h[m] \in W3}
          /\ W5 = W4 \cup {m \in Node : h[m] \in W4}
      BY <2>2, <2>3
    <3> HIDE DEF h
    <3> QED
      BY <3>1, <3>2, BelongsAbove
  <2> QED
    BY <2>1, <2>4
<1> QED
  BY <1>2, <1>4, <1>5

(* The row of a table that is above an account, or the account.            *)
Ancestor(a, kind) ==
    CASE kind = "account" -> a [] kind = "region" -> Up1(a)
      [] kind = "environment" -> Up2(a) [] kind = "project" -> Up3(a)
      [] kind = "product" -> Up4(a) [] kind = "organization" -> Up5(a)

LEMMA LineOfLeaf ==
    ASSUME LoadedAreOwned, NEW a \in LeafAccounts
    PROVE  /\ a \in Node /\ loaded[a] = Up1(a)
           /\ Up1(a) \in Regions /\ loaded[Up1(a)] = Up2(a)
           /\ Up2(a) \in Environments /\ loaded[Up2(a)] = Up3(a)
           /\ Up3(a) \in Projects /\ loaded[Up3(a)] = Up4(a)
           /\ Up4(a) \in Products /\ loaded[Up4(a)] = Up5(a)
           /\ Up5(a) \in Orgs
           /\ Rooted(a)
<1>1. ASSUME NEW kind, NEW S \in SUBSET Node, NEW m \in Looped(kind, S)
      PROVE  m \in Node /\ loaded[m] = home[m] /\ home[m] \in S
  BY <1>1, HierarchyAssumption DEF Looped, LoadedAreOwned, NodesOf
<1>2. /\ Orgs \in SUBSET Node /\ Products \in SUBSET Node /\ Projects \in SUBSET Node
      /\ Environments \in SUBSET Node /\ Regions \in SUBSET Node
  BY VisitedInLoops DEF NodesOf
<1>3. a \in Node /\ loaded[a] = Up1(a) /\ Up1(a) \in Regions
  BY <1>1, <1>2 DEF LeafAccounts, Up1
<1>4. loaded[Up1(a)] = Up2(a) /\ Up2(a) \in Environments
  BY <1>1, <1>2, <1>3 DEF Regions, Up2
<1>5. loaded[Up2(a)] = Up3(a) /\ Up3(a) \in Projects
  BY <1>1, <1>2, <1>4 DEF Environments, Up3
<1>6. loaded[Up3(a)] = Up4(a) /\ Up4(a) \in Products
  BY <1>1, <1>2, <1>5 DEF Projects, Up4
<1>7. loaded[Up4(a)] = Up5(a) /\ Up5(a) \in Orgs
  BY <1>1, <1>2, <1>6 DEF Products, Up5
<1>8. Rooted(a)
  BY <1>2, <1>3, <1>4, <1>5, <1>6, <1>7 DEF Rooted
<1> QED
  BY <1>3, <1>4, <1>5, <1>6, <1>7, <1>8

(* An account that is shown belongs to one node of each table, and all of  *)
(* these are visited.                                                      *)
LEMMA LeafAncestors ==
    ASSUME LoadedAreOwned, NEW a \in LeafAccounts
    PROVE  /\ \A n \in Node : BelongsTo(a, n) <=> n = Ancestor(a, Kind[n])
           /\ \A kind \in DOMAIN KindAbove :
                 /\ Ancestor(a, kind) \in Visited
                 /\ Kind[Ancestor(a, kind)] = kind
                 /\ loaded[Ancestor(a, kind)] = Ancestor(a, KindAbove[kind])
<1>1. /\ a \in Node /\ Kind[a] = "account"
      /\ Kind[Up1(a)] = "region" /\ Kind[Up2(a)] = "environment"
      /\ Kind[Up3(a)] = "project" /\ Kind[Up4(a)] = "product"
      /\ Kind[Up5(a)] = "organization"
  BY LineOfLeaf, VisitedInLoops DEF NodesOf, Accounts
<1>2. \A n \in Node : BelongsTo(a, n) <=>
                          n \in {a, Up1(a), Up2(a), Up3(a), Up4(a), Up5(a)}
  BY <1>1, LineOfLeaf, RootedBelongs
<1>3. ASSUME NEW n \in Node PROVE BelongsTo(a, n) <=> n = Ancestor(a, Kind[n])
  BY <1>1, <1>2, KindsOfRows DEF Ancestor
<1>4. ASSUME NEW kind \in DOMAIN KindAbove
      PROVE  /\ Ancestor(a, kind) \in Visited
             /\ Kind[Ancestor(a, kind)] = kind
             /\ loaded[Ancestor(a, kind)] = Ancestor(a, KindAbove[kind])
  BY <1>1, LineOfLeaf, VisitedInLoops DEF Ancestor, KindAbove
<1> QED
  BY <1>3, <1>4

-------------------------------------------------------------------------------
(* The totals, from the accounts up *)

(* What holds of the totals of the accounts and goes up with each loop     *)
(* holds of all totals.                                                    *)
RightFor(kind, total, S, right) ==
    \A n \in S : Kind[n] = kind => total[n] = right[n]

LEMMA TotalsByLevels ==
    ASSUME NEW S \in SUBSET Node, NEW right,
           RightFor("account", CostByAccount, S, right),
           \A kind \in DOMAIN KindAbove : \A total : RightFor(kind, total, S, right) =>
              RightFor(KindAbove[kind], Rollup(KindAbove[kind], Visited, total), S, right)
    PROVE  \A n \in S : Totals(Visited)[n] = right[n]
<1> DEFINE regions == Rollup("region", Visited, CostByAccount)
           environments == Rollup("environment", Visited, regions)
           projects == Rollup("project", Visited, environments)
           products == Rollup("product", Visited, projects)
           orgs == Rollup("organization", Visited, products)
<1>0. /\ DOMAIN KindAbove = {"product", "project", "environment", "region", "account"}
      /\ KindAbove["account"] = "region" /\ KindAbove["region"] = "environment"
      /\ KindAbove["environment"] = "project" /\ KindAbove["project"] = "product"
      /\ KindAbove["product"] = "organization"
  BY DEF KindAbove
<1>1. Totals(Visited) = orgs
  BY DEF Totals
<1>2. \A n \in Node : /\ Kind[n] = "account" => orgs[n] = CostByAccount[n]
                      /\ Kind[n] = "region" => orgs[n] = regions[n]
                      /\ Kind[n] = "environment" => orgs[n] = environments[n]
                      /\ Kind[n] = "project" => orgs[n] = projects[n]
                      /\ Kind[n] = "product" => orgs[n] = products[n]
  BY DEF Rollup
<1>3. RightFor("region", regions, S, right)
  BY <1>0
<1>4. RightFor("environment", environments, S, right)
  <2> HIDE DEF regions
  <2> QED
    BY <1>0, <1>3
<1>5. RightFor("project", projects, S, right)
  <2> HIDE DEF environments
  <2> QED
    BY <1>0, <1>4
<1>6. RightFor("product", products, S, right)
  <2> HIDE DEF projects
  <2> QED
    BY <1>0, <1>5
<1>7. RightFor("organization", orgs, S, right)
  <2> HIDE DEF products
  <2> QED
    BY <1>0, <1>6
<1> HIDE DEF regions, environments, projects, products, orgs
<1>8. ASSUME NEW n \in S PROVE orgs[n] = right[n]
  BY <1>2, <1>3, <1>4, <1>5, <1>6, <1>7, KindsOfRows DEF RightFor
<1> QED
  BY <1>1, <1>8

-------------------------------------------------------------------------------
(* The tree adds up *)

(* The accounts that are shown beneath a node.                             *)
Leaves(n) == {a \in LeafAccounts : BelongsTo(a, n)}

LEMMA LeavesOfParts ==
    ASSUME TypeInv, LoadedAreOwned,
           NEW kind \in DOMAIN KindAbove, NEW n \in Visited, Kind[n] = KindAbove[kind]
    PROVE  /\ \A m \in Parts(n, Visited) : m \in Visited /\ Kind[m] = kind
           /\ \A a : a \in Leaves(n) <=> \E m \in Parts(n, Visited) : a \in Leaves(m)
           /\ \A p, q \in Parts(n, Visited) : p # q => Leaves(p) \cap Leaves(q) = {}
<1>1. n \in Node
  BY VisitedAreRows
<1>2. ASSUME NEW m \in Parts(n, Visited)
      PROVE  m \in Visited /\ m \in Node /\ loaded[m] = n /\ Kind[m] = kind
  <2>1. m \in Visited /\ m \in Node /\ loaded[m] = n
    BY VisitedAreRows DEF Parts
  <2>2. home[m] = n /\ n # NoRow
    BY <1>1, <2>1, HierarchyAssumption DEF LoadedAreOwned
  <2> QED
    BY <1>1, <2>1, <2>2, KindsOfRows, ParentsOfKinds, HierarchyAssumption
    DEF TypeInv, InTheirTables, NodesOf, KindAbove
<1>3. ASSUME NEW a \in LeafAccounts, BelongsTo(a, n)
      PROVE  \E m \in Parts(n, Visited) : BelongsTo(a, m)
  <2> DEFINE m == Ancestor(a, kind)
  <2>1. m \in Visited /\ Kind[m] = kind /\ loaded[m] = n
    BY <1>1, <1>3, LeafAncestors
  <2>2. m \in Node
    BY <2>1, VisitedAreRows
  <2>3. BelongsTo(a, m)
    BY <2>1, <2>2, LeafAncestors
  <2> HIDE DEF m
  <2> QED
    BY <2>1, <2>3 DEF Parts
<1>4. ASSUME NEW a \in LeafAccounts, NEW m \in Parts(n, Visited), BelongsTo(a, m)
      PROVE  m = Ancestor(a, kind) /\ BelongsTo(a, n)
  <2>1. m = Ancestor(a, kind)
    BY <1>2, <1>4, LeafAncestors
  <2>2. n = Ancestor(a, KindAbove[kind])
    BY <1>2, <2>1, LeafAncestors
  <2> QED
    BY <1>1, <2>1, <2>2, LeafAncestors
<1>5. \A a : a \in Leaves(n) <=> \E m \in Parts(n, Visited) : a \in Leaves(m)
  BY <1>3, <1>4 DEF Leaves
<1>6. \A p, q \in Parts(n, Visited) : p # q => Leaves(p) \cap Leaves(q) = {}
  BY <1>4 DEF Leaves
<1> QED
  BY <1>2, <1>5, <1>6

LEMMA LeavesAreRows ==
    \A n : Leaves(n) \in SUBSET Node /\ Leaves(n) \subseteq Accounts
BY VisitedInLoops DEF Leaves, Accounts, NodesOf

LEMMA TotalsOfLeaves ==
    ASSUME TypeInv, LoadedAreOwned
    PROVE  \A n \in Visited : Totals(Visited)[n] = SumFunctionOnSet(CostByAccount, Leaves(n))
<1> DEFINE right == [n \in Node |-> SumFunctionOnSet(CostByAccount, Leaves(n))]
<1>0. /\ Visited \in SUBSET Node
      /\ CostByAccount \in [Node -> Nat]
  BY VisitedAreRows, TotalsAreNat DEF TypeInv
<1>1. \A m : Summands(CostByAccount, Leaves(m))
  BY <1>0, LeavesAreRows, SomeAreFinite DEF Summands
<1>2. RightFor("account", CostByAccount, Visited, right)
  <2> SUFFICES ASSUME NEW a \in Visited, Kind[a] = "account"
               PROVE  CostByAccount[a] = right[a]
    BY DEF RightFor
  <2>1. a \in Node /\ a \in LeafAccounts
    BY VisitedOfKind
  <2>2. Leaves(a) = {a}
    <3>1. \A b \in LeafAccounts : BelongsTo(b, a) <=> a = Ancestor(b, "account")
      BY <2>1, LeafAncestors
    <3> QED
      BY <2>1, <3>1 DEF Leaves, Ancestor
  <2>3. SumFunctionOnSet(CostByAccount, {a}) = CostByAccount[a]
    BY <1>0, <2>1, SumOne
  <2> QED
    BY <2>1, <2>2, <2>3
<1>3. ASSUME NEW kind \in DOMAIN KindAbove, NEW total,
             RightFor(kind, total, Visited, right)
      PROVE  RightFor(KindAbove[kind], Rollup(KindAbove[kind], Visited, total),
                      Visited, right)
  <2> SUFFICES ASSUME NEW n \in Visited, Kind[n] = KindAbove[kind]
               PROVE  Rollup(KindAbove[kind], Visited, total)[n] = right[n]
    BY DEF RightFor
  <2> DEFINE P == Parts(n, Visited)
             part == [m \in Node |-> Leaves(m)]
             W == Leaves(n)
  <2>1. n \in Node /\ P \in SUBSET Node /\ IsFiniteSet(P)
    BY <1>0, SomeAreFinite DEF Parts
  <2>2. /\ \A m \in P : m \in Visited /\ Kind[m] = kind
        /\ \A a : a \in W <=> \E m \in P : a \in Leaves(m)
        /\ \A p, q \in P : p # q => Leaves(p) \cap Leaves(q) = {}
    BY LeavesOfParts
  <2> HIDE DEF P, W
  <2>3. \A m \in P : /\ Summands(CostByAccount, part[m])
                     /\ total[m] = SumFunctionOnSet(CostByAccount, part[m])
    BY <1>1, <1>3, <2>1, <2>2 DEF RightFor
  <2>4. /\ \A p, q \in P : p # q => part[p] \cap part[q] = {}
        /\ \A a : a \in W <=> \E m \in P : a \in part[m]
    BY <2>1, <2>2
  <2> HIDE DEF part
  <2>5. SumFunctionOnSet(total, P) = SumFunctionOnSet(CostByAccount, W)
    BY <2>1, <2>3, <2>4, SumOfParts
  <2> QED
    BY <2>1, <2>5 DEF P, W, Rollup
<1> HIDE DEF right
<1>4. \A n \in Visited : Totals(Visited)[n] = right[n]
  BY <1>0, <1>2, <1>3, TotalsByLevels
<1> QED
  BY <1>0, <1>4 DEF right

(* What is shown was read as the tables once were, and adds up.            *)
TreeInv ==
    /\ LoadedAreOwned
    /\ \A a \in ShownAccounts : Rooted(a)
    /\ TreeAddsUp

LEMMA InitTree == VInit => TreeInv
BY DEF VInit, TreeInv, LoadedAreOwned, ShownAccounts, TreeAddsUp, Accounts, NodesOf

(* A write leaves what belongs to a node there.                            *)
LEMMA WriteKeepsHome ==
    ASSUME TypeInv, Write
    PROVE  \A m \in Node : home[m] # NoRow => home'[m] = home[m]
BY DEF Write, TypeInv, VTypeOK, NodeParent

LEMMA AnswerAddsUp ==
    ASSUME TypeInv, LoadedAreOwned, AnswerTree
    PROVE  /\ ShownAccounts' = LeafAccounts
           /\ TreeAddsUp'
<1> DEFINE totals == Totals(Visited)
<1>1. UNCHANGED home
  BY DEF AnswerTree, history
<1>2. shown' = [n \in Node |-> IF n \in Visited THEN totals[n] ELSE Hidden]
  BY DEF AnswerTree
<1>3. /\ totals \in [Node -> Nat]
      /\ CostByAccount \in [Node -> Nat]
  BY TotalsAreNat, VisitedAreRows DEF TypeInv
<1>4. \A n \in Visited : totals[n] = SumFunctionOnSet(CostByAccount, Leaves(n))
  BY TotalsOfLeaves
<1> HIDE DEF totals
<1>5. \A n \in Node : shown'[n] # Hidden <=> n \in Visited
  BY <1>2, <1>3, ViewsAssumption
<1>6. \A a \in Accounts : a \in Visited <=> a \in LeafAccounts
  BY VisitedOfKind, VisitedInLoops DEF Accounts, NodesOf
<1>7. ShownAccounts' = LeafAccounts
  BY <1>5, <1>6, VisitedInLoops DEF ShownAccounts, Accounts, NodesOf
<1>8. \A a \in LeafAccounts : a \in Node /\ shown'[a] = CostByAccount[a]
  <2> SUFFICES ASSUME NEW a \in LeafAccounts
               PROVE  a \in Node /\ shown'[a] = CostByAccount[a]
    OBVIOUS
  <2>1. a \in Node /\ a \in Visited /\ Kind[a] = "account"
    BY VisitedInLoops DEF Accounts, NodesOf
  <2>2. totals[a] = CostByAccount[a]
    BY <2>1 DEF totals, Totals, Rollup
  <2> QED
    BY <1>2, <2>1, <2>2
<1>9. ASSUME NEW n \in Node, shown'[n] # Hidden
      PROVE  shown'[n] = SumFunctionOnSet(shown', ShownAccounts' \cap AccountsOf(n)')
  <2>1. n \in Visited /\ shown'[n] = SumFunctionOnSet(CostByAccount, Leaves(n))
    BY <1>2, <1>4, <1>5, <1>9
  <2>2. ShownAccounts' \cap AccountsOf(n)' = Leaves(n)
    BY <1>1, <1>7, VisitedInLoops DEF AccountsOf, BelongsTo, WithOwned, Leaves
  <2>3. IsFiniteSet(Leaves(n)) /\ \A a \in Leaves(n) : shown'[a] = CostByAccount[a]
    BY <1>8, LeavesAreRows, SomeAreFinite DEF Leaves
  <2>4. SumFunctionOnSet(shown', Leaves(n)) = SumFunctionOnSet(CostByAccount, Leaves(n))
    BY <2>3, SumSame
  <2> QED
    BY <2>1, <2>2, <2>4
<1> QED
  BY <1>7, <1>9 DEF TreeAddsUp

LEMMA StepTree == TypeInv /\ TreeInv /\ [VNext]_vVars => TreeInv'
<1> SUFFICES ASSUME TypeInv, TreeInv, [VNext]_vVars PROVE TreeInv'
  OBVIOUS
<1> USE DEF TreeInv
<1>1. ASSUME UNCHANGED <<home, shown>>
      PROVE  TreeAddsUp' /\ \A a \in ShownAccounts' : Rooted(a)'
  BY <1>1 DEF TreeAddsUp, ShownAccounts, AccountsOf, BelongsTo, WithOwned, Rooted,
              Up1, Up2, Up3, Up4, Up5
<1>2. CASE Write
  <2>1. UNCHANGED <<shown, loaded>>
    BY <1>2 DEF Write, tree
  <2>2. \A m \in Node : home[m] # NoRow => home'[m] = home[m]
    BY <1>2, WriteKeepsHome
  <2>3. LoadedAreOwned'
    BY <2>1, <2>2, HierarchyAssumption DEF LoadedAreOwned
  <2>4. ShownAccounts' = ShownAccounts /\ ShownAccounts \in SUBSET Node
    BY <2>1 DEF ShownAccounts, Accounts, NodesOf
  <2>5. \A a \in ShownAccounts : /\ Rooted(a)'
                                 /\ \A n \in Node : BelongsTo(a, n)' <=> BelongsTo(a, n)
    BY <2>2, <2>4, RootedForEver
  <2>6. \A n \in Node : ShownAccounts' \cap AccountsOf(n)' = ShownAccounts \cap AccountsOf(n)
    BY <2>4, <2>5 DEF AccountsOf
  <2>7. TreeAddsUp'
    BY <2>1, <2>6 DEF TreeAddsUp
  <2> QED
    BY <2>3, <2>4, <2>5, <2>7
<1>3. CASE OpenTree
  <2>1. UNCHANGED <<home, loaded>> /\ shown' = [n \in Node |-> Hidden]
    BY <1>3 DEF OpenTree, history
  <2> QED
    BY <2>1 DEF LoadedAreOwned, ShownAccounts, TreeAddsUp, Accounts, NodesOf
<1>4. CASE LoadLevel
  <2>1. UNCHANGED <<home, shown>>
    BY <1>4 DEF LoadLevel, history
  <2>2. LoadedAreOwned'
    BY <1>4 DEF LoadLevel, LoadedAreOwned, TypeInv, VTypeOK, history
  <2> QED
    BY <1>1, <2>1, <2>2
<1>5. CASE AnswerTree
  <2>1. UNCHANGED home /\ loaded' = [n \in Node |-> NoRow]
    BY <1>5 DEF AnswerTree, history
  <2>2. ShownAccounts' = LeafAccounts /\ TreeAddsUp'
    BY <1>5, AnswerAddsUp
  <2>3. \A a \in LeafAccounts : Rooted(a)
    BY LineOfLeaf
  <2>4. \A a \in LeafAccounts : Rooted(a)'
    BY <2>1, <2>3 DEF Rooted, Up1, Up2, Up3, Up4, Up5
  <2> QED
    BY <2>1, <2>2, <2>4 DEF LoadedAreOwned
<1>6. CASE \/ \E query \in Node \cup {NoScope} : OpenSeries(query)
           \/ ResolveAccounts
           \/ AnswerSeries
           \/ UNCHANGED vVars
  <2>1. UNCHANGED <<home, shown, loaded>>
    BY <1>6 DEF OpenSeries, ResolveAccounts, AnswerSeries, vVars, history, tree
  <2> QED
    BY <1>1, <2>1 DEF LoadedAreOwned
<1> QED
  BY <1>2, <1>3, <1>4, <1>5, <1>6 DEF VNext

(* The total of each node shown is that of the accounts shown beneath it,  *)
(* however the tables were written while they were read.                   *)
THEOREM TotalsAddUp == VSpec => []TreeAddsUp
<1>1. TreeInv => TreeAddsUp
  BY DEF TreeInv
<1> QED
  BY InitTypes, StepTypes, InitTree, StepTree, <1>1, PTL DEF VSpec

-------------------------------------------------------------------------------
(* A viewer is confined *)

Confined == Restricted /\ token.scopeId # NoScope

LEMMA ConfinedToNode ==
    ASSUME TypeInv, Confined
    PROVE  token.scopeId \in Node
BY ViewsAssumption DEF TypeInv, VTypeOK, Confined

(* The accounts that are shown belong to the scope.                        *)
LEMMA LeavesConfined ==
    ASSUME TypeInv, LoadedAreOwned, Confined, NEW s \in Node, s = token.scopeId,
           NEW a \in LeafAccounts
    PROVE  BelongsTo(a, s)
<1>1. Up4(a) \in Products /\ Up3(a) \in Projects /\ Rooted(a) /\ a \in Node
  BY LineOfLeaf
<1>2. ProductInScope(Up4(a)) /\ ProjectInScope(Up3(a))
  BY <1>1 DEF Products, Projects, Looped, InScope, NodesOf
<1>3. s = Up4(a) \/ s = Up3(a)
  BY <1>2 DEF ProductInScope, ProjectInScope, Confined
<1> QED
  BY <1>1, <1>3, RootedBelongs

(* The accounts of a node belong to it.                                    *)
LEMMA SelectedIsOwned ==
    ASSUME TypeInv, NEW kind, NEW S \in SUBSET Node, NEW T, S \subseteq T
    PROVE  Selected(kind, S) \in SUBSET Node /\ Selected(kind, S) \subseteq WithOwned(T)
<1>1. \A m \in Node : parent[m] \in Node => home[m] = parent[m]
  BY HierarchyAssumption DEF TypeInv, VTypeOK, Exists
<1> QED
  BY <1>1 DEF Selected, WithOwned, NodesOf

LEMMA AccountsBelong ==
    ASSUME TypeInv, NEW n \in Node
    PROVE  \A a \in CloudAccountIDs(n) : BelongsTo(a, n)
<1> DEFINE S1 == WithOwned({n})
           S2 == WithOwned(S1)
           S3 == WithOwned(S2)
           S4 == WithOwned(S3)
           S5 == WithOwned(S4)
<1>0. {n} \in SUBSET Node
  OBVIOUS
<1>1. \A kind : Selected(kind, {n}) \in SUBSET Node /\ Selected(kind, {n}) \subseteq S1
  BY <1>0, SelectedIsOwned
<1> HIDE DEF S1
<1>2. \A kind, S : S \in SUBSET Node /\ S \subseteq S1 =>
          Selected(kind, S) \in SUBSET Node /\ Selected(kind, S) \subseteq S2
  BY SelectedIsOwned
<1> HIDE DEF S2
<1>3. \A kind, S : S \in SUBSET Node /\ S \subseteq S2 =>
          Selected(kind, S) \in SUBSET Node /\ Selected(kind, S) \subseteq S3
  BY SelectedIsOwned
<1> HIDE DEF S3
<1>4. \A kind, S : S \in SUBSET Node /\ S \subseteq S3 =>
          Selected(kind, S) \in SUBSET Node /\ Selected(kind, S) \subseteq S4
  BY SelectedIsOwned
<1> HIDE DEF S4
<1>5. \A kind, S : S \in SUBSET Node /\ S \subseteq S4 =>
          Selected(kind, S) \in SUBSET Node /\ Selected(kind, S) \subseteq S5
  BY SelectedIsOwned
<1> HIDE DEF S5
<1>6. \/ CloudAccountIDs(n) = {n}
      \/ CloudAccountIDs(n) \subseteq S1
      \/ CloudAccountIDs(n) \subseteq S2
      \/ CloudAccountIDs(n) \subseteq S3
      \/ CloudAccountIDs(n) \subseteq S4
      \/ CloudAccountIDs(n) \subseteq S5
  BY <1>1, <1>2, <1>3, <1>4, <1>5, KindsOfRows DEF CloudAccountIDs
<1> QED
  BY <1>6, OwnedInSteps DEF S1, S2, S3, S4, S5

(* The nodes beneath the scope of the token.                               *)
Beneath == {n \in Node : BelongsTo(n, token.scopeId)}

ScopeIsTokens == reading # "idle" \/ SeriesAnswered => scope = token.scopeId
SeriesBeneath == SeriesAnswered => points \subseteq Beneath

ViewerInv ==
    /\ TreeInv
    /\ Confined => /\ ScopeIsTokens
                   /\ ids \subseteq Beneath
                   /\ ShownAccounts \subseteq Beneath
                   /\ SeriesBeneath

LEMMA InitViewer == VInit => ViewerInv
<1> SUFFICES ASSUME VInit PROVE ViewerInv
  OBVIOUS
<1>1. ShownAccounts = {}
  BY DEF VInit, ShownAccounts, Accounts, NodesOf
<1> QED
  BY <1>1, InitTree DEF VInit, ViewerInv, ScopeIsTokens, SeriesBeneath, SeriesAnswered

LEMMA StepViewer == TypeInv /\ ViewerInv /\ [VNext]_vVars => ViewerInv'
<1> SUFFICES ASSUME TypeInv, ViewerInv, [VNext]_vVars PROVE ViewerInv'
  OBVIOUS
<1> USE DEF ViewerInv
<1>0. TreeInv'
  BY StepTree
<1>1. UNCHANGED token /\ (Confined' <=> Confined)
  <2>1. UNCHANGED token
    BY DEF VNext, Write, OpenTree, LoadLevel, AnswerTree, OpenSeries, ResolveAccounts,
           AnswerSeries, vVars
  <2> QED
    BY <2>1 DEF Confined, Restricted
<1>2. Confined => token.scopeId \in Node
  BY ConfinedToNode
<1>3. ASSUME UNCHANGED home
      PROVE  Beneath' = Beneath
  BY <1>1, <1>3 DEF Beneath, BelongsTo, WithOwned
<1>4. CASE Write
  <2>1. UNCHANGED <<tree, series>>
    BY <1>4 DEF Write
  <2>2. \A m \in Node : home[m] # NoRow => home'[m] = home[m]
    BY <1>4, WriteKeepsHome
  <2>3. \A s \in Node, n \in Node : BelongsTo(n, s) => BelongsTo(n, s)'
    BY <2>2, BelongsForEver
  <2>4. Confined => Beneath \subseteq Beneath'
    <3> SUFFICES ASSUME Confined PROVE Beneath \subseteq Beneath'
      OBVIOUS
    <3>1. PICK s \in Node : s = token.scopeId
      BY <1>2
    <3>2. s = token'.scopeId
      BY <1>1, <3>1
    <3> QED
      BY <2>3, <3>1, <3>2 DEF Beneath, BelongsTo
  <2>5. ShownAccounts' = ShownAccounts
    BY <2>1 DEF ShownAccounts, tree
  <2> QED
    BY <1>0, <1>1, <2>1, <2>4, <2>5 DEF ScopeIsTokens, SeriesBeneath, SeriesAnswered, series
<1>5. CASE OpenTree
  <2>1. UNCHANGED <<home, series>> /\ shown' = [n \in Node |-> Hidden]
    BY <1>5 DEF OpenTree, history
  <2>2. ShownAccounts' = {}
    BY <2>1 DEF ShownAccounts, Accounts, NodesOf
  <2> QED
    BY <1>0, <1>1, <1>3, <2>1, <2>2 DEF ScopeIsTokens, SeriesBeneath, SeriesAnswered, series
<1>6. CASE LoadLevel
  <2>1. UNCHANGED <<home, shown, series>>
    BY <1>6 DEF LoadLevel, history
  <2>2. ShownAccounts' = ShownAccounts
    BY <2>1 DEF ShownAccounts
  <2> QED
    BY <1>0, <1>1, <1>3, <2>1, <2>2 DEF ScopeIsTokens, SeriesBeneath, SeriesAnswered, series
<1>7. CASE AnswerTree
  <2>1. UNCHANGED <<home, series>>
    BY <1>7 DEF AnswerTree, history
  <2>2. Confined => ShownAccounts' \subseteq Beneath
    <3> SUFFICES ASSUME Confined PROVE LeafAccounts \subseteq Beneath
      BY <1>7, AnswerAddsUp DEF TreeInv
    <3>1. PICK s \in Node : s = token.scopeId
      BY <1>2
    <3>2. \A a \in LeafAccounts : a \in Node /\ BelongsTo(a, s)
      BY <3>1, LeavesConfined, LineOfLeaf DEF TreeInv
    <3> QED
      BY <3>1, <3>2 DEF Beneath
  <2> QED
    BY <1>0, <1>1, <1>3, <2>1, <2>2 DEF ScopeIsTokens, SeriesBeneath, SeriesAnswered, series
<1>8. CASE \E query \in Node \cup {NoScope} : OpenSeries(query)
  <2>1. /\ UNCHANGED <<home, shown, ids>>
        /\ points' = Hidden
        /\ Confined => scope' = token.scopeId
    BY <1>8 DEF OpenSeries, EffectiveScope, Confined, history, tree
  <2>2. ShownAccounts' = ShownAccounts
    BY <2>1 DEF ShownAccounts
  <2> QED
    BY <1>0, <1>1, <1>3, <2>1, <2>2 DEF ScopeIsTokens, SeriesBeneath, SeriesAnswered
<1>9. CASE ResolveAccounts
  <2>1. UNCHANGED <<home, shown, scope>> /\ points' \in {{}, Hidden}
    BY <1>9 DEF ResolveAccounts, history, tree
  <2>2. scope \in Node /\ ids' = CloudAccountIDs(scope) /\ reading = "accounts"
    BY <1>9 DEF ResolveAccounts, TypeInv
  <2>3. ids' \subseteq Node
    BY StepTypes DEF TypeInv, VTypeOK, Accounts, NodesOf
  <2>4. Confined => scope = token.scopeId /\ ids' \subseteq Beneath
    <3>1. PICK n \in Node : n = scope
      BY <2>2
    <3>2. \A a \in ids' : BelongsTo(a, n)
      BY <2>2, <3>1, AccountsBelong
    <3>3. Confined => n = token.scopeId
      BY <2>2, <3>1 DEF ScopeIsTokens
    <3> QED
      BY <2>3, <3>1, <3>2, <3>3 DEF Beneath
  <2>5. ShownAccounts' = ShownAccounts
    BY <2>1 DEF ShownAccounts
  <2> QED
    BY <1>0, <1>1, <1>3, <2>1, <2>4, <2>5 DEF ScopeIsTokens, SeriesBeneath, SeriesAnswered
<1>10. CASE AnswerSeries
  <2>1. /\ UNCHANGED <<home, shown, scope>>
        /\ ids' = {} /\ reading = "costs"
        /\ scope # NoScope => points' \subseteq ids
    BY <1>10 DEF AnswerSeries, history, tree
  <2>2. Confined => scope = token.scopeId /\ scope # NoScope
    BY <2>1 DEF ScopeIsTokens, Confined
  <2>3. ShownAccounts' = ShownAccounts
    BY <2>1 DEF ShownAccounts
  <2> QED
    BY <1>0, <1>1, <1>3, <2>1, <2>2, <2>3 DEF ScopeIsTokens, SeriesBeneath, SeriesAnswered
<1>11. CASE UNCHANGED vVars
  <2>1. UNCHANGED <<home, shown, series>>
    BY <1>11 DEF vVars, history, tree
  <2>2. ShownAccounts' = ShownAccounts
    BY <2>1 DEF ShownAccounts
  <2> QED
    BY <1>0, <1>1, <1>3, <2>1, <2>2 DEF ScopeIsTokens, SeriesBeneath, SeriesAnswered, series
<1> QED
  BY <1>4, <1>5, <1>6, <1>7, <1>8, <1>9, <1>10, <1>11 DEF VNext

(* Whatever is written while the views are read, a viewer with a scope of  *)
(* any type is shown accounts of that scope only, and totals of the costs  *)
(* of these accounts.                                                      *)
THEOREM ViewerIsConfined == VSpec => []ViewerConfined
<1>1. TypeInv /\ ViewerInv => ViewerConfined
  <2> SUFFICES ASSUME TypeInv, ViewerInv, Confined PROVE ViewerConfined
    BY DEF ViewerConfined, Confined
  <2> DEFINE own == AccountsOf(token.scopeId)
  <2>1. ShownAccounts \subseteq own
    BY DEF ViewerInv, Beneath, AccountsOf, ShownAccounts
  <2>2. SeriesAnswered => points \subseteq own
    BY DEF ViewerInv, Beneath, AccountsOf, SeriesBeneath, SeriesAnswered, TypeInv, VTypeOK
  <2> HIDE DEF own
  <2>3. \A n : ShownAccounts \cap AccountsOf(n) \cap own = ShownAccounts \cap AccountsOf(n)
    BY <2>1
  <2>4. \A n \in Node : shown[n] # Hidden =>
            shown[n] = SumFunctionOnSet(shown, ShownAccounts \cap AccountsOf(n) \cap own)
    BY <2>3 DEF ViewerInv, TreeInv, TreeAddsUp
  <2> QED
    BY <2>1, <2>2, <2>4 DEF ViewerConfined, own
<1> QED
  BY InitTypes, StepTypes, InitViewer, StepViewer, <1>1, PTL DEF VSpec

-------------------------------------------------------------------------------
(* The accounts beneath a node *)

LEMMA SelectedRows ==
    ASSUME NEW kind, NEW S
    PROVE  \A m : m \in Selected(kind, S) <=>
                      m \in Node /\ Kind[m] = kind /\ parent[m] \in S
BY DEF Selected, NodesOf

(* Nodes of one table have no account in common.                           *)
LEMMA AccountsApart ==
    ASSUME NEW p \in Node, NEW q \in Node, p # q, Kind[p] = Kind[q]
    PROVE  CloudAccountIDs(p) \cap CloudAccountIDs(q) = {}
<1>1. \A kind, S, T : S \cap T = {} => Selected(kind, S) \cap Selected(kind, T) = {}
  BY DEF Selected
<1>2. {p} \cap {q} = {}
  OBVIOUS
<1> QED
  BY <1>1, <1>2, KindsOfRows DEF CloudAccountIDs

(* The accounts of a node are those of the rows that name it.              *)
LEMMA AccountsOfChildren ==
    ASSUME NEW kind \in DOMAIN KindAbove, NEW n \in Node, Kind[n] = KindAbove[kind]
    PROVE  \A a : a \in CloudAccountIDs(n) <=>
                   \E m \in Selected(kind, {n}) : a \in CloudAccountIDs(m)
<1> DEFINE S1(S) == Selected("account", S)
           S2(S) == S1(Selected("region", S))
           S3(S) == S2(Selected("environment", S))
           S4(S) == S3(Selected("project", S))
           Rows == Selected(kind, {n})
<1>1. \A m \in Rows : m \in Node /\ Kind[m] = kind
  BY SelectedRows
<1>2. \A k, S, x : x \in Selected(k, S) <=> \E m \in S : x \in Selected(k, {m})
  BY DEF Selected
<1>3. \A S, x : x \in S1(S) <=> \E m \in S : x \in S1({m})
  BY <1>2
<1> HIDE DEF S1
<1>4. \A S, x : x \in S2(S) <=> \E m \in S : x \in S2({m})
  BY <1>2, <1>3
<1> HIDE DEF S2
<1>5. \A S, x : x \in S3(S) <=> \E m \in S : x \in S3({m})
  BY <1>2, <1>4
<1> HIDE DEF S3
<1>6. \A S, x : x \in S4(S) <=> \E m \in S : x \in S4({m})
  BY <1>2, <1>5
<1> HIDE DEF S4
<1>7. ASSUME NEW m \in Node
      PROVE  /\ Kind[m] = "account" => CloudAccountIDs(m) = {m}
             /\ Kind[m] = "region" => CloudAccountIDs(m) = S1({m})
             /\ Kind[m] = "environment" => CloudAccountIDs(m) = S2({m})
             /\ Kind[m] = "project" => CloudAccountIDs(m) = S3({m})
             /\ Kind[m] = "product" => CloudAccountIDs(m) = S4({m})
             /\ Kind[m] = "organization" => CloudAccountIDs(m) = S4(Selected("product", {m}))
  BY DEF CloudAccountIDs, S1, S2, S3, S4
<1>8. /\ kind = "account" => CloudAccountIDs(n) = Rows
      /\ kind = "region" => CloudAccountIDs(n) = S1(Rows)
      /\ kind = "environment" => CloudAccountIDs(n) = S2(Rows)
      /\ kind = "project" => CloudAccountIDs(n) = S3(Rows)
      /\ kind = "product" => CloudAccountIDs(n) = S4(Rows)
  BY <1>7 DEF KindAbove, S1, S2, S3, S4
<1>9. kind \in {"account", "region", "environment", "project", "product"}
  BY DEF KindAbove
<1> HIDE DEF Rows
<1>10. \A m \in Rows :
          /\ kind = "account" => CloudAccountIDs(m) = {m}
          /\ kind = "region" => CloudAccountIDs(m) = S1({m})
          /\ kind = "environment" => CloudAccountIDs(m) = S2({m})
          /\ kind = "project" => CloudAccountIDs(m) = S3({m})
          /\ kind = "product" => CloudAccountIDs(m) = S4({m})
  BY <1>1, <1>7
<1>11. /\ \A x : x \in S1(Rows) <=> \E m \in Rows : x \in S1({m})
       /\ \A x : x \in S2(Rows) <=> \E m \in Rows : x \in S2({m})
       /\ \A x : x \in S3(Rows) <=> \E m \in Rows : x \in S3({m})
       /\ \A x : x \in S4(Rows) <=> \E m \in Rows : x \in S4({m})
  BY <1>3, <1>4, <1>5, <1>6
<1>12. ASSUME NEW a
       PROVE  a \in CloudAccountIDs(n) <=> \E m \in Rows : a \in CloudAccountIDs(m)
  <2>1. CASE kind = "account"
    BY <1>8, <1>10, <2>1
  <2>2. CASE kind = "region"
    <3>1. a \in CloudAccountIDs(n) <=> a \in S1(Rows)
      BY <1>8, <2>2
    <3>2. \A m \in Rows : a \in CloudAccountIDs(m) <=> a \in S1({m})
      BY <1>10, <2>2
    <3> QED
      BY <1>11, <3>1, <3>2
  <2>3. CASE kind = "environment"
    <3>1. a \in CloudAccountIDs(n) <=> a \in S2(Rows)
      BY <1>8, <2>3
    <3>2. \A m \in Rows : a \in CloudAccountIDs(m) <=> a \in S2({m})
      BY <1>10, <2>3
    <3> QED
      BY <1>11, <3>1, <3>2
  <2>4. CASE kind = "project"
    <3>1. a \in CloudAccountIDs(n) <=> a \in S3(Rows)
      BY <1>8, <2>4
    <3>2. \A m \in Rows : a \in CloudAccountIDs(m) <=> a \in S3({m})
      BY <1>10, <2>4
    <3> QED
      BY <1>11, <3>1, <3>2
  <2>5. CASE kind = "product"
    <3>1. a \in CloudAccountIDs(n) <=> a \in S4(Rows)
      BY <1>8, <2>5
    <3>2. \A m \in Rows : a \in CloudAccountIDs(m) <=> a \in S4({m})
      BY <1>10, <2>5
    <3> QED
      BY <1>11, <3>1, <3>2
  <2> QED
    BY <1>9, <2>1, <2>2, <2>3, <2>4, <2>5
<1> QED
  BY <1>12 DEF Rows

(* The costs of the accounts of a node.                                    *)
CostsOf(n) == costs \cap CloudAccountIDs(n)

LEMMA SumOfChildren ==
    ASSUME TypeInv,
           NEW kind \in DOMAIN KindAbove, NEW n \in Node, Kind[n] = KindAbove[kind],
           NEW total,
           \A m \in Selected(kind, {n}) :
              total[m] = SumFunctionOnSet(Amount, CostsOf(m))
    PROVE  SumFunctionOnSet(total, Selected(kind, {n}))
             = SumFunctionOnSet(Amount, CostsOf(n))
<1> DEFINE P == Selected(kind, {n})
           part == [m \in Node |-> CostsOf(m)]
<1>1. P \in SUBSET Node /\ IsFiniteSet(P) /\ \A m \in P : Kind[m] = kind
  BY SelectedRows, SomeAreFinite
<1>2. \A m \in Node : CostsOf(m) \in SUBSET Node /\ \A a \in CostsOf(m) : Amount[a] \in Nat
  BY ViewsAssumption DEF TypeInv, InTheirTables, CostsOf, Accounts, NodesOf
<1>3. \A m \in P : /\ Summands(Amount, part[m])
                   /\ total[m] = SumFunctionOnSet(Amount, part[m])
  BY <1>1, <1>2, SomeAreFinite DEF Summands
<1>4. \A p, q \in P : p # q => part[p] \cap part[q] = {}
  BY <1>1, AccountsApart DEF CostsOf
<1>5. \A a : a \in CostsOf(n) <=> \E m \in P : a \in part[m]
  BY <1>1, AccountsOfChildren DEF CostsOf
<1> HIDE DEF P, part
<1>6. SumFunctionOnSet(total, P) = SumFunctionOnSet(Amount, CostsOf(n))
  BY <1>1, <1>3, <1>4, <1>5, SumOfParts
<1> QED
  BY <1>6 DEF P

-------------------------------------------------------------------------------
(* A tree read from one state of the tables *)

(* The queries made so far have loaded what is in the tables now: the rows *)
(* of the first tables that hang on an organization.                       *)
Rank(n) == CASE Kind[n] = "organization" -> 1 [] Kind[n] = "product" -> 2
             [] Kind[n] = "project" -> 3 [] Kind[n] = "environment" -> 4
             [] Kind[n] = "region" -> 5 [] Kind[n] = "account" -> 6

Attached(n) == Exists(n) /\ (Rank(n) > 1 => loaded[parent[n]] # NoRow)

LoadedIsStored ==
    \A n \in Node :
        loaded[n] = IF Rank(n) < level /\ Attached(n) THEN parent[n] ELSE NoRow

(* Beneath a node whose total is compared nothing is out of scope.         *)
Free(n) ==
    Restricted => \/ token.scopeType = "product" /\ Kind[n] # "organization"
                  \/ token.scopeType = "project"
                       /\ Kind[n] \notin {"organization", "product"}

LEMMA ChildrenVisited ==
    ASSUME TypeInv, LoadedIsStored, level = 7,
           NEW kind \in DOMAIN KindAbove,
           NEW n \in Visited, Kind[n] = KindAbove[kind], Free(n)
    PROVE  /\ Parts(n, Visited) = Selected(kind, {n})
           /\ \A m \in Selected(kind, {n}) : m \in Visited /\ Kind[m] = kind /\ Free(m)
<1>1. n \in Node /\ loaded[n] # NoRow
  <2>1. n \in Node
    BY VisitedAreRows
  <2>2. \A k, S : NoRow \notin S => \A x \in Looped(k, S) : loaded[x] # NoRow
    BY DEF Looped
  <2>3. /\ NoRow \notin Orgs /\ NoRow \notin Products /\ NoRow \notin Projects
        /\ NoRow \notin Environments /\ NoRow \notin Regions
    BY VisitedInLoops, HierarchyAssumption DEF NodesOf
  <2> QED
    BY <2>1, <2>2, <2>3, VisitedInLoops
    DEF Orgs, Products, Projects, Environments, Regions, LeafAccounts
<1>2. ASSUME NEW m \in Node, parent[m] = n
      PROVE  Kind[m] = kind
  BY <1>1, <1>2, KindsOfRows, ParentsOfKinds, HierarchyAssumption
  DEF TypeInv, VTypeOK, InTheirTables, Exists, NodesOf, KindAbove
<1>3. ASSUME NEW m \in Selected(kind, {n})
      PROVE  m \in Visited /\ Kind[m] = kind /\ Free(m) /\ loaded[m] = n
  <2>1. m \in Node /\ Kind[m] = kind /\ parent[m] = n
    BY <1>3, SelectedRows
  <2>2. loaded[m] = n
    BY <1>1, <2>1, KindsOfRows, HierarchyAssumption DEF LoadedIsStored, Rank, Attached, Exists
  <2>3. InScope(m) /\ Free(m)
    BY <2>1 DEF Free, InScope, ProductInScope, ProjectInScope, KindAbove
  <2>4. m \in Visited
    <3>1. \A S : n \in S => m \in Looped(kind, S)
      BY <2>1, <2>2, <2>3 DEF Looped, NodesOf
    <3>2. CASE kind = "product"
      BY <3>1, <3>2, VisitedOfKind, VisitedInLoops DEF Products, KindAbove
    <3>3. CASE kind = "project"
      BY <3>1, <3>3, VisitedOfKind, VisitedInLoops DEF Projects, KindAbove
    <3>4. CASE kind = "environment"
      BY <3>1, <3>4, VisitedOfKind, VisitedInLoops DEF Environments, KindAbove
    <3>5. CASE kind = "region"
      BY <3>1, <3>5, VisitedOfKind, VisitedInLoops DEF Regions, KindAbove
    <3>6. CASE kind = "account"
      BY <3>1, <3>6, VisitedOfKind, VisitedInLoops DEF LeafAccounts, KindAbove
    <3> QED
      BY <3>2, <3>3, <3>4, <3>5, <3>6 DEF KindAbove
  <2> QED
    BY <2>1, <2>2, <2>3, <2>4
<1>4. ASSUME NEW m \in Parts(n, Visited)
      PROVE  m \in Selected(kind, {n})
  <2>1. m \in Node /\ loaded[m] = n /\ n # NoRow
    BY <1>1, <1>4, VisitedAreRows, HierarchyAssumption DEF Parts
  <2>2. parent[m] = n
    BY <2>1 DEF LoadedIsStored
  <2> QED
    BY <1>2, <2>1, <2>2, SelectedRows
<1> QED
  BY <1>3, <1>4 DEF Parts

LEMMA TotalsAreRight ==
    ASSUME TypeInv, LoadedIsStored, level = 7
    PROVE  \A n \in Visited :
              Free(n) => Totals(Visited)[n] = SumFunctionOnSet(Amount, CostsOf(n))
<1> DEFINE free == {n \in Visited : Free(n)}
           right == [n \in Node |-> SumFunctionOnSet(Amount, CostsOf(n))]
<1>0. free \in SUBSET Node
  BY VisitedAreRows
<1>1. RightFor("account", CostByAccount, free, right)
  <2> SUFFICES ASSUME NEW a \in Visited, Kind[a] = "account"
               PROVE  CostByAccount[a] = SumFunctionOnSet(Amount, CostsOf(a))
    BY VisitedAreRows DEF RightFor
  <2>1. a \in Node /\ CloudAccountIDs(a) = {a}
    BY VisitedAreRows DEF CloudAccountIDs
  <2>2. CASE a \in costs
    <3>1. CostsOf(a) = {a} /\ Amount[a] \in Nat
      BY <2>1, <2>2, ViewsAssumption DEF CostsOf, TypeInv, InTheirTables
    <3>2. SumFunctionOnSet(Amount, {a}) = Amount[a]
      BY <3>1, SumOne
    <3> QED
      BY <2>1, <2>2, <3>1, <3>2 DEF CostByAccount
  <2>3. CASE a \notin costs
    <3>1. CostsOf(a) = {}
      BY <2>1, <2>3 DEF CostsOf
    <3> QED
      BY <2>1, <2>3, <3>1, SumEmpty DEF CostByAccount
  <2> QED
    BY <2>2, <2>3
<1>2. ASSUME NEW kind \in DOMAIN KindAbove, NEW total, RightFor(kind, total, free, right)
      PROVE  RightFor(KindAbove[kind], Rollup(KindAbove[kind], Visited, total), free, right)
  <2> SUFFICES ASSUME NEW n \in Visited, Kind[n] = KindAbove[kind], Free(n)
               PROVE  Rollup(KindAbove[kind], Visited, total)[n]
                        = SumFunctionOnSet(Amount, CostsOf(n))
    BY VisitedAreRows DEF RightFor
  <2>1. n \in Node
    BY VisitedAreRows
  <2>2. /\ Parts(n, Visited) = Selected(kind, {n})
        /\ \A m \in Selected(kind, {n}) : m \in Visited /\ Kind[m] = kind /\ Free(m)
    BY ChildrenVisited
  <2>3. \A m \in Selected(kind, {n}) : total[m] = SumFunctionOnSet(Amount, CostsOf(m))
    BY <1>2, <2>2, VisitedAreRows DEF RightFor
  <2>4. SumFunctionOnSet(total, Selected(kind, {n})) = SumFunctionOnSet(Amount, CostsOf(n))
    BY <2>1, <2>3, SumOfChildren
  <2> QED
    BY <2>1, <2>2, <2>4 DEF Rollup
<1> HIDE DEF free, right
<1>3. \A n \in free : Totals(Visited)[n] = right[n]
  BY <1>0, <1>1, <1>2, TotalsByLevels
<1> QED
  BY <1>3, VisitedAreRows DEF free, right

-------------------------------------------------------------------------------
(* The views agree *)

TreeIsStored ==
    \A n \in Node : Free(n) /\ shown[n] # Hidden =>
        shown[n] = SumFunctionOnSet(Amount, CostsOf(n))

SeriesIsStored ==
    scope # NoScope => /\ reading = "costs" => ids = CloudAccountIDs(scope)
                       /\ SeriesAnswered => points = CostsOf(scope)

ScopeIsFree == KnownScope /\ scope # NoScope => Free(scope)

(* What was read in one go shows the tables as they were; while nothing    *)
(* was written since, as they are.                                         *)
AgreeInv ==
    /\ treeOf \in 0..writes \cup {Torn}
    /\ seriesOf \in 0..writes \cup {Torn}
    /\ level = 0 => \A n \in Node : loaded[n] = NoRow
    /\ level # 0 /\ treeOf = writes => LoadedIsStored
    /\ TreeAnswered /\ treeOf = writes => TreeIsStored
    /\ seriesOf = writes => SeriesIsStored
    /\ ScopeIsFree
    /\ ViewsAgree

LEMMA InitAgree == VInit => AgreeInv
BY ViewsAssumption
DEF VInit, AgreeInv, TreeAnswered, SeriesAnswered, SeriesIsStored, ViewsAgree, ScopeIsFree

LEMMA ScopeKept == [VNext]_vVars => (KnownScope' <=> KnownScope)
<1> SUFFICES ASSUME [VNext]_vVars PROVE KnownScope' <=> KnownScope
  OBVIOUS
<1>1. UNCHANGED token
  BY DEF VNext, Write, OpenTree, LoadLevel, AnswerTree, OpenSeries, ResolveAccounts,
         AnswerSeries, vVars
<1> QED
  BY <1>1 DEF KnownScope, Restricted

LEMMA StepAgree == TypeInv /\ AgreeInv /\ [VNext]_vVars => AgreeInv'
<1> SUFFICES ASSUME TypeInv, AgreeInv, [VNext]_vVars PROVE AgreeInv'
  OBVIOUS
<1> USE DEF AgreeInv
<1>0. /\ TypeInv' /\ writes \in Nat /\ Torn \notin Nat /\ level \in 0..7
      /\ treeOf \in Nat \cup {Torn} /\ seriesOf \in Nat \cup {Torn}
      /\ KnownScope' <=> KnownScope
  BY StepTypes, ScopeKept, ViewsAssumption DEF TypeInv, VTypeOK
<1>1. CASE Write
  <2>1. UNCHANGED <<token, tree, series>> /\ writes' = writes + 1
    BY <1>1 DEF Write
  <2>2. /\ treeOf' \in 0..writes' \cup {Torn} /\ treeOf' # writes'
        /\ seriesOf' \in 0..writes' \cup {Torn} /\ seriesOf' # writes'
    BY <1>0, <2>1 DEF tree, series
  <2>3. ScopeIsFree'
    BY <2>1 DEF ScopeIsFree, KnownScope, Free, Restricted, series
  <2>4. ViewsAgree'
    BY <1>0, <2>1 DEF ViewsAgree, TreeAnswered, SeriesAnswered, tree, series
  <2> QED
    BY <2>1, <2>2, <2>3, <2>4 DEF tree
<1>2. CASE OpenTree
  <2>1. /\ UNCHANGED <<vars, history, token, loaded, series>>
        /\ level = 0 /\ level' = 1 /\ treeOf' = writes
    BY <1>2 DEF OpenTree
  <2>2. LoadedIsStored'
    <3>1. \A n \in Node : ~(Rank(n) < 1)
      BY KindsOfRows DEF Rank
    <3> QED
      BY <2>1, <3>1 DEF LoadedIsStored, Rank
  <2>3. SeriesIsStored' <=> SeriesIsStored
    BY <2>1 DEF SeriesIsStored, SeriesAnswered, CostsOf, CloudAccountIDs, Selected, series, vars
  <2>4. ScopeIsFree'
    BY <2>1 DEF ScopeIsFree, KnownScope, Free, Restricted, series
  <2> QED
    BY <1>0, <2>1, <2>2, <2>3, <2>4 DEF TreeAnswered, ViewsAgree, history, series
<1>3. CASE LoadLevel
  <2>1. /\ UNCHANGED <<vars, history, token, shown, series>>
        /\ level \in 1..6 /\ level' = level + 1
        /\ treeOf' \in {treeOf, Torn} /\ (treeOf' = writes => treeOf = writes)
    BY <1>0, <1>3 DEF LoadLevel
  <2>2. treeOf = writes => LoadedIsStored'
    <3> SUFFICES ASSUME LoadedIsStored PROVE LoadedIsStored'
      BY <2>1
    <3>1. \A n \in Node : /\ Rank(n) \in 1..6
                          /\ Kind[n] = Kinds[level] <=> Rank(n) = level
      BY <2>1, KindsOfRows DEF Rank
    <3>2. \A n \in Node : Exists(n) /\ Rank(n) > 1 =>
              parent[n] \in Node /\ Rank(parent[n]) = Rank(n) - 1
      BY KindsOfRows, ParentsOfKinds DEF TypeInv, VTypeOK, InTheirTables, Exists, NodesOf, Rank
    <3>3. \A n \in Node : loaded'[n] =
              IF Rank(n) = level /\ Exists(n) /\ (level > 1 => loaded[parent[n]] # NoRow)
              THEN parent[n] ELSE loaded[n]
      BY <1>3, <3>1 DEF LoadLevel
    <3>4. ASSUME NEW n \in Node
          PROVE  loaded'[n] = IF Rank(n) < level + 1 /\ Exists(n)
                                 /\ (Rank(n) > 1 => loaded'[parent[n]] # NoRow)
                              THEN parent[n] ELSE NoRow
      <4>1. Rank(n) > 1 /\ Exists(n) /\ Rank(n) < level + 1 =>
                loaded'[parent[n]] = loaded[parent[n]]
        BY <2>1, <3>1, <3>2, <3>3
      <4>2. loaded[n] = IF Rank(n) < level /\ Exists(n)
                           /\ (Rank(n) > 1 => loaded[parent[n]] # NoRow)
                        THEN parent[n] ELSE NoRow
        BY DEF LoadedIsStored, Attached
      <4> QED
        BY <2>1, <3>1, <3>3, <4>1, <4>2
    <3> QED
      BY <2>1, <3>4 DEF LoadedIsStored, Attached, Exists, Rank, vars
  <2>3. SeriesIsStored' <=> SeriesIsStored
    BY <2>1 DEF SeriesIsStored, SeriesAnswered, CostsOf, CloudAccountIDs, Selected, series, vars
  <2>4. ScopeIsFree'
    BY <2>1 DEF ScopeIsFree, KnownScope, Free, Restricted, series
  <2> QED
    BY <1>0, <2>1, <2>2, <2>3, <2>4 DEF TreeAnswered, ViewsAgree, history, series
<1>4. CASE AnswerTree
  <2>1. /\ UNCHANGED <<vars, history, token, series>>
        /\ level = 7 /\ level' = 0 /\ loaded' = [n \in Node |-> NoRow]
        /\ treeOf' \in {treeOf, Torn} /\ treeOf' \in {writes, Torn}
    BY <1>4 DEF AnswerTree
  <2>2. treeOf' = writes => treeOf = writes
    BY <1>0, <2>1
  <2>3. treeOf = writes => TreeIsStored'
    <3> SUFFICES ASSUME LoadedIsStored PROVE TreeIsStored'
      BY <2>1
    <3> DEFINE totals == Totals(Visited)
    <3>1. shown' = [n \in Node |-> IF n \in Visited THEN totals[n] ELSE Hidden]
      BY <1>4 DEF AnswerTree
    <3>2. \A n \in Visited : Free(n) => totals[n] = SumFunctionOnSet(Amount, CostsOf(n))
      BY <2>1, TotalsAreRight
    <3> HIDE DEF totals
    <3>3. \A n \in Node : Free(n) /\ shown'[n] # Hidden =>
              shown'[n] = SumFunctionOnSet(Amount, CostsOf(n))
      BY <3>1, <3>2
    <3>4. \A n \in Node : (Free(n)' <=> Free(n)) /\ CostsOf(n)' = CostsOf(n)
      BY <2>1 DEF Free, Restricted, CostsOf, CloudAccountIDs, Selected, vars
    <3> QED
      BY <3>3, <3>4 DEF TreeIsStored
  <2>4. SeriesIsStored' <=> SeriesIsStored
    BY <2>1 DEF SeriesIsStored, SeriesAnswered, CostsOf, CloudAccountIDs, Selected, series, vars
  <2>5. ScopeIsFree'
    BY <2>1 DEF ScopeIsFree, KnownScope, Free, Restricted, series
  <2>6. ViewsAgree'
    BY <1>0, <2>1, <2>2, <2>3, <2>4, <2>5
    DEF ViewsAgree, ScopeIsFree, TreeAnswered, TreeIsStored, SeriesIsStored, history, series, TypeInv, VTypeOK
  <2> QED
    BY <1>0, <2>1, <2>2, <2>3, <2>4, <2>5, <2>6 DEF history, series
<1>5. CASE \E query \in Node \cup {NoScope} : OpenSeries(query)
  <2>1. /\ UNCHANGED <<vars, history, token, tree, ids>>
        /\ points' = Hidden /\ seriesOf' = writes
        /\ scope' # NoScope => reading' = "accounts"
    BY <1>5 DEF OpenSeries
  <2>2. ScopeIsFree'
    BY <1>5, <1>0, <2>1, ViewsAssumption
    DEF OpenSeries, EffectiveScope, ScopeIsFree, KnownScope, Free, Restricted, NodesOf
  <2>3. SeriesIsStored'
    BY <2>1 DEF SeriesIsStored, SeriesAnswered
  <2>4. (LoadedIsStored' <=> LoadedIsStored) /\ (TreeIsStored' <=> TreeIsStored)
    BY <2>1 DEF LoadedIsStored, TreeIsStored, Attached, Exists, Rank, Free, Restricted,
                CostsOf, CloudAccountIDs, Selected, tree, vars
  <2> QED
    BY <1>0, <2>1, <2>2, <2>3, <2>4 DEF TreeAnswered, SeriesAnswered, ViewsAgree, history, tree
<1>6. CASE ResolveAccounts
  <2>1. /\ UNCHANGED <<vars, history, token, tree, scope>>
        /\ reading' = "costs" => ids' = CloudAccountIDs(scope)
        /\ points' # Hidden => points' = {} /\ CloudAccountIDs(scope) = {}
        /\ seriesOf' \in {seriesOf, Torn} /\ seriesOf' \in {writes, Torn}
    BY <1>6 DEF ResolveAccounts
  <2>2. CloudAccountIDs(scope)' = CloudAccountIDs(scope)
    BY <2>1 DEF CloudAccountIDs, Selected, vars
  <2>3. SeriesIsStored'
    BY <2>1, <2>2 DEF SeriesIsStored, SeriesAnswered, CostsOf
  <2>4. (LoadedIsStored' <=> LoadedIsStored) /\ (TreeIsStored' <=> TreeIsStored)
    BY <2>1 DEF LoadedIsStored, TreeIsStored, Attached, Exists, Rank, Free, Restricted,
                CostsOf, CloudAccountIDs, Selected, tree, vars
  <2>5. ScopeIsFree'
    BY <2>1 DEF ScopeIsFree, KnownScope, Free, Restricted
  <2>6. ViewsAgree'
    BY <1>0, <2>1, <2>3, <2>4, <2>5
    DEF ViewsAgree, ScopeIsFree, TreeAnswered, TreeIsStored, SeriesIsStored, history, tree, TypeInv, VTypeOK
  <2> QED
    BY <1>0, <2>1, <2>3, <2>4, <2>5, <2>6 DEF TreeAnswered, history, tree
<1>7. CASE AnswerSeries
  <2>1. /\ UNCHANGED <<vars, history, token, tree, scope>>
        /\ reading = "costs" /\ reading' = "idle"
        /\ scope # NoScope => points' = costs \cap ids
        /\ seriesOf' \in {seriesOf, Torn} /\ seriesOf' \in {writes, Torn}
    BY <1>7 DEF AnswerSeries
  <2>2. CostsOf(scope)' = CostsOf(scope)
    BY <2>1 DEF CostsOf, CloudAccountIDs, Selected, vars
  <2>3. seriesOf' = writes => SeriesIsStored'
    <3> SUFFICES ASSUME seriesOf = writes PROVE SeriesIsStored'
      BY <1>0, <2>1
    <3>1. scope # NoScope => ids = CloudAccountIDs(scope)
      BY <2>1 DEF SeriesIsStored
    <3>2. scope # NoScope => points' = CostsOf(scope)
      BY <2>1, <3>1 DEF CostsOf
    <3> QED
      BY <2>1, <2>2, <3>2 DEF SeriesIsStored
  <2>4. (LoadedIsStored' <=> LoadedIsStored) /\ (TreeIsStored' <=> TreeIsStored)
    BY <2>1 DEF LoadedIsStored, TreeIsStored, Attached, Exists, Rank, Free, Restricted,
                CostsOf, CloudAccountIDs, Selected, tree, vars
  <2>5. ScopeIsFree'
    BY <2>1 DEF ScopeIsFree, KnownScope, Free, Restricted
  <2>6. ViewsAgree'
    BY <1>0, <2>1, <2>3, <2>4, <2>5
    DEF ViewsAgree, ScopeIsFree, TreeAnswered, TreeIsStored, SeriesIsStored, history, tree, TypeInv, VTypeOK
  <2> QED
    BY <1>0, <2>1, <2>3, <2>4, <2>5, <2>6 DEF TreeAnswered, history, tree
<1>8. CASE UNCHANGED vVars
  <2>1. UNCHANGED <<vars, history, token, tree, series>>
    BY <1>8 DEF vVars
  <2>2. /\ LoadedIsStored' <=> LoadedIsStored
        /\ TreeIsStored' <=> TreeIsStored
        /\ SeriesIsStored' <=> SeriesIsStored
    BY <2>1 DEF LoadedIsStored, TreeIsStored, SeriesIsStored, SeriesAnswered, Attached, Exists,
                Rank, Free, Restricted, CostsOf, CloudAccountIDs, Selected, tree, series, vars
  <2>3. ScopeIsFree'
    BY <2>1 DEF ScopeIsFree, KnownScope, Free, Restricted, series
  <2> QED
    BY <1>0, <2>1, <2>2, <2>3 DEF ViewsAgree, TreeAnswered, SeriesAnswered, history, tree, series
<1> QED
  BY <1>1, <1>2, <1>3, <1>4, <1>5, <1>6, <1>7, <1>8 DEF VNext

(* The total of a node in the tree is the sum of its timeseries, where     *)
(* both show the same tables, for every user whose scope the tree knows    *)
(* and whatever is written later.                                          *)
THEOREM TotalsFitTheSeries == VSpec => []ViewsAgree
<1>1. AgreeInv => ViewsAgree
  BY DEF AgreeInv
<1> QED
  BY InitTypes, StepTypes, InitAgree, StepAgree, <1>1, PTL DEF VSpec
===============================================================================
