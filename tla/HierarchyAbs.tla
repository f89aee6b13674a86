----------------------------- MODULE HierarchyAbs -----------------------------
(***************************************************************************)
(* What the hierarchy promises its users: rows of six tables that form     *)
(* trees (organization, product, project, environment, region, cloud       *)
(* account), and a delete that takes a node with everything beneath it,    *)
(* cost history included, in one step or not at all.                       *)
(***************************************************************************)
EXTENDS Integers

CONSTANTS
    Node,   \* the rows that may exist, of all six tables
    Kind,   \* node -> its table
    NoRow,  \* the row is not there
    Root    \* an organization has no parent

Kinds == <<"organization", "product", "project", "environment", "region",
           "account">>

NodesOf(kind) == {n \in Node : Kind[n] = kind}
Accounts == NodesOf("account")

KindAbove == [product |-> "organization", project |-> "product",
              environment |-> "project", region |-> "environment",
              account |-> "region"]

(* The values of the foreign key column of a node: the ids of the table    *)
(* above.                                                                  *)
ParentsOf(n) ==
    IF Kind[n] = "organization" THEN {Root} ELSE NodesOf(KindAbove[Kind[n]])

ASSUME HierarchyAssumption ==
    /\ Kind \in [Node -> {Kinds[i] : i \in 1..6}]
    /\ NoRow \notin Node
    /\ Root \notin Node \cup {NoRow}

VARIABLES
    parent, \* node -> its parent's id, NoRow where there is no such row
    costs   \* the accounts that have cost records

vars == <<parent, costs>>

Exists(n)   == parent[n] # NoRow
Children(n) == {m \in Node : parent[m] = n}

(* A node and all rows beneath it: five times down from one of the six     *)
(* tables.  The node itself need not be there: a delete of a missing id    *)
(* takes the rows that name it all the same.                               *)
WithChildren(S) == S \cup {m \in Node : parent[m] \in S}
Below(n) == WithChildren(WithChildren(WithChildren(WithChildren(
                WithChildren({n})))))

Init ==
    /\ parent = [n \in Node |-> NoRow]
    /\ costs = {}

Create(n, p) ==
    /\ ~Exists(n)
    /\ parent' = [parent EXCEPT ![n] = p]
    /\ UNCHANGED costs

(* Costs are reached through the row of their account: those of an account *)
(* that is not there stay.                                                 *)
Delete(n) ==
    LET gone == Below(n)
    IN  /\ parent' = [m \in Node |-> IF m \in gone THEN NoRow ELSE parent[m]]
        /\ costs' = costs \ {a \in Accounts : a \in gone /\ Exists(a)}

(* A single account is not deleted in one step.                            *)
DropCosts(a) == costs' = costs \ {a} /\ UNCHANGED parent
DropAccount(a) == parent' = [parent EXCEPT ![a] = NoRow] /\ UNCHANGED costs

RecordCosts(a) == costs' = costs \cup {a} /\ UNCHANGED parent

Next ==
    \/ \E n \in Node : \E p \in ParentsOf(n) : Create(n, p)
    \/ \E n \in Node \ Accounts : Delete(n)
    \/ \E a \in Accounts : DropCosts(a) \/ DropAccount(a) \/ RecordCosts(a)

Spec == Init /\ [][Next]_vars
===============================================================================
