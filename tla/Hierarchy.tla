------------------------------- MODULE Hierarchy ------------------------------
(***************************************************************************)
(* The handlers of the hierarchy, statement by statement.                  *)
(*                                                                         *)
(* Creates are single statements.  They do not look whether the parent is  *)
(* there, and no foreign key is enforced.  A delete of a node runs the     *)
(* cascade in a transaction: a recursion, here a stack of the calls in     *)
(* progress, that lists the children of a node, deletes each of them with  *)
(* what is beneath, and then the node.  Several requests run at a time.    *)
(*                                                                         *)
(* A transaction works on a copy.  SQLite lets nobody else write between   *)
(* its first read and its commit, or makes it fail (SQLITE_BUSY): here, a  *)
(* write by somebody else rolls back the transactions that are open.       *)
(*                                                                         *)
(* An id that is free may be given to a new row, whether it was used       *)
(* before or not, which is more than SQLite does.                          *)
(***************************************************************************)
EXTENDS HierarchyAbs, Sequences

CONSTANTS
    Handler \* bound: deletes in progress at the same time

VARIABLES
    stack,   \* the calls of the cascade in progress, the innermost first
    work,    \* the tables as the transaction sees them, NoRow outside of one
    removing \* the account whose costs a handler has just deleted

requests == <<stack, work, removing>>
allVars  == <<vars, requests>>

Call   == [node: Node, todo: SUBSET Node]
Tables == [parent: [Node -> Node \cup {Root, NoRow}], costs: SUBSET Accounts]

\* a copy of the tables is not mistaken for no copy
ASSUME FreshAssumption == NoRow \notin Tables

InTransaction(h) == work[h] # NoRow
Idle(h) == ~InTransaction(h) /\ removing[h] = NoRow

HInit ==
    /\ Init
    /\ stack    = [h \in Handler |-> <<>>]
    /\ work     = [h \in Handler |-> NoRow]
    /\ removing = [h \in Handler |-> NoRow]

(* A write rolls back whatever transaction is open.                        *)
OthersRollBack ==
    /\ stack' = [h \in Handler |-> <<>>]
    /\ work'  = [h \in Handler |-> NoRow]

-------------------------------------------------------------------------------
(* Creates *)

CreateNode(kind) ==
    /\ \E n \in NodesOf(kind) : \E p \in ParentsOf(n) : Create(n, p)
    /\ OthersRollBack
    /\ UNCHANGED removing

CreateOrganization == CreateNode("organization")
CreateProduct      == CreateNode("product")
CreateProject      == CreateNode("project")
CreateEnvironment  == CreateNode("environment")
CreateRegion       == CreateNode("region")
CreateCloudAccount == CreateNode("account")

(* A sync or an import stores costs under the id of an account.            *)
StoreCosts ==
    /\ \E a \in Accounts : RecordCosts(a)
    /\ OthersRollBack
    /\ UNCHANGED removing

-------------------------------------------------------------------------------
(* Deletes *)

CallOn(n, tables) ==
    [node |-> n, todo |-> {m \in Node : tables.parent[m] = n}]

DeleteNode(h, kind) ==
    /\ Idle(h)
    /\ \E n \in NodesOf(kind) :
        stack' = [stack EXCEPT ![h] =
                    <<CallOn(n, [parent |-> parent, costs |-> costs])>>]
    /\ work' = [work EXCEPT ![h] = [parent |-> parent, costs |-> costs]]
    /\ UNCHANGED <<vars, removing>>

DeleteOrganization(h) == DeleteNode(h, "organization")
DeleteProduct(h)      == DeleteNode(h, "product")
DeleteProject(h)      == DeleteNode(h, "project")
DeleteEnvironment(h)  == DeleteNode(h, "environment")
DeleteRegion(h)       == DeleteNode(h, "region")

(* The loop of the innermost call takes its next child: a call of its own, *)
(* but for the accounts of a region, whose costs are deleted.              *)
CascadeInto(h) ==
    /\ stack[h] # <<>>
    /\ LET call == Head(stack[h]) IN
        /\ Kind[call.node] # "region"
        /\ \E m \in call.todo :
            stack' = [stack EXCEPT ![h] =
                <<CallOn(m, work[h]), [call EXCEPT !.todo = @ \ {m}]>>
                    \o Tail(@)]
    /\ UNCHANGED <<vars, work, removing>>

\* variant: the costs of the accounts of a region are forgotten
SkipAccountCosts(h) ==
    /\ stack[h] # <<>>
    /\ LET call == Head(stack[h]) IN
        /\ Kind[call.node] = "region"
        /\ \E a \in call.todo :
            stack' = [stack EXCEPT ![h] =
                <<[call EXCEPT !.todo = @ \ {a}]>> \o Tail(@)]
    /\ UNCHANGED <<vars, work, removing>>

DeleteAccountCosts(h) ==
    /\ stack[h] # <<>>
    /\ LET call == Head(stack[h]) IN
        /\ Kind[call.node] = "region"
        /\ \E a \in call.todo :
            /\ stack' = [stack EXCEPT ![h] =
                    <<[call EXCEPT !.todo = @ \ {a}]>> \o Tail(@)]
            /\ work' = [work EXCEPT ![h].costs = @ \ {a}]
    /\ UNCHANGED <<vars, removing>>

\* variant: the accounts of a region stay
WithoutNodeAlone(n, tables) ==
    [tables EXCEPT !.parent = [m \in Node |->
        IF m = n THEN NoRow ELSE tables.parent[m]]]

(* The end of a call: the accounts of a region go in one statement, then   *)
(* the row of the node.                                                    *)
WithoutNode(n, tables) ==
    [tables EXCEPT !.parent = [m \in Node |->
        IF m = n \/ (Kind[n] = "region" /\ tables.parent[m] = n)
        THEN NoRow ELSE tables.parent[m]]]

\* variant: the statement is issued on the database, not on the transaction
CascadeReturnOutside(h) ==
    /\ stack[h] # <<>>
    /\ LET call  == Head(stack[h])
           after == WithoutNode(call.node, [parent |-> parent, costs |-> costs])
       IN  /\ call.todo = {}
           /\ parent' = after.parent
           /\ work' = [work EXCEPT ![h] = WithoutNode(call.node, @)]
    /\ stack' = [stack EXCEPT ![h] = Tail(@)]
    /\ UNCHANGED <<costs, removing>>

CascadeReturn(h) ==
    /\ stack[h] # <<>>
    /\ LET call == Head(stack[h]) IN
        /\ call.todo = {}
        /\ work' = [work EXCEPT ![h] = WithoutNode(call.node, @)]
    /\ stack' = [stack EXCEPT ![h] = Tail(@)]
    /\ UNCHANGED <<vars, removing>>

Commit(h) ==
    /\ InTransaction(h)
    /\ stack[h] = <<>>
    /\ parent' = work[h].parent
    /\ costs'  = work[h].costs
    /\ OthersRollBack
    /\ UNCHANGED removing

\* variant: the calls in progress survive the transaction
RollbackOfWork(h) ==
    /\ InTransaction(h)
    /\ work' = [work EXCEPT ![h] = NoRow]
    /\ UNCHANGED <<vars, stack, removing>>

(* Any statement of the cascade, or the commit, fails: 500.                *)
Rollback(h) ==
    /\ InTransaction(h)
    /\ stack' = [stack EXCEPT ![h] = <<>>]
    /\ work'  = [work EXCEPT ![h] = NoRow]
    /\ UNCHANGED <<vars, removing>>

(* handleDeleteCloudAccount is not a transaction.                          *)
PurgeCosts(h, a) ==
    /\ Idle(h)
    /\ DropCosts(a)
    /\ OthersRollBack
    /\ removing' = [removing EXCEPT ![h] = a]

RemoveAccount(h) ==
    /\ removing[h] # NoRow
    /\ DropAccount(removing[h])
    /\ OthersRollBack
    /\ removing' = [removing EXCEPT ![h] = NoRow]

RemoveFails(h) ==
    /\ removing[h] # NoRow
    /\ removing' = [removing EXCEPT ![h] = NoRow]
    /\ UNCHANGED <<vars, stack, work>>

HNext ==
    \/ CreateOrganization \/ CreateProduct \/ CreateProject
    \/ CreateEnvironment \/ CreateRegion \/ CreateCloudAccount
    \/ StoreCosts
    \/ \E h \in Handler :
        \/ DeleteOrganization(h) \/ DeleteProduct(h) \/ DeleteProject(h)
        \/ DeleteEnvironment(h) \/ DeleteRegion(h)
        \/ CascadeInto(h) \/ DeleteAccountCosts(h) \/ CascadeReturn(h)
        \/ Commit(h) \/ Rollback(h)
        \/ \E a \in Accounts : PurgeCosts(h, a)
        \/ RemoveAccount(h) \/ RemoveFails(h)

HSpec == HInit /\ [][HNext]_allVars

-------------------------------------------------------------------------------
(* The tables are trees of the right kinds, and a stack of calls belongs   *)
(* to a transaction.                                                       *)
HTypeOK ==
    /\ parent \in [Node -> Node \cup {Root, NoRow}]
    /\ \A n \in Node : Exists(n) => parent[n] \in ParentsOf(n)
    /\ costs \subseteq Accounts
    /\ stack \in [Handler -> Seq(Call)]
    /\ work \in [Handler -> Tables \cup {NoRow}]
    /\ removing \in [Handler -> Accounts \cup {NoRow}]
    /\ \A h \in Handler : stack[h] # <<>> => InTransaction(h)

(* What the transaction of h has taken so far, and what it is done with.   *)
Removed(h) == {x \in Node : Exists(x) /\ work[h].parent[x] = NoRow}
Done(h, m) == IF m \in Accounts THEN m \notin work[h].costs
                                ELSE m \in Removed(h)

(* Nothing was taken but what is beneath n, and of a row that was taken,   *)
(* its children and its costs were.                                        *)
TakenBeneath(h, n) ==
    /\ \A x \in Node : work[h].parent[x] \in {NoRow, parent[x]}
    /\ work[h].costs \subseteq costs
    /\ Removed(h) \subseteq Below(n)
    /\ \A a \in costs \ work[h].costs : Exists(a) /\ a \in Below(n)
    /\ \A m \in Node : parent[m] \in Removed(h) => m \in Removed(h)
    /\ \A a \in Accounts \cap Removed(h) : a \notin work[h].costs

(* The calls in progress go down from n.  A child of the node of a call is *)
(* still to do, or is what the next call is about, or is done.             *)
OnTheWay(h, n, i) ==
    LET call == stack[h][i] IN
    /\ call.node \in Below(n) \ Accounts
    /\ IF i = Len(stack[h]) THEN call.node = n
                            ELSE parent[call.node] = stack[h][i + 1].node
    /\ call.todo \subseteq Children(call.node)
    /\ \A m \in Children(call.node) :
          \/ m \in call.todo
          \/ i > 1 /\ m = stack[h][i - 1].node
          \/ Done(h, m)

Descending(h, n) == \A i \in 1..Len(stack[h]) : OnTheWay(h, n, i)

Returned(h, n) ==
    stack[h] = <<>> => {m \in Children(n) \cup {n} : Exists(m)} \subseteq Removed(h)

(* Whatever order the recursion takes, and wherever it stands, it has left *)
(* nothing out that it will not come back to, and taken nothing that is    *)
(* not beneath the node it was asked to delete.                            *)
CascadeAccountsForAll ==
    \A h \in Handler : InTransaction(h) =>
        \E n \in Node \ Accounts :
            TakenBeneath(h, n) /\ Descending(h, n) /\ Returned(h, n)

(* "Deleting a hierarchy node also deletes everything beneath it (cloud    *)
(* accounts and their cost history included) so nothing is silently        *)
(* orphaned" (the comment of the cascade), also when others create nodes   *)
(* under it or store costs meanwhile: no delete leaves a row behind that   *)
(* names a row it took, nor the costs of an account it took.  A failed     *)
(* delete of a single account may.                                         *)
DeleteOrphansNothing ==
    [][\A n \in Node \ Accounts : Exists(n) /\ ~Exists(n)' =>
          /\ \A m \in Node : parent'[m] # n
          /\ \A a \in Accounts : Exists(a) /\ ~Exists(a)' => a \notin costs']_allVars

(* The cascade is one step of the abstract hierarchy or none: what the     *)
(* recursion has collected when it commits is the node with everything     *)
(* beneath it, whatever happened while it ran.  The tables are mapped to   *)
(* themselves; stack, copy and handler state are hidden.                   *)
Abs == INSTANCE HierarchyAbs WITH parent <- parent, costs <- costs
ImplementsHierarchyAbs == Abs!Spec
===============================================================================
