---------------------------- MODULE HierarchyProofs ---------------------------
(* Theorems of Hierarchy, for every value of its constants.                *)
EXTENDS Hierarchy, TLAPS

-------------------------------------------------------------------------------
(* Trees *)

(* What of HTypeOK is about the tables.                                    *)
Forest ==
    /\ parent \in [Node -> Node \cup {Root, NoRow}]
    /\ \A n \in Node : Exists(n) => parent[n] \in ParentsOf(n)

DepthOf == [organization |-> 1, product |-> 2, project |-> 3,
            environment |-> 4, region |-> 5, account |-> 6]
Depth(n) == DepthOf[Kind[n]]

LEMMA KindOfNode ==
    \A n \in Node : Kind[n] \in {"organization", "product", "project",
                                 "environment", "region", "account"}
BY HierarchyAssumption DEF Kinds

(* A row is of the table below that of its parent.                         *)
LEMMA ChildIsDeeper ==
    ASSUME Forest, NEW m \in Node, parent[m] \in Node
    PROVE  Exists(m) /\ Depth(m) = Depth(parent[m]) + 1
<1>1. Exists(m) /\ Kind[m] # "organization" /\ parent[m] \in ParentsOf(m)
  BY HierarchyAssumption DEF Forest, Exists, ParentsOf
<1>2. Kind[parent[m]] = KindAbove[Kind[m]]
  BY <1>1 DEF ParentsOf, NodesOf
<1>3. Kind[m] \in {"product", "project", "environment", "region", "account"}
  BY <1>1, KindOfNode
<1> QED
  BY <1>1, <1>2, <1>3 DEF Depth, DepthOf, KindAbove

LEMMA DepthBound == \A n \in Node : Depth(n) \in 1..6
<1> TAKE n \in Node
<1>1. Kind[n] \in DOMAIN DepthOf
  BY KindOfNode DEF DepthOf
<1>2. \A kind \in DOMAIN DepthOf : DepthOf[kind] \in 1..6
  BY DEF DepthOf
<1> QED
  BY <1>1, <1>2 DEF Depth

LEMMA ChildlessAccounts ==
    ASSUME Forest, NEW m \in Node
    PROVE  parent[m] \notin Accounts
<1> SUFFICES ASSUME parent[m] \in Accounts PROVE FALSE
  OBVIOUS
<1>1. parent[m] \in Node /\ Depth(parent[m]) = 6
  BY DEF Accounts, NodesOf, Depth, DepthOf
<1> QED
  BY <1>1, ChildIsDeeper, DepthBound

LEMMA AccountsOfRegions ==
    ASSUME Forest, NEW m \in Node, parent[m] \in Node
    PROVE  m \in Accounts <=> Kind[parent[m]] = "region"
BY ChildIsDeeper, KindOfNode DEF Depth, DepthOf, Accounts, NodesOf

(* What is new on a level of the tree is that many tables further down.    *)
LEMMA NextLevel ==
    ASSUME Forest, NEW n \in Node, NEW k \in Nat,
           NEW S, NEW T, S \subseteq Node, T = WithChildren(S),
           \A x \in T \ S : Depth(x) = Depth(n) + k + 1
    PROVE  \A x \in WithChildren(T) \ T : Depth(x) = Depth(n) + k + 2
<1> SUFFICES ASSUME NEW x \in WithChildren(T) \ T
             PROVE  Depth(x) = Depth(n) + k + 2
  OBVIOUS
<1>1. x \in Node /\ parent[x] \in T /\ parent[x] \in Node
  BY DEF WithChildren
<1>2. parent[x] \notin S
  BY <1>1 DEF WithChildren
<1> QED
  BY <1>1, <1>2, ChildIsDeeper, DepthBound

(* Five times down is all the way down: whatever hangs under a row beneath *)
(* n is beneath n.                                                         *)
LEMMA BelowClosed ==
    ASSUME Forest, NEW n \in Node
    PROVE  /\ n \in Below(n)
           /\ Below(n) \subseteq Node
           /\ \A m \in Node : parent[m] \in Below(n) => m \in Below(n)
<1> DEFINE A == WithChildren({n})
           B == WithChildren(A)
           C == WithChildren(B)
           D == WithChildren(C)
           E == WithChildren(D)
<1>1. A \subseteq Node /\ n \in A /\ \A x \in A \ {n} : Depth(x) = Depth(n) + 1
  BY ChildIsDeeper DEF WithChildren
<1>2. B \subseteq Node /\ A \subseteq B
  BY <1>1 DEF WithChildren
<1>3. C \subseteq Node /\ B \subseteq C
  BY <1>2 DEF WithChildren
<1>4. D \subseteq Node /\ C \subseteq D
  BY <1>3 DEF WithChildren
<1>5. E \subseteq Node /\ D \subseteq E
  BY <1>4 DEF WithChildren
<1>6. Below(n) = E
  BY DEF Below
<1> HIDE DEF A
<1>7. \A x \in B \ A : Depth(x) = Depth(n) + 0 + 2
  <2>1. \A x \in A \ {n} : Depth(x) = Depth(n) + 0 + 1
    BY <1>1, DepthBound
  <2>2. {n} \subseteq Node /\ 0 \in Nat
    OBVIOUS
  <2> HIDE DEF B
  <2>3. B = WithChildren(A)
    BY DEF B
  <2>4. \A x \in WithChildren(A) \ A : Depth(x) = Depth(n) + 0 + 2
    BY <2>1, <2>2, NextLevel DEF A
  <2> QED
    BY <2>3, <2>4
<1> HIDE DEF B
<1>8. \A x \in C \ B : Depth(x) = Depth(n) + 1 + 2
  BY <1>1, <1>2, <1>7, NextLevel, 1 \in Nat, DepthBound DEF B
<1> HIDE DEF C
<1>9. \A x \in D \ C : Depth(x) = Depth(n) + 2 + 2
  BY <1>2, <1>3, <1>8, NextLevel, 2 \in Nat, DepthBound DEF C
<1> HIDE DEF D
<1>10. \A x \in E \ D : Depth(x) = Depth(n) + 3 + 2
  BY <1>3, <1>4, <1>9, NextLevel, 3 \in Nat, DepthBound DEF D
<1> HIDE DEF E
<1>11. \A x \in WithChildren(E) \ E : Depth(x) = Depth(n) + 4 + 2
  BY <1>4, <1>5, <1>10, NextLevel, 4 \in Nat, DepthBound DEF E
<1>12. \A x \in WithChildren(E) : x \in Node
  BY <1>5 DEF WithChildren
<1>13. WithChildren(E) \subseteq E
  BY <1>11, <1>12, DepthBound
<1> QED
  BY <1>1, <1>2, <1>3, <1>4, <1>5, <1>6, <1>13 DEF WithChildren

(* Nothing else is beneath n.                                              *)
LEMMA BelowLeast ==
    ASSUME NEW n \in Node, NEW S, n \in S,
           \A m \in Node : parent[m] \in S => m \in S
    PROVE  Below(n) \subseteq S
<1>1. ASSUME NEW T, T \subseteq S PROVE WithChildren(T) \subseteq S
  BY <1>1 DEF WithChildren
<1> QED
  BY <1>1 DEF Below

-------------------------------------------------------------------------------
(* Type correctness *)

LEMMA InitType == HInit => HTypeOK
BY DEF HInit, Init, HTypeOK, Exists, InTransaction

LEMMA TablesAreRows ==
    /\ \A t \in Tables : t # NoRow
    /\ \A n \in Node : n # NoRow
    /\ Accounts \subseteq Node
BY FreshAssumption, HierarchyAssumption DEF Accounts, NodesOf

LEMMA CallType ==
    ASSUME NEW n \in Node, NEW tables
    PROVE  CallOn(n, tables) \in Call
BY DEF CallOn, Call

(* The stack with its innermost call replaced, by one call or by two.      *)
LEMMA ReplaceHead ==
    ASSUME NEW S, NEW s \in Seq(S), s # <<>>, NEW c \in S
    PROVE  /\ <<c>> \o Tail(s) \in Seq(S)
           /\ Len(<<c>> \o Tail(s)) = Len(s)
           /\ (<<c>> \o Tail(s))[1] = c
           /\ \A i \in 2..Len(s) : (<<c>> \o Tail(s))[i] = s[i]
OBVIOUS

LEMMA PushOnHead ==
    ASSUME NEW S, NEW s \in Seq(S), s # <<>>, NEW c \in S, NEW d \in S
    PROVE  /\ <<d, c>> \o Tail(s) \in Seq(S)
           /\ Len(<<d, c>> \o Tail(s)) = Len(s) + 1
           /\ (<<d, c>> \o Tail(s))[1] = d
           /\ (<<d, c>> \o Tail(s))[2] = c
           /\ \A i \in 3..(Len(s) + 1) : (<<d, c>> \o Tail(s))[i] = s[i - 1]
OBVIOUS

LEMMA PopHead ==
    ASSUME NEW S, NEW s \in Seq(S), s # <<>>
    PROVE  /\ Tail(s) \in Seq(S)
           /\ Len(Tail(s)) = Len(s) - 1
           /\ \A i \in 1..(Len(s) - 1) : Tail(s)[i] = s[i + 1]
           /\ Head(s) \in S /\ Head(s) = s[1] /\ Len(s) \in Nat \ {0}
OBVIOUS

LEMMA WithoutNodeType ==
    ASSUME NEW n \in Node, NEW tables \in Tables
    PROVE  WithoutNode(n, tables) \in Tables
BY DEF WithoutNode, Tables

(* The inductive invariant.  What a transaction is about to commit has the *)
(* shape of a table only because of what the cascade keeps to.             *)
HInv == HTypeOK /\ CascadeAccountsForAll

(* Every step keeps the types.                                             *)
LEMMA StepType == HInv /\ [HNext]_allVars => HTypeOK'
<1> SUFFICES ASSUME HInv, [HNext]_allVars PROVE HTypeOK'
  OBVIOUS
<1> USE TablesAreRows DEF HInv
<1>1. ASSUME NEW kind, CreateNode(kind) PROVE HTypeOK'
  <2>0. PICK n \in NodesOf(kind) : \E p \in ParentsOf(n) : Create(n, p)
    BY <1>1 DEF CreateNode
  <2>1. PICK p \in ParentsOf(n) : Create(n, p)
    BY <2>0
  <2>2. n \in Node /\ p \in Node \cup {Root}
    BY <2>1 DEF NodesOf, ParentsOf
  <2>3. /\ parent' \in [Node -> Node \cup {Root, NoRow}]
        /\ \A m \in Node : Exists(m)' => parent'[m] \in ParentsOf(m)
    BY <2>1, <2>2 DEF Create, HTypeOK, Exists
  <2> QED
    BY <1>1, <2>1, <2>3 DEF CreateNode, Create, OthersRollBack, HTypeOK, Exists, InTransaction
<1>2. CASE StoreCosts
  BY <1>2 DEF StoreCosts, RecordCosts, OthersRollBack, HTypeOK, Exists, InTransaction
<1>3. ASSUME NEW h \in Handler, NEW kind, DeleteNode(h, kind) PROVE HTypeOK'
  <2> DEFINE copy == [parent |-> parent, costs |-> costs]
  <2>1. copy \in Tables
    BY DEF HTypeOK, Tables
  <2>2. PICK n \in NodesOf(kind) : stack' = [stack EXCEPT ![h] = <<CallOn(n, copy)>>]
    BY <1>3 DEF DeleteNode
  <2>3. <<CallOn(n, copy)>> \in Seq(Call)
    BY CallType DEF NodesOf
  <2>4. work' = [work EXCEPT ![h] = copy] /\ UNCHANGED <<vars, removing>>
    BY <1>3 DEF DeleteNode
  <2> HIDE DEF copy
  <2> QED
    BY <2>1, <2>2, <2>3, <2>4 DEF HTypeOK, Exists, InTransaction, vars
<1>4. ASSUME NEW h \in Handler, CascadeInto(h) PROVE HTypeOK'
  <2> DEFINE call == Head(stack[h])
  <2>1. call \in Call /\ stack[h] # <<>> /\ stack[h] \in Seq(Call)
    BY <1>4, PopHead DEF CascadeInto, HTypeOK
  <2>2. PICK m \in call.todo :
          stack' = [stack EXCEPT ![h] =
              <<CallOn(m, work[h]), [call EXCEPT !.todo = @ \ {m}]>> \o Tail(@)]
    BY <1>4 DEF CascadeInto
  <2>3. [call EXCEPT !.todo = @ \ {m}] \in Call /\ m \in Node
    BY <2>1 DEF Call
  <2>4. <<CallOn(m, work[h]), [call EXCEPT !.todo = @ \ {m}]>> \o Tail(stack[h]) \in Seq(Call)
    BY <2>1, <2>3, CallType, PushOnHead
  <2>5. UNCHANGED <<vars, work, removing>>
    BY <1>4 DEF CascadeInto
  <2> QED
    BY <2>1, <2>2, <2>4, <2>5 DEF HTypeOK, Exists, InTransaction, vars
<1>5. ASSUME NEW h \in Handler, DeleteAccountCosts(h) PROVE HTypeOK'
  <2> DEFINE call == Head(stack[h])
  <2>1. call \in Call /\ stack[h] # <<>> /\ stack[h] \in Seq(Call)
    BY <1>5, PopHead DEF DeleteAccountCosts, HTypeOK
  <2>2. PICK a \in call.todo :
          /\ stack' = [stack EXCEPT ![h] =
                <<[call EXCEPT !.todo = @ \ {a}]>> \o Tail(@)]
          /\ work' = [work EXCEPT ![h].costs = @ \ {a}]
    BY <1>5 DEF DeleteAccountCosts
  <2>3. <<[call EXCEPT !.todo = @ \ {a}]>> \o Tail(stack[h]) \in Seq(Call)
    <3>1. [call EXCEPT !.todo = @ \ {a}] \in Call
      BY <2>1 DEF Call
    <3> QED
      BY <2>1, <3>1, ReplaceHead
  <2>4. work[h] \in Tables
    BY <2>1 DEF HTypeOK, InTransaction
  <2> DEFINE less == [work[h] EXCEPT !.costs = @ \ {a}]
  <2>5. less \in Tables
    BY <2>4 DEF Tables
  <2>6. work' = [work EXCEPT ![h] = less]
    BY <2>2
  <2>7. UNCHANGED <<vars, removing>>
    BY <1>5 DEF DeleteAccountCosts
  <2> HIDE DEF less
  <2> QED
    BY <2>1, <2>2, <2>3, <2>5, <2>6, <2>7 DEF HTypeOK, Exists, InTransaction, vars
<1>6. ASSUME NEW h \in Handler, CascadeReturn(h) PROVE HTypeOK'
  <2> DEFINE call  == Head(stack[h])
             after == WithoutNode(call.node, work[h])
  <2>1. call \in Call /\ stack[h] # <<>> /\ stack[h] \in Seq(Call)
        /\ Tail(stack[h]) \in Seq(Call)
    BY <1>6, PopHead DEF CascadeReturn, HTypeOK
  <2>2. after \in Tables
    BY <2>1, WithoutNodeType DEF HTypeOK, InTransaction, Call
  <2>3. /\ work' = [work EXCEPT ![h] = after]
        /\ stack' = [stack EXCEPT ![h] = Tail(@)]
        /\ UNCHANGED <<vars, removing>>
    BY <1>6 DEF CascadeReturn
  <2> HIDE DEF after
  <2> QED
    BY <2>1, <2>2, <2>3 DEF HTypeOK, Exists, InTransaction, vars
<1>7. ASSUME NEW h \in Handler, Commit(h) PROVE HTypeOK'
  <2>1. \A n \in Node : work[h].parent[n] \in {NoRow, parent[n]}
    BY <1>7 DEF CascadeAccountsForAll, TakenBeneath, Commit
  <2> QED
    BY <1>7, <2>1 DEF Commit, OthersRollBack, HTypeOK, Exists, InTransaction, Tables
<1>8. ASSUME NEW h \in Handler, Rollback(h) PROVE HTypeOK'
  BY <1>8 DEF Rollback, HTypeOK, Exists, InTransaction, vars
<1>9. ASSUME NEW h \in Handler, NEW a \in Accounts, PurgeCosts(h, a) PROVE HTypeOK'
  BY <1>9 DEF PurgeCosts, DropCosts, OthersRollBack, HTypeOK, Exists, InTransaction
<1>10. ASSUME NEW h \in Handler, RemoveAccount(h) PROVE HTypeOK'
  BY <1>10 DEF RemoveAccount, DropAccount, OthersRollBack, HTypeOK, Exists, InTransaction
<1>11. ASSUME NEW h \in Handler, RemoveFails(h) PROVE HTypeOK'
  BY <1>11 DEF RemoveFails, HTypeOK, Exists, InTransaction, vars
<1>12. CASE UNCHANGED allVars
  BY <1>12 DEF allVars, vars, requests, HTypeOK, Exists, InTransaction
<1> QED
  BY <1>1, <1>2, <1>3, <1>4, <1>5, <1>6, <1>7, <1>8, <1>9, <1>10, <1>11, <1>12
  DEF HNext, CreateOrganization, CreateProduct, CreateProject,
      CreateEnvironment, CreateRegion, CreateCloudAccount,
      DeleteOrganization, DeleteProduct, DeleteProject, DeleteEnvironment,
      DeleteRegion

-------------------------------------------------------------------------------
(* The cascade *)

Cascades(h, n) == TakenBeneath(h, n) /\ Descending(h, n) /\ Returned(h, n)

(* Nobody's cascade is disturbed as long as the tables stay as they are,   *)
(* but by its own handler.                                                 *)
LEMMA Undisturbed ==
    ASSUME CascadeAccountsForAll, UNCHANGED vars, NEW h \in Handler,
           stack'[h] = stack[h], work'[h] = work[h], InTransaction(h)'
    PROVE  \E n \in Node \ Accounts : Cascades(h, n)'
<1>1. PICK n \in Node \ Accounts : Cascades(h, n)
  BY DEF CascadeAccountsForAll, InTransaction, Cascades
<1>2. \A x : Below(x)' = Below(x) /\ Children(x)' = Children(x)
  BY DEF vars, Below, WithChildren, Children
<1>3. Removed(h)' = Removed(h)
  BY DEF vars, Removed, Exists
<1>4. \A m : Done(h, m)' <=> Done(h, m)
  BY <1>3 DEF Done
<1>5. Cascades(h, n)'
  BY <1>1, <1>2, <1>3, <1>4
  DEF vars, Cascades, TakenBeneath, Descending, OnTheWay, Returned, Exists
<1> QED
  BY <1>5

(* A write leaves no transaction open.                                     *)
LEMMA NobodyLeft ==
    ASSUME HTypeOK, OthersRollBack
    PROVE  CascadeAccountsForAll'
BY DEF OthersRollBack, CascadeAccountsForAll, InTransaction

LEMMA DeleteNodeCascades ==
    ASSUME HTypeOK, NEW h \in Handler,
           NEW kind \in {"organization", "product", "project",
                         "environment", "region"},
           DeleteNode(h, kind)
    PROVE  \E n \in Node \ Accounts : Cascades(h, n)'
<1> DEFINE copy == [parent |-> parent, costs |-> costs]
<1>1. PICK n \in NodesOf(kind) : stack' = [stack EXCEPT ![h] = <<CallOn(n, copy)>>]
  BY DEF DeleteNode
<1>2. work' = [work EXCEPT ![h] = copy] /\ UNCHANGED vars
  BY DEF DeleteNode, vars
<1>3. n \in Node \ Accounts
  BY <1>1 DEF NodesOf, Accounts
<1>4. /\ stack'[h] = <<CallOn(n, copy)>>
      /\ work'[h] = copy
  BY <1>1, <1>2 DEF HTypeOK
<1>5. Removed(h)' = {}
  BY <1>2, <1>4 DEF Removed, Exists, vars
<1>6. TakenBeneath(h, n)'
  BY <1>2, <1>4, <1>5 DEF TakenBeneath, vars
<1>7. n \in Below(n)'
  BY <1>3 DEF Below, WithChildren
<1>8. Descending(h, n)'
  BY <1>2, <1>3, <1>4, <1>7 DEF Descending, OnTheWay, CallOn, Children, vars
<1>9. Returned(h, n)'
  BY <1>4 DEF Returned
<1> QED
  BY <1>3, <1>6, <1>8, <1>9 DEF Cascades

(* What the loops have in common: the tables stay, the copy loses rows.    *)
LEMMA Loses ==
    ASSUME UNCHANGED vars, NEW h \in Handler,
           \A x \in Node : work[h].parent[x] = NoRow => work'[h].parent[x] = NoRow,
           work'[h].costs \subseteq work[h].costs
    PROVE  /\ \A x : Below(x)' = Below(x) /\ Children(x)' = Children(x)
           /\ Removed(h) \subseteq Removed(h)'
           /\ \A m : Done(h, m) => Done(h, m)'
<1>1. \A x : Below(x)' = Below(x) /\ Children(x)' = Children(x)
  BY DEF vars, Below, WithChildren, Children
<1>2. Removed(h) \subseteq Removed(h)'
  BY DEF Removed, Exists, vars
<1> QED
  BY <1>1, <1>2 DEF Done

LEMMA CascadeIntoCascades ==
    ASSUME HTypeOK, NEW h \in Handler, NEW n \in Node \ Accounts,
           Cascades(h, n), CascadeInto(h)
    PROVE  Cascades(h, n)'
<1> DEFINE call == Head(stack[h])
<1>1. PICK m \in call.todo :
        stack' = [stack EXCEPT ![h] =
            <<CallOn(m, work[h]), [call EXCEPT !.todo = @ \ {m}]>> \o Tail(@)]
  BY DEF CascadeInto
<1> DEFINE next == CallOn(m, work[h])
           rest == [call EXCEPT !.todo = @ \ {m}]
<1>2. /\ UNCHANGED <<vars, work>> /\ UNCHANGED vars
      /\ stack[h] # <<>> /\ Kind[call.node] # "region"
  BY DEF CascadeInto, vars
<1>3. /\ stack[h] \in Seq(Call) /\ Len(stack[h]) \in Nat \ {0}
      /\ call \in Call /\ call = stack[h][1]
      /\ OnTheWay(h, n, 1)
  <2>1. /\ stack[h] \in Seq(Call) /\ Len(stack[h]) \in Nat \ {0}
        /\ call \in Call /\ call = stack[h][1]
    BY <1>2, PopHead DEF HTypeOK
  <2>2. 1 \in 1..Len(stack[h])
    BY <2>1
  <2> QED
    BY <2>1, <2>2 DEF Cascades, Descending
<1>4. /\ call.node \in Below(n) \ Accounts
      /\ call.todo \subseteq Children(call.node)
      /\ IF 1 = Len(stack[h]) THEN call.node = n
                              ELSE parent[call.node] = stack[h][2].node
      /\ \A k \in Children(call.node) : k \in call.todo \/ Done(h, k)
  BY <1>3 DEF OnTheWay
<1>5. m \in Node /\ parent[m] = call.node /\ call.node \in Node
  BY <1>3, <1>4 DEF Children, Call
<1>6. Forest
  BY DEF Forest, HTypeOK
<1>7. m \in Below(n) \ Accounts
  BY <1>2, <1>4, <1>5, <1>6, BelowClosed, AccountsOfRegions
<1>8. /\ rest \in Call /\ rest.node = call.node /\ rest.todo = call.todo \ {m}
      /\ next \in Call /\ next.node = m
      /\ next.todo = {k \in Node : work[h].parent[k] = m}
  BY <1>3, <1>5 DEF Call, CallOn
<1> HIDE DEF next, rest, call
<1>9. /\ Len(stack'[h]) = Len(stack[h]) + 1
      /\ stack'[h][1] = next /\ stack'[h][2] = rest
      /\ \A i \in 3..(Len(stack[h]) + 1) : stack'[h][i] = stack[h][i - 1]
  <2>1. stack'[h] = <<next, rest>> \o Tail(stack[h])
    BY <1>1 DEF HTypeOK, next, rest
  <2> QED
    BY <2>1, <1>2, <1>3, <1>8, PushOnHead
<1>10. /\ \A x : Below(x)' = Below(x) /\ Children(x)' = Children(x)
       /\ \A k : Done(h, k) => Done(h, k)'
  BY <1>2, Loses
<1>11. TakenBeneath(h, n)'
  BY <1>2, <1>10 DEF Cascades, TakenBeneath, Removed, Exists, vars
<1>12. Descending(h, n)'
  <2> SUFFICES ASSUME NEW i \in 1..(Len(stack[h]) + 1)
               PROVE  OnTheWay(h, n, i)'
    BY <1>2, <1>9, <1>10 DEF Descending, vars
  <2> DEFINE c == stack'[h][i]
  <2>0. ASSUME /\ c.node \in Below(n) \ Accounts
               /\ IF i = Len(stack[h]) + 1 THEN c.node = n
                  ELSE parent[c.node] = stack'[h][i + 1].node
               /\ c.todo \subseteq Children(c.node)
               /\ \A k \in Children(c.node) :
                     \/ k \in c.todo
                     \/ i > 1 /\ k = stack'[h][i - 1].node
                     \/ Done(h, k)
        PROVE  OnTheWay(h, n, i)'
    BY <1>2, <1>9, <1>10, <2>0 DEF OnTheWay, vars
  <2>1. CASE i = 1
    <3>1. \A k \in Children(m) : work[h].parent[k] \in {NoRow, m}
      BY DEF Cascades, TakenBeneath, Children
    <3>2. \A k \in Children(m) : k \in next.todo \/ Done(h, k)
      <4> SUFFICES ASSUME NEW k \in Children(m), k \notin next.todo
                   PROVE  Done(h, k)
        OBVIOUS
      <4>1. k \in Removed(h)
        BY <3>1, <1>5, <1>8, TablesAreRows DEF Removed, Children, Exists
      <4> QED
        BY <4>1 DEF Done, Cascades, TakenBeneath
    <3>3. next.todo \subseteq Children(m)
      BY <1>5, <1>8, TablesAreRows DEF Cascades, TakenBeneath, Children
    <3>4. c = next /\ stack'[h][i + 1] = rest /\ i # Len(stack[h]) + 1
      BY <2>1, <1>3, <1>9
    <3> HIDE DEF c
    <3> QED
      BY <3>2, <3>3, <3>4, <2>0, <1>5, <1>7, <1>8 DEF c
  <2>2. CASE i = 2
    <3> DEFINE length == Len(stack[h])
    <3>0. length \in Nat /\ length >= 1
      <4>1. length \in Nat \ {0}
        BY <1>3
      <4> HIDE DEF length
      <4> QED
        BY <4>1
    <3>1. /\ c = rest /\ stack'[h][i - 1] = next /\ i > 1
          /\ i = Len(stack[h]) + 1 <=> 1 = Len(stack[h])
      <4>1. c = rest /\ stack'[h][i - 1] = next
        BY <2>2, <1>9
      <4>2. i = length + 1 <=> 1 = length
        <5> HIDE DEF length
        <5> QED
          BY <2>2, <3>0
      <4> QED
        BY <4>1, <4>2, <2>2
    <3>2. 1 # Len(stack[h]) => stack'[h][i + 1] = stack[h][2]
      <4> SUFFICES ASSUME 1 # Len(stack[h]) PROVE stack'[h][3] = stack[h][2]
        BY <2>2
      <4>1. length # 1
        OBVIOUS
      <4>3. 3 \in 3..(length + 1)
        <5> HIDE DEF length
        <5> QED
          BY <3>0, <4>1
      <4>2. stack'[h][3] = stack[h][3 - 1]
        BY <4>3, <1>9
      <4> QED
        BY <4>2
    <3> HIDE DEF c
    <3> QED
      BY <3>1, <3>2, <2>0, <1>4, <1>8 DEF c
  <2>3. CASE i > 2
    <3> DEFINE j == i - 1
    <3>1. /\ j \in 1..Len(stack[h]) /\ i \in 3..(Len(stack[h]) + 1)
          /\ j > 1 /\ i > 1 /\ j + 1 = i
          /\ i = Len(stack[h]) + 1 <=> j = Len(stack[h])
      BY <2>3, <1>3
    <3>2. c = stack[h][j]
      BY <3>1, <1>9
    <3>3. i # Len(stack[h]) + 1 => stack'[h][i + 1] = stack[h][j + 1]
      <4> SUFFICES ASSUME i # Len(stack[h]) + 1
                   PROVE  stack'[h][i + 1] = stack[h][j + 1]
        OBVIOUS
      <4>1. i + 1 \in 3..(Len(stack[h]) + 1) /\ (i + 1) - 1 = j + 1
        BY <3>1, <1>3
      <4> QED
        BY <4>1, <1>9
    <3>4. stack'[h][i - 1].node = stack[h][j - 1].node
      <4>1. CASE i = 3
        BY <4>1, <1>3, <1>8, <1>9
      <4>2. CASE i > 3
        <5>1. j \in 3..(Len(stack[h]) + 1)
          BY <4>2, <3>1, <1>3
        <5> QED
          BY <5>1, <1>9
      <4> QED
        BY <4>1, <4>2, <3>1
    <3>5. OnTheWay(h, n, j)
      BY <3>1 DEF Cascades, Descending
    <3> HIDE DEF j, c
    <3>6. /\ c.node \in Below(n) \ Accounts
          /\ IF i = Len(stack[h]) + 1 THEN c.node = n
             ELSE parent[c.node] = stack[h][j + 1].node
          /\ c.todo \subseteq Children(c.node)
          /\ \A k \in Children(c.node) :
                \/ k \in c.todo
                \/ k = stack[h][j - 1].node
                \/ Done(h, k)
      BY <3>1, <3>2, <3>5 DEF OnTheWay
    <3> QED
      BY <3>1, <3>3, <3>4, <3>6, <2>0 DEF c
  <2> QED
    BY <2>1, <2>2, <2>3, <1>3
<1>13. Returned(h, n)'
  BY <1>3, <1>9 DEF Returned
<1> QED
  BY <1>11, <1>12, <1>13 DEF Cascades

(* The call that is at the top of the stack.                               *)
LEMMA Innermost ==
    ASSUME HTypeOK, NEW h \in Handler, NEW n \in Node \ Accounts,
           Cascades(h, n), stack[h] # <<>>
    PROVE  LET call == Head(stack[h]) IN
           /\ stack[h] \in Seq(Call) /\ Len(stack[h]) \in Nat \ {0}
           /\ call \in Call /\ call = stack[h][1]
           /\ InTransaction(h) /\ work[h] \in Tables
           /\ call.node \in (Below(n) \cap Node) \ Accounts
           /\ call.todo \subseteq Children(call.node)
           /\ IF 1 = Len(stack[h]) THEN call.node = n
                                   ELSE parent[call.node] = stack[h][2].node
           /\ \A k \in Children(call.node) : k \in call.todo \/ Done(h, k)
<1>1. /\ stack[h] \in Seq(Call) /\ Len(stack[h]) \in Nat \ {0}
      /\ Head(stack[h]) \in Call /\ Head(stack[h]) = stack[h][1]
  BY PopHead DEF HTypeOK
<1>2. 1 \in 1..Len(stack[h])
  BY <1>1
<1>3. OnTheWay(h, n, 1)
  BY <1>2 DEF Cascades, Descending
<1>4. InTransaction(h) /\ work[h] \in Tables
  BY DEF HTypeOK, InTransaction
<1> QED
  BY <1>1, <1>3, <1>4 DEF OnTheWay, Call

LEMMA DeleteAccountCostsCascades ==
    ASSUME HTypeOK, NEW h \in Handler, NEW n \in Node \ Accounts,
           Cascades(h, n), DeleteAccountCosts(h)
    PROVE  Cascades(h, n)'
<1> DEFINE call == Head(stack[h])
<1>1. PICK a \in call.todo :
        /\ stack' = [stack EXCEPT ![h] =
              <<[call EXCEPT !.todo = @ \ {a}]>> \o Tail(@)]
        /\ work' = [work EXCEPT ![h].costs = @ \ {a}]
  BY DEF DeleteAccountCosts
<1>2. /\ UNCHANGED vars
      /\ stack[h] # <<>> /\ Kind[call.node] = "region"
  BY DEF DeleteAccountCosts, vars
<1> DEFINE rest == [call EXCEPT !.todo = @ \ {a}]
<1>3. /\ stack[h] \in Seq(Call) /\ Len(stack[h]) \in Nat \ {0}
      /\ call \in Call /\ call = stack[h][1]
      /\ InTransaction(h) /\ work[h] \in Tables
      /\ call.node \in (Below(n) \cap Node) \ Accounts
      /\ call.todo \subseteq Children(call.node)
      /\ IF 1 = Len(stack[h]) THEN call.node = n
                              ELSE parent[call.node] = stack[h][2].node
      /\ \A k \in Children(call.node) : k \in call.todo \/ Done(h, k)
  BY <1>2, Innermost
<1>4. /\ rest \in Call /\ rest.node = call.node /\ rest.todo = call.todo \ {a}
  BY <1>3 DEF Call
<1>5. a \in Node /\ parent[a] = call.node
  BY <1>3 DEF Children
<1>6. Forest
  BY DEF Forest, HTypeOK
<1>7. a \in Accounts /\ a \in Below(n) /\ Exists(a)
  BY <1>2, <1>3, <1>5, <1>6, BelowClosed, AccountsOfRegions, ChildIsDeeper
<1> HIDE DEF call, rest
<1>8. /\ Len(stack'[h]) = Len(stack[h])
      /\ stack'[h][1] = rest
      /\ \A i \in 2..Len(stack[h]) : stack'[h][i] = stack[h][i]
  <2>1. stack'[h] = <<rest>> \o Tail(stack[h])
    BY <1>1 DEF HTypeOK, rest
  <2> QED
    BY <2>1, <1>2, <1>3, <1>4, ReplaceHead
<1>9. work'[h].parent = work[h].parent /\ work'[h].costs = work[h].costs \ {a}
  <2>1. work'[h] = [work[h] EXCEPT !.costs = @ \ {a}]
    BY <1>1 DEF HTypeOK
  <2> QED
    BY <2>1, <1>3 DEF Tables
<1>10. /\ \A x : Below(x)' = Below(x) /\ Children(x)' = Children(x)
       /\ \A k : Done(h, k) => Done(h, k)'
       /\ Done(h, a)'
  BY <1>2, <1>7, <1>9, Loses DEF Done
<1>11. TakenBeneath(h, n)'
  <2>1. Removed(h)' = Removed(h)
    BY <1>2, <1>9 DEF Removed, Exists, vars
  <2> QED
    BY <2>1, <1>2, <1>7, <1>9, <1>10 DEF Cascades, TakenBeneath, Exists, vars
<1>12. Descending(h, n)'
  <2> SUFFICES ASSUME NEW i \in 1..Len(stack[h])
               PROVE  OnTheWay(h, n, i)'
    BY <1>8 DEF Descending
  <2> DEFINE length == Len(stack[h])
  <2>1. length \in Nat \ {0}
    BY <1>3
  <2>2. i < length => stack'[h][i + 1] = stack[h][i + 1]
    <3> SUFFICES ASSUME i < length PROVE stack'[h][i + 1] = stack[h][i + 1]
      OBVIOUS
    <3>1. i + 1 \in 2..length
      <4> HIDE DEF length
      <4> QED
        BY <2>1
    <3> QED
      BY <3>1, <1>8
  <2>3. CASE i = 1
    <3>1. 1 # length => 1 < length
      <4> HIDE DEF length
      <4> QED
        BY <2>1
    <3>2. /\ stack'[h][i] = rest
          /\ 1 # Len(stack[h]) => stack'[h][2] = stack[h][2]
      BY <2>2, <2>3, <3>1, <1>8
    <3> QED
      BY <2>3, <3>2, <1>2, <1>3, <1>4, <1>8, <1>10 DEF OnTheWay, vars
  <2>4. CASE i > 1
    <3>1. i \in 2..length /\ (i # length => i < length)
      BY <2>4, <2>1
    <3>2. stack'[h][i - 1].node = stack[h][i - 1].node
      <4>1. CASE i = 2
        BY <4>1, <1>3, <1>4, <1>8
      <4>2. CASE i > 2
        <5>1. i - 1 \in 2..length
          BY <4>2, <3>1
        <5> QED
          BY <5>1, <1>8
      <4> QED
        BY <4>1, <4>2, <3>1
    <3>3. stack'[h][i] = stack[h][i] /\ OnTheWay(h, n, i)
      BY <3>1, <1>8 DEF Cascades, Descending
    <3>4. i # Len(stack[h]) => stack'[h][i + 1] = stack[h][i + 1]
      BY <3>1, <2>2
    <3> QED
      BY <3>2, <3>3, <3>4, <1>2, <1>8, <1>10 DEF OnTheWay, vars
  <2> QED
    BY <2>3, <2>4
<1>13. Returned(h, n)'
  BY <1>3, <1>8 DEF Returned
<1> QED
  BY <1>11, <1>12, <1>13 DEF Cascades

LEMMA CascadeReturnCascades ==
    ASSUME HTypeOK, NEW h \in Handler, NEW n \in Node \ Accounts,
           Cascades(h, n), CascadeReturn(h)
    PROVE  Cascades(h, n)'
<1> DEFINE call == Head(stack[h])
           c    == call.node
<1>1. /\ work' = [work EXCEPT ![h] = WithoutNode(c, @)]
      /\ stack' = [stack EXCEPT ![h] = Tail(@)]
      /\ UNCHANGED vars
      /\ stack[h] # <<>> /\ call.todo = {}
  BY DEF CascadeReturn, vars
<1>3. /\ stack[h] \in Seq(Call) /\ Len(stack[h]) \in Nat \ {0}
      /\ call \in Call /\ call = stack[h][1]
      /\ InTransaction(h) /\ work[h] \in Tables
      /\ c \in (Below(n) \cap Node) \ Accounts
      /\ IF 1 = Len(stack[h]) THEN c = n ELSE parent[c] = stack[h][2].node
      /\ \A k \in Children(c) : Done(h, k)
  BY <1>1, Innermost
<1>4. Forest
  BY DEF Forest, HTypeOK
<1> HIDE DEF c
<1>5. /\ work'[h].costs = work[h].costs
      /\ \A m \in Node : work'[h].parent[m] =
            IF m = c \/ (Kind[c] = "region" /\ work[h].parent[m] = c)
            THEN NoRow ELSE work[h].parent[m]
  <2>1. work'[h] = WithoutNode(c, work[h])
    BY <1>1 DEF HTypeOK
  <2> QED
    BY <2>1, <1>3 DEF WithoutNode, Tables
<1>6. \A x \in Node : work[h].parent[x] \in {NoRow, parent[x]}
  BY DEF Cascades, TakenBeneath
<1>7. /\ \A x : Below(x)' = Below(x) /\ Children(x)' = Children(x)
      /\ Removed(h) \subseteq Removed(h)'
      /\ \A k : Done(h, k) => Done(h, k)'
  BY <1>1, <1>5, Loses
<1>8. Removed(h)' \subseteq Removed(h) \cup {c} \cup Children(c)
  BY <1>1, <1>5, <1>6 DEF Removed, Exists, Children, vars
<1>9. Exists(c) => c \in Removed(h)'
  BY <1>1, <1>3, <1>5 DEF Removed, Exists, vars
<1>10. Children(c) \subseteq Removed(h)'
  <2> SUFFICES ASSUME NEW k \in Children(c) PROVE k \in Removed(h)'
    OBVIOUS
  <2>1. k \in Node /\ parent[k] = c /\ Exists(k) /\ (k \in Accounts <=> Kind[c] = "region")
    BY <1>3, <1>4, AccountsOfRegions, ChildIsDeeper DEF Children
  <2>2. CASE k \in Accounts
    BY <2>1, <2>2, <1>1, <1>5, <1>6 DEF Removed, Exists, vars
  <2>3. CASE k \notin Accounts
    BY <2>3, <1>3, <1>7 DEF Done
  <2> QED
    BY <2>2, <2>3
<1>11. TakenBeneath(h, n)'
  <2>1. Removed(h)' \subseteq Below(n)
    BY <1>3, <1>4, <1>8, BelowClosed DEF Cascades, TakenBeneath, Children
  <2>2. ASSUME NEW m \in Node, parent[m] \in Removed(h)' PROVE m \in Removed(h)'
    <3>1. CASE parent[m] \in Removed(h)
      BY <3>1, <1>7 DEF Cascades, TakenBeneath
    <3>2. CASE parent[m] = c
      BY <3>2, <1>10 DEF Children
    <3>3. CASE parent[m] \in Children(c) /\ parent[m] \notin Removed(h)
      <4>1. parent[m] \in Accounts
        BY <3>3, <1>3 DEF Done
      <4> QED
        BY <4>1, <1>4, ChildlessAccounts
    <3> QED
      BY <2>2, <3>1, <3>2, <3>3, <1>8
  <2>3. ASSUME NEW a \in Accounts, a \in Removed(h)' PROVE a \notin work[h].costs
    <3>1. CASE a \in Removed(h)
      BY <3>1 DEF Cascades, TakenBeneath
    <3>2. CASE a \in Children(c)
      BY <3>2, <1>3 DEF Done
    <3> QED
      BY <2>3, <3>1, <3>2, <1>3, <1>8
  <2> QED
    BY <2>1, <2>2, <2>3, <1>1, <1>5, <1>6, <1>7
    DEF Cascades, TakenBeneath, Exists, vars
<1>12. /\ Len(stack'[h]) = Len(stack[h]) - 1
       /\ \A i \in 1..(Len(stack[h]) - 1) : stack'[h][i] = stack[h][i + 1]
  <2>1. stack'[h] = Tail(stack[h])
    BY <1>1 DEF HTypeOK
  <2> QED
    BY <2>1, <1>1, <1>3, PopHead
<1>13. Descending(h, n)'
  <2> DEFINE length == Len(stack[h])
  <2>1. length \in Nat \ {0}
    BY <1>3
  <2> SUFFICES ASSUME NEW i \in 1..(length - 1)
               PROVE  OnTheWay(h, n, i)'
    BY <1>12 DEF Descending
  <2>2. /\ stack'[h][i] = stack[h][i + 1]
        /\ i # length - 1 => stack'[h][i + 1] = stack[h][i + 2]
    <3>1. i # length - 1 => i + 1 \in 1..(length - 1) /\ (i + 1) + 1 = i + 2
      <4> HIDE DEF length
      <4> QED
        BY <2>1
    <3> QED
      BY <3>1, <1>12
  <2>3. OnTheWay(h, n, i + 1)
    <3>1. i + 1 \in 1..length
      <4> HIDE DEF length
      <4> QED
        BY <2>1
    <3> QED
      BY <3>1 DEF Cascades, Descending
  <2>4. i > 1 => stack'[h][i - 1] = stack[h][i]
    <3>1. i > 1 => i - 1 \in 1..(length - 1) /\ (i - 1) + 1 = i
      <4> HIDE DEF length
      <4> QED
        BY <2>1
    <3> QED
      BY <3>1, <1>12
  <2>5. /\ i + 1 > 1 /\ (i + 1) - 1 = i /\ (i + 1) + 1 = i + 2
        /\ i + 1 = length <=> i = length - 1
        /\ i = 1 \/ i > 1
    <3> HIDE DEF length
    <3> QED
      BY <2>1
  <2> DEFINE d == stack[h][i + 1]
  <2>6. /\ d.node \in Below(n) \ Accounts
        /\ IF i = length - 1 THEN d.node = n
           ELSE parent[d.node] = stack[h][i + 2].node
        /\ d.todo \subseteq Children(d.node)
        /\ \A k \in Children(d.node) :
              k \in d.todo \/ k = stack[h][i].node \/ Done(h, k)
    BY <2>3, <2>5 DEF OnTheWay
  <2>7. i = 1 => \A k \in Children(d.node) : k = stack[h][i].node => Done(h, k)'
    <3> SUFFICES ASSUME i = 1, NEW k \in Children(d.node), k = stack[h][i].node
                 PROVE  Done(h, k)'
      OBVIOUS
    <3>1. k = c
      BY <1>3 DEF c
    <3>2. parent[k] = d.node /\ d.node \in Node
      BY <2>6, <1>3, <1>4, BelowClosed DEF Children
    <3>3. k \in Removed(h)' /\ k \notin Accounts
      BY <3>1, <3>2, <1>3, <1>9, TablesAreRows DEF Exists
    <3> QED
      BY <3>3 DEF Done
  <2> HIDE DEF d
  <2>8. \A k \in Children(d.node) :
          \/ k \in d.todo
          \/ i > 1 /\ k = stack'[h][i - 1].node
          \/ Done(h, k)'
    BY <2>4, <2>5, <2>6, <2>7, <1>7
  <2>9. /\ stack'[h][i] = d
        /\ IF i = length - 1 THEN d.node = n
           ELSE parent'[d.node] = stack'[h][i + 1].node
        /\ length - 1 = Len(stack'[h])
    BY <2>2, <2>6, <1>1, <1>12 DEF d, vars
  <2> QED
    BY <2>6, <2>8, <2>9, <1>7 DEF OnTheWay
<1>14. Returned(h, n)'
  <2> SUFFICES ASSUME stack'[h] = <<>>
               PROVE  {m \in Children(n) \cup {n} : Exists(m)} \subseteq Removed(h)'
    BY <1>1, <1>7 DEF Returned, Exists, vars
  <2>1. c = n
    BY <1>3, <1>12
  <2> QED
    BY <2>1, <1>9, <1>10
<1> QED
  BY <1>11, <1>13, <1>14 DEF Cascades

(* No step makes a cascade forget a row or take one too many: others' work *)
(* is not disturbed, a write of anybody ends all of it, and the steps of   *)
(* the recursion keep to the plan.                                         *)
LEMMA StepCascade == HInv /\ [HNext]_allVars => CascadeAccountsForAll'
<1> SUFFICES ASSUME HInv, [HNext]_allVars PROVE CascadeAccountsForAll'
  OBVIOUS
<1> USE DEF HInv
<1>1. ASSUME NEW kind, CreateNode(kind) PROVE CascadeAccountsForAll'
  BY <1>1, NobodyLeft DEF CreateNode
<1>2. CASE StoreCosts
  BY <1>2, NobodyLeft DEF StoreCosts
<1>3. ASSUME NEW h \in Handler, Commit(h) PROVE CascadeAccountsForAll'
  BY <1>3, NobodyLeft DEF Commit
<1>4. ASSUME NEW h \in Handler, NEW a \in Accounts, PurgeCosts(h, a)
      PROVE  CascadeAccountsForAll'
  BY <1>4, NobodyLeft DEF PurgeCosts
<1>5. ASSUME NEW h \in Handler, RemoveAccount(h) PROVE CascadeAccountsForAll'
  BY <1>5, NobodyLeft DEF RemoveAccount
<1>6. ASSUME NEW h \in Handler, UNCHANGED vars,
             \A g \in Handler \ {h} : stack'[g] = stack[g] /\ work'[g] = work[g],
             InTransaction(h)' => \E n \in Node \ Accounts : Cascades(h, n)'
      PROVE  CascadeAccountsForAll'
  <2> SUFFICES ASSUME NEW g \in Handler, InTransaction(g)'
               PROVE  \E n \in Node \ Accounts : Cascades(g, n)'
    BY DEF CascadeAccountsForAll, Cascades
  <2>1. CASE g = h
    BY <2>1, <1>6
  <2>2. CASE g # h
    BY <2>2, <1>6, Undisturbed
  <2> QED
    BY <2>1, <2>2
<1>7. ASSUME NEW h \in Handler,
             NEW kind \in {"organization", "product", "project",
                           "environment", "region"},
             DeleteNode(h, kind)
      PROVE  CascadeAccountsForAll'
  <2>1. UNCHANGED vars /\ \A g \in Handler \ {h} : stack'[g] = stack[g] /\ work'[g] = work[g]
    BY <1>7 DEF DeleteNode, HTypeOK, vars
  <2> QED
    BY <2>1, <1>6, <1>7, DeleteNodeCascades
<1>8. ASSUME NEW h \in Handler,
             CascadeInto(h) \/ DeleteAccountCosts(h) \/ CascadeReturn(h)
      PROVE  CascadeAccountsForAll'
  <2>1. UNCHANGED vars /\ \A g \in Handler \ {h} : stack'[g] = stack[g] /\ work'[g] = work[g]
    BY <1>8 DEF CascadeInto, DeleteAccountCosts, CascadeReturn, HTypeOK, vars
  <2>2. InTransaction(h)
    BY <1>8 DEF CascadeInto, DeleteAccountCosts, CascadeReturn, HTypeOK
  <2>3. PICK n \in Node \ Accounts : Cascades(h, n)
    BY <2>2 DEF CascadeAccountsForAll, Cascades
  <2>4. Cascades(h, n)'
    BY <1>8, <2>3, CascadeIntoCascades, DeleteAccountCostsCascades,
       CascadeReturnCascades
  <2> QED
    BY <2>1, <2>4, <1>6
<1>9. ASSUME NEW h \in Handler, Rollback(h) PROVE CascadeAccountsForAll'
  <2>1. /\ UNCHANGED vars /\ ~InTransaction(h)'
        /\ \A g \in Handler \ {h} : stack'[g] = stack[g] /\ work'[g] = work[g]
    BY <1>9 DEF Rollback, HTypeOK, InTransaction, vars
  <2> QED
    BY <2>1, <1>6
<1>10. ASSUME UNCHANGED <<vars, stack, work>> PROVE CascadeAccountsForAll'
  <2> SUFFICES ASSUME NEW g \in Handler, InTransaction(g)'
               PROVE  \E n \in Node \ Accounts : Cascades(g, n)'
    BY DEF CascadeAccountsForAll, Cascades
  <2> QED
    BY <1>10, Undisturbed
<1>11. ASSUME NEW h \in Handler, RemoveFails(h) PROVE CascadeAccountsForAll'
  BY <1>10, <1>11 DEF RemoveFails
<1>12. CASE UNCHANGED allVars
  BY <1>10, <1>12 DEF allVars, requests
<1> QED
  BY <1>1, <1>2, <1>3, <1>4, <1>5, <1>7, <1>8, <1>9, <1>11, <1>12
  DEF HNext, CreateOrganization, CreateProduct, CreateProject,
      CreateEnvironment, CreateRegion, CreateCloudAccount,
      DeleteOrganization, DeleteProduct, DeleteProject, DeleteEnvironment,
      DeleteRegion

LEMMA InitCascade == HInit => CascadeAccountsForAll
BY DEF HInit, CascadeAccountsForAll, InTransaction

LEMMA Invariance == HSpec => []HInv
<1>1. HInit => HInv
  BY InitType, InitCascade DEF HInv
<1>2. HInv /\ [HNext]_allVars => HInv'
  BY StepType, StepCascade DEF HInv
<1> QED
  BY <1>1, <1>2, PTL DEF HSpec

(* What the handlers of the hierarchy work on are trees of the right kinds,*)
(* always, and a stack of calls never outlives its transaction.            *)
THEOREM TypeCorrect == HSpec => []HTypeOK
<1>1. HInv => HTypeOK
  BY DEF HInv
<1> QED
  BY <1>1, Invariance, PTL

(* A cascade in progress can account for every row and every cost record   *)
(* beneath the node it deletes.                                            *)
THEOREM CascadeCollects == HSpec => []CascadeAccountsForAll
<1>1. HInv => CascadeAccountsForAll
  BY DEF HInv
<1> QED
  BY <1>1, Invariance, PTL

-------------------------------------------------------------------------------
(* The abstract hierarchy *)

(* A commit takes the node, all that is beneath it and nothing else, in a  *)
(* single step.                                                            *)
LEMMA CommitDeletes ==
    ASSUME HInv, NEW h \in Handler, Commit(h)
    PROVE  \E n \in Node \ Accounts : Delete(n)
<1>1. PICK n \in Node \ Accounts : Cascades(h, n)
  BY DEF HInv, CascadeAccountsForAll, Commit, Cascades
<1>2. Forest /\ work[h] \in Tables /\ stack[h] = <<>>
  BY DEF HInv, HTypeOK, Forest, Commit, InTransaction
<1>3. {m \in Children(n) \cup {n} : Exists(m)} \subseteq Removed(h)
  BY <1>1, <1>2 DEF Cascades, Returned
<1>4. Below(n) \subseteq Removed(h) \cup {n}
  <2>1. \A m \in Node : parent[m] \in Removed(h) \cup {n} => m \in Removed(h) \cup {n}
    BY <1>1, <1>3, TablesAreRows DEF Cascades, TakenBeneath, Children, Exists
  <2> QED
    BY <2>1, BelowLeast
<1>5. n \in Below(n) /\ Below(n) \subseteq Node
  BY <1>2, BelowClosed
<1>6. \A m \in Node : work[h].parent[m] =
                         IF m \in Below(n) THEN NoRow ELSE parent[m]
  BY <1>1, <1>3, <1>4, <1>5 DEF Cascades, TakenBeneath, Removed, Exists
<1>7. parent' = [m \in Node |-> IF m \in Below(n) THEN NoRow ELSE parent[m]]
  BY <1>2, <1>6 DEF Commit, Tables
<1>8. costs' = costs \ {a \in Accounts : a \in Below(n) /\ Exists(a)}
  <2>1. \A a \in Accounts : a \in Below(n) /\ Exists(a) => a \notin work[h].costs
    BY <1>1, <1>3, <1>4 DEF Cascades, TakenBeneath, Removed
  <2>2. \A a \in costs \ work[h].costs : a \in Accounts /\ Exists(a) /\ a \in Below(n)
    BY <1>1 DEF Cascades, TakenBeneath, HInv, HTypeOK
  <2> QED
    BY <1>1, <2>1, <2>2 DEF Commit, Cascades, TakenBeneath
<1> QED
  BY <1>7, <1>8 DEF Delete

(* Every step of the handlers is one step of the abstract hierarchy or     *)
(* none.                                                                   *)
LEMMA StepIsAbstract == HInv /\ [HNext]_allVars => [Next]_vars
<1> SUFFICES ASSUME HInv, [HNext]_allVars PROVE [Next]_vars
  OBVIOUS
<1> USE DEF Next
<1>1. ASSUME NEW kind, CreateNode(kind) PROVE Next
  BY <1>1 DEF CreateNode, NodesOf
<1>2. CASE StoreCosts
  BY <1>2 DEF StoreCosts
<1>3. ASSUME NEW h \in Handler, Commit(h) PROVE Next
  BY <1>3, CommitDeletes
<1>4. ASSUME NEW h \in Handler, NEW a \in Accounts, PurgeCosts(h, a) PROVE Next
  BY <1>4 DEF PurgeCosts
<1>5. ASSUME NEW h \in Handler, RemoveAccount(h) PROVE Next
  <2>1. removing[h] \in Accounts
    BY <1>5 DEF RemoveAccount, HInv, HTypeOK
  <2> QED
    BY <1>5, <2>1 DEF RemoveAccount
<1>6. ASSUME NEW h \in Handler, NEW kind,
             \/ DeleteNode(h, kind) \/ CascadeInto(h) \/ DeleteAccountCosts(h)
             \/ CascadeReturn(h) \/ Rollback(h) \/ RemoveFails(h)
      PROVE  UNCHANGED vars
  BY <1>6 DEF DeleteNode, CascadeInto, DeleteAccountCosts, CascadeReturn,
     Rollback, RemoveFails
<1>7. CASE UNCHANGED allVars
  BY <1>7 DEF allVars
<1> QED
  BY <1>1, <1>2, <1>3, <1>4, <1>5, <1>6, <1>7
  DEF HNext, CreateOrganization, CreateProduct, CreateProject,
      CreateEnvironment, CreateRegion, CreateCloudAccount,
      DeleteOrganization, DeleteProduct, DeleteProject, DeleteEnvironment,
      DeleteRegion

(* The cascade is atomic: the handlers implement the abstract hierarchy.   *)
THEOREM CascadeIsAtomic == HSpec => ImplementsHierarchyAbs
<1>1. HInit => Abs!Init
  BY DEF HInit, Init, Abs!Init
<1>2. HInv /\ [HNext]_allVars => [Abs!Next]_(Abs!vars)
  <2>1. [Next]_vars => [Abs!Next]_(Abs!vars)
    BY DEF Next, Create, Delete, DropCosts, DropAccount, RecordCosts, vars,
       Exists, ParentsOf, NodesOf, Accounts, Below, WithChildren, KindAbove,
       Abs!Next, Abs!Create, Abs!Delete, Abs!DropCosts, Abs!DropAccount,
       Abs!RecordCosts, Abs!vars, Abs!Exists, Abs!ParentsOf, Abs!NodesOf,
       Abs!Accounts, Abs!Below, Abs!WithChildren, Abs!KindAbove
  <2> QED
    BY <2>1, StepIsAbstract
<1> QED
  BY <1>1, <1>2, Invariance, PTL DEF HSpec, ImplementsHierarchyAbs, Abs!Spec

(* A step of the abstract hierarchy that takes a node other than a single  *)
(* account takes its children and the costs of every account it takes.     *)
LEMMA AbstractDelete ==
    ASSUME HTypeOK, Next, NEW n \in Node \ Accounts, Exists(n), ~Exists(n)'
    PROVE  /\ \A m \in Node : parent'[m] # n
           /\ \A a \in Accounts : Exists(a) /\ ~Exists(a)' => a \notin costs'
<1>1. Forest
  BY DEF HTypeOK, Forest
<1>2. PICK k \in Node \ Accounts : Delete(k)
  <2>1. ASSUME NEW m \in Node, NEW p \in ParentsOf(m), Create(m, p) PROVE FALSE
    <3>1. p # NoRow
      BY HierarchyAssumption DEF ParentsOf, NodesOf
    <3> QED
      BY <2>1, <3>1 DEF Create, Exists, HTypeOK
  <2>2. ASSUME NEW a \in Accounts, DropCosts(a) \/ DropAccount(a) \/ RecordCosts(a)
        PROVE  FALSE
    BY <2>2 DEF DropCosts, DropAccount, RecordCosts, Exists, HTypeOK
  <2> QED
    BY <2>1, <2>2 DEF Next
<1>3. n \in Below(k)
  BY <1>2 DEF Delete, Exists
<1>4. \A m \in Node : parent[m] = n => m \in Below(k)
  BY <1>1, <1>2, <1>3, BelowClosed
<1>5. \A m \in Node : parent'[m] = IF m \in Below(k) THEN NoRow ELSE parent[m]
  BY <1>2 DEF Delete
<1>6. \A m \in Node : parent'[m] # n
  BY <1>4, <1>5, TablesAreRows
<1>7. ASSUME NEW a \in Accounts, Exists(a), ~Exists(a)' PROVE a \notin costs'
  BY <1>2, <1>5, <1>7, TablesAreRows DEF Delete, Exists
<1> QED
  BY <1>6, <1>7

(* Whatever else goes on, a delete of a node leaves no row behind that     *)
(* names a row it took, nor costs of an account it took.                   *)
THEOREM NothingOrphaned == HSpec => DeleteOrphansNothing
<1> DEFINE Orphanless ==
      \A n \in Node \ Accounts : Exists(n) /\ ~Exists(n)' =>
          /\ \A m \in Node : parent'[m] # n
          /\ \A a \in Accounts : Exists(a) /\ ~Exists(a)' => a \notin costs'
<1>1. HInv /\ [HNext]_allVars => Orphanless
  <2> SUFFICES ASSUME HInv, [HNext]_allVars PROVE Orphanless
    OBVIOUS
  <2>1. CASE Next
    BY <2>1, AbstractDelete DEF HInv
  <2>2. CASE UNCHANGED vars
    BY <2>2 DEF vars, Exists
  <2> QED
    BY <2>1, <2>2, StepIsAbstract
<1> QED
  BY <1>1, Invariance, PTL DEF HSpec, DeleteOrphansNothing
===============================================================================
