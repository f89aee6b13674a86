------------------------------- MODULE CostViews ------------------------------
(***************************************************************************)
(* The two views of the costs, while the tables change: the tree with its  *)
(* rolled up totals (handleTree) and the timeseries of one node            *)
(* (handleCostTimeseries).                                                 *)
(*                                                                         *)
(* The tree is read in seven queries, one for each table of the hierarchy, *)
(* top down, and one for the costs; the timeseries in two, one for the     *)
(* accounts of the scope and one for their costs.  There is no             *)
(* transaction: others write in between.  Both requests carry the token of *)
(* the same user.                                                          *)
(*                                                                         *)
(* The writers are the steps of HierarchyAbs.  An id is never used twice   *)
(* here (the ids are AUTOINCREMENT columns).  The costs of an account in   *)
(* the requested range are one amount, whatever its days and services; a   *)
(* point of the timeseries is an account whose costs are added up.         *)
(***************************************************************************)
EXTENDS HierarchyAbs, FiniteSetsExt, Functions

CONSTANTS
    Amount,    \* account -> its costs in the range, where it has any
    Start,     \* a hierarchy: the tables when the model begins, each account
               \* with costs
    Token,     \* the role and scope of the users' tokens
    MaxWrites, \* bound: writes in a behaviour
    NoScope,   \* no scope in the query, or no scope id in a token
    Hidden,    \* not part of an answer
    Torn       \* an answer during which the tables were written

VARIABLES
    home,   \* history: the parent a row has or had, NoRow for unused ids
    writes, \* history: how often the tables have been written
    token,  \* the token of the user
    level,  \* the tree: its next query, 0 when no request is in progress
    loaded, \* the rows the tree has loaded, with their parents
    shown,  \* its answer: the nodes shown, with their totals
    treeOf, \* history: the writes before the tree was read, or Torn
    scope,  \* the timeseries: the node it is about, or NoScope
    reading,\* "accounts" or "costs" is its next query, or it is "idle"
    ids,    \* the accounts its first query found
    points, \* its answer: the accounts whose costs it adds up, or Hidden
    seriesOf \* history: as treeOf

history == <<home, writes>>
tree    == <<level, loaded, shown, treeOf>>
series  == <<scope, reading, ids, points, seriesOf>>
vVars   == <<vars, history, token, tree, series>>

NodeParent == [Node -> Node \cup {Root, NoRow}]

(* An administrator stores any type of scope with any id, or none: those   *)
(* of the six tables (the code's "org" is "organization" here) and what no *)
(* code knows.  An id is a number, and read in the table the type names.   *)
ScopeTypes == {"none", "organization", "product", "project", "environment",
               "region", "account", "other"}

ASSUME ViewsAssumption ==
    /\ IsFiniteSet(Node)
    /\ Amount \in [Accounts -> Nat]
    /\ Start \in NodeParent
    /\ \A n \in Node : Start[n] # NoRow => Start[n] \in ParentsOf(n)
    /\ MaxWrites \in Nat
    /\ Token \subseteq [viewer: BOOLEAN, scopeType: ScopeTypes,
                        scopeId: Node \cup {NoScope}]
    /\ \A t \in Token :
          t.scopeId # NoScope /\ t.scopeType \in DOMAIN KindAbove \cup {"organization"}
              => Kind[t.scopeId] = t.scopeType
    /\ NoScope \notin Node
    /\ Hidden \notin Nat
    /\ Torn \notin Nat

VInit ==
    /\ parent   = Start
    /\ costs    = {a \in Accounts : Start[a] # NoRow}
    /\ home     = Start
    /\ writes   = 0
    /\ token    \in Token
    /\ level    = 0
    /\ loaded   = [n \in Node |-> NoRow]
    /\ shown    = [n \in Node |-> Hidden]
    /\ treeOf   = Torn
    /\ scope    = NoScope
    /\ reading  = "idle"
    /\ ids      = {}
    /\ points   = Hidden
    /\ seriesOf = Torn

-------------------------------------------------------------------------------
(* The writers *)

Write ==
    /\ writes < MaxWrites
    /\ writes' = writes + 1
    /\ \/ \E n \in Node : \E p \in ParentsOf(n) :
            /\ home[n] = NoRow
            /\ Create(n, p)
            /\ home' = [home EXCEPT ![n] = p]
       \/ /\ \/ \E n \in Node \ Accounts : Delete(n)
             \/ \E a \in Accounts : DropCosts(a) \/ DropAccount(a)
             \/ \E a \in Accounts : home[a] # NoRow /\ RecordCosts(a)
          /\ UNCHANGED home
    /\ UNCHANGED <<token, tree, series>>

-------------------------------------------------------------------------------
(* The accounts of a node (resolveCloudAccountIDs) *)

\* variant: the foreign key is selected in the place of the id
SelectedKeys(kind, S) == S \cap {parent[m] : m \in NodesOf(kind)}

(* SELECT id FROM the table WHERE its foreign key IN the ids of S.         *)
Selected(kind, S) == {m \in NodesOf(kind) : parent[m] \in S}

(* One query for each type of scope; an account is not looked up.          *)
CloudAccountIDs(n) ==
    CASE Kind[n] = "account" -> {n}
      [] Kind[n] = "region" -> Selected("account", {n})
      [] Kind[n] = "environment" ->
            Selected("account", Selected("region", {n}))
      [] Kind[n] = "project" ->
            Selected("account", Selected("region", Selected("environment", {n})))
      [] Kind[n] = "product" ->
            Selected("account", Selected("region", Selected("environment",
                Selected("project", {n}))))
      [] Kind[n] = "organization" ->
            Selected("account", Selected("region", Selected("environment",
                Selected("project", Selected("product", {n})))))

-------------------------------------------------------------------------------
(* The tree *)

Restricted == token.viewer /\ token.scopeType # "none"

ProductInScope(p) ==
    Restricted => \/ token.scopeType = "project"
                  \/ token.scopeType = "product" /\ token.scopeId = p
ProjectInScope(j) ==
    Restricted /\ token.scopeType = "project" => token.scopeId = j

OpenTree ==
    /\ level = 0
    /\ level'  = 1
    /\ shown'  = [n \in Node |-> Hidden]
    /\ treeOf' = writes
    /\ UNCHANGED <<vars, history, token, loaded, series>>

(* A preload: the rows of the next table that name a loaded row.           *)
LoadLevel ==
    /\ level \in 1..6
    /\ loaded' = [n \in Node |->
            IF /\ Kind[n] = Kinds[level]
               /\ Exists(n)
               /\ level > 1 => loaded[parent[n]] # NoRow
            THEN parent[n] ELSE loaded[n]]
    /\ level'  = level + 1
    /\ treeOf' = IF treeOf = writes THEN treeOf ELSE Torn
    /\ UNCHANGED <<vars, history, token, shown, series>>

InScope(n) ==
    /\ Kind[n] = "product" => ProductInScope(n)
    /\ Kind[n] = "project" => ProjectInScope(n)

(* What the loops of handleTree visit: each is over the loaded rows of a   *)
(* visited one, and skips those that are not in scope.                     *)
Looped(kind, S) == {n \in NodesOf(kind) : loaded[n] \in S /\ InScope(n)}

Visited ==
    LET orgs         == {n \in NodesOf("organization") : loaded[n] # NoRow}
        products     == Looped("product", orgs)
        projects     == Looped("project", products)
        environments == Looped("environment", projects)
        regions      == Looped("region", environments)
    IN  orgs \cup products \cup projects \cup environments \cup regions
             \cup Looped("account", regions)

(* What they add up: the totals of the nodes of one table, from those of   *)
(* the table below.                                                        *)
CostByAccount == [n \in Node |-> IF n \in costs THEN Amount[n] ELSE 0]

\* variant: a cost is added before the node is skipped
PartsUnfiltered(n, visited) == {m \in Node : loaded[m] = n}

Parts(n, visited) == {m \in visited : loaded[m] = n}

\* variant: an organization takes over the total of one of its products
RollupOfLastProduct(kind, visited, total) ==
    [n \in Node |->
        IF Kind[n] # kind THEN total[n]
        ELSE IF kind = "organization"
        THEN Max({total[m] : m \in Parts(n, visited)} \cup {0})
        ELSE SumFunctionOnSet(total, Parts(n, visited))]

\* variant: a total is that of the accounts the tables have beneath the node
RollupByQuery(kind, visited, total) ==
    [n \in Node |-> IF Kind[n] = kind
                    THEN SumFunctionOnSet(CostByAccount, CloudAccountIDs(n))
                    ELSE total[n]]

Rollup(kind, visited, total) ==
    [n \in Node |-> IF Kind[n] = kind
                    THEN SumFunctionOnSet(total, Parts(n, visited))
                    ELSE total[n]]

Totals(visited) ==
    LET regions      == Rollup("region", visited, CostByAccount)
        environments == Rollup("environment", visited, regions)
        projects     == Rollup("project", visited, environments)
        products     == Rollup("product", visited, projects)
    IN  Rollup("organization", visited, products)

(* The query of the costs, and the answer.                                 *)
AnswerTree ==
    /\ level = 7
    /\ LET visited == Visited
           totals  == Totals(visited)
       IN  shown' = [n \in Node |-> IF n \in visited THEN totals[n] ELSE Hidden]
    /\ level'  = 0
    /\ loaded' = [n \in Node |-> NoRow]
    /\ treeOf' = IF treeOf = writes THEN treeOf ELSE Torn
    /\ UNCHANGED <<vars, history, token, series>>

-------------------------------------------------------------------------------
(* The timeseries *)

(* The scope of a viewer takes the place of that of the query; where the   *)
(* token has no id, the id in the query, if there is one, is taken as one  *)
(* of the type in the token.  With an id and a type no code knows there is *)
(* no answer.                                                              *)
EffectiveScope(query) ==
    IF ~Restricted THEN {query}
    ELSE IF token.scopeId # NoScope
    THEN {token.scopeId} \cap NodesOf(token.scopeType)
    ELSE IF query # NoScope THEN NodesOf(token.scopeType)
    ELSE {NoScope}

OpenSeries(query) ==
    /\ reading = "idle"
    /\ scope' \in EffectiveScope(query)
    /\ reading'  = IF scope' = NoScope THEN "costs" ELSE "accounts"
    /\ points'   = Hidden
    /\ seriesOf' = writes
    /\ UNCHANGED <<vars, history, token, tree, ids>>

ResolveAccounts ==
    /\ reading = "accounts"
    /\ ids'      = CloudAccountIDs(scope)
    /\ reading'  = IF ids' = {} THEN "idle" ELSE "costs"
    /\ points'   = IF ids' = {} THEN {} ELSE Hidden
    /\ seriesOf' = IF seriesOf = writes THEN seriesOf ELSE Torn
    /\ UNCHANGED <<vars, history, token, tree, scope>>

(* Without a scope all cost records are added up.                          *)
AnswerSeries ==
    /\ reading = "costs"
    /\ points'   = IF scope = NoScope THEN costs ELSE costs \cap ids
    /\ reading'  = "idle"
    /\ ids'      = {}
    /\ seriesOf' = IF seriesOf = writes THEN seriesOf ELSE Torn
    /\ UNCHANGED <<vars, history, token, tree, scope>>

VNext ==
    \/ Write
    \/ OpenTree \/ LoadLevel \/ AnswerTree
    \/ \E query \in Node \cup {NoScope} : OpenSeries(query)
    \/ ResolveAccounts \/ AnswerSeries

VSpec == VInit /\ [][VNext]_vVars

-------------------------------------------------------------------------------
(* Properties *)

TreeAnswered   == level = 0 /\ treeOf # Torn
SeriesAnswered == points # Hidden

VTypeOK ==
    /\ parent \in NodeParent
    /\ home \in NodeParent
    /\ \A n \in Node : Exists(n) => home[n] = parent[n]
    /\ writes \in 0..MaxWrites
    /\ token \in Token
    /\ level \in 0..7
    /\ loaded \in NodeParent
    /\ shown \in [Node -> Nat \cup {Hidden}]
    /\ treeOf \in 0..MaxWrites \cup {Torn}
    /\ scope \in Node \cup {NoScope}
    /\ reading \in {"idle", "accounts", "costs"}
    /\ ids \subseteq Accounts
    /\ points \in (SUBSET Accounts) \cup {Hidden}
    /\ seriesOf \in 0..MaxWrites \cup {Torn}

(* The types of scope the tree knows, the only ones the admin page offers. *)
KnownScope == Restricted => token.scopeType \in {"product", "project"}

(* The dashboard shows the totals of the tree beside the timeseries of the *)
(* selected node: the two are computed by different code from different    *)
(* queries, and add up to the same where both have read the same tables,   *)
(* for every node shown and every user with a scope the tree knows.        *)
ViewsAgree ==
    /\ TreeAnswered /\ SeriesAnswered
    /\ treeOf = seriesOf
    /\ KnownScope
    /\ scope # NoScope
    /\ shown[scope] # Hidden
    => shown[scope] = SumFunctionOnSet(Amount, points)

(* Whether a row is, or was when it was there, the node s or beneath it.   *)
WithOwned(S) == S \cup {m \in Node : home[m] \in S}
BelongsTo(n, s) ==
    n \in WithOwned(WithOwned(WithOwned(WithOwned(WithOwned({s})))))

AccountsOf(n) == {a \in Accounts : BelongsTo(a, n)}
ShownAccounts == {a \in Accounts : shown[a] # Hidden}

(* However the tables are written between the queries of handleTree, rows  *)
(* added, taken or without their parents: the total of every node shown is *)
(* that of the accounts shown beneath it, no less and no more.             *)
TreeAddsUp ==
    \A n \in Node : shown[n] # Hidden =>
        shown[n] = SumFunctionOnSet(shown, ShownAccounts \cap AccountsOf(n))

(* A viewer whose token has a scope, of whatever type, is shown accounts   *)
(* of that scope only and totals, those of the nodes above the scope too,  *)
(* of costs of these accounts only, in both views, whatever is written     *)
(* while they are read (the comments of handleTree and                     *)
(* handleCostTimeseries).                                                  *)
ViewerConfined ==
    Restricted /\ token.scopeId # NoScope =>
        LET own == AccountsOf(token.scopeId)
        IN  /\ ShownAccounts \subseteq own
            /\ \A n \in Node : shown[n] # Hidden =>
                  shown[n] = SumFunctionOnSet(shown, ShownAccounts \cap AccountsOf(n)
                                                                   \cap own)
            /\ SeriesAnswered => points \subseteq own
-------------------------------------------------------------------------------
(* What the documentation and the comments say, and the code does not keep *)

(* "No scope (sees nothing)" (the admin page, of a viewer): no total and   *)
(* no point of a timeseries is answered to a viewer without a scope.       *)
NoScopeSeesNothing ==
    token.viewer /\ token.scopeType = "none" =>
        /\ \A n \in Node : shown[n] = Hidden
        /\ points \in {Hidden, {}}
===============================================================================
