------------------------------- MODULE Dashboard -------------------------------
(***************************************************************************)
(* The dashboard of a browser, on top of its session.                      *)
(*                                                                         *)
(* The page asks for the tree whenever the range changes, and for the      *)
(* charts whenever the selection or the range changes.  No request is ever *)
(* cancelled, and answers come in any order: each simply replaces what is  *)
(* on the screen.  A request that was sent by a dashboard that has since   *)
(* left the screen is answered to nobody, but a 401 of it still reaches    *)
(* the interceptor.                                                        *)
(*                                                                         *)
(* The two charts, by day and by service, are asked for and answered alike *)
(* and independently; one of them is modelled.                             *)
(***************************************************************************)
EXTENDS Session, SequencesExt

CONSTANTS
    Preset,        \* the ranges on offer
    InitialPreset, \* the one a dashboard starts with
    Org,           \* nodes the tree may begin with
    Node,          \* nodes of the tree
    MaxAsked,      \* bound: requests of dashboards in flight
    None           \* no node, and a chart without points

ASSUME DashboardAssumption ==
    /\ InitialPreset \in Preset
    /\ Org \subseteq Node
    /\ None \notin Node
    /\ MaxAsked \in Nat

VARIABLES
    preset,   \* the range that is set
    listed,   \* is there a tree to select from?
    selected, \* the selected node
    chart,    \* the points on the screen: node, range and token asked with
    asked,    \* the requests in flight, in the order they were sent
    newest,   \* history: what became of the last request for the chart
    hasty     \* history: the range was changed before the first tree came

page == <<preset, listed, selected, chart, newest, hasty>>
vars == <<server, browser, page, asked>>

(* A request for a tree remembers whether a node was selected when it was  *)
(* sent (the closure of its effect).                                       *)
TreeRequest  == [kind: {"tree"}, token: {NoToken} \cup Token, had: BOOLEAN]
ChartRequest == [kind: {"chart"}, token: {NoToken} \cup Token, node: Node,
                 preset: Preset]
GoneRequest  == [kind: {"gone"}, token: {NoToken} \cup Token]

Tree(had)     == [kind |-> "tree", token |-> stored', had |-> had]
Chart(n, p)   == [kind |-> "chart", token |-> stored', node |-> n, preset |-> p]
Gone(request) == [kind |-> "gone", token |-> request.token]

Is(i, kind) == i \in DOMAIN asked /\ asked[i].kind = kind

Send(rest, requests) ==
    /\ asked' = rest \o requests
    /\ Len(asked') <= MaxAsked

Init ==
    /\ SessionInit
    /\ preset = InitialPreset
    /\ listed = FALSE
    /\ selected = None
    /\ chart = None
    /\ asked = <<>>
    /\ newest = "none"
    /\ hasty = FALSE

-------------------------------------------------------------------------------
(* The page comes and goes *)

Reset ==
    /\ preset' = InitialPreset
    /\ listed' = FALSE
    /\ selected' = None
    /\ chart' = None
    /\ newest' = "none"
    /\ hasty' = FALSE

(* Mounted, it asks for the tree.                                          *)
Mount ==
    /\ ~Inside /\ Inside'
    /\ Reset
    /\ Send(asked, <<Tree(FALSE)>>)

\* variant: the requests of the dashboard outlive it
UnmountKeeping ==
    /\ Inside /\ ~Inside'
    /\ Reset
    /\ UNCHANGED asked

Unmount ==
    /\ Inside /\ ~Inside'
    /\ Reset
    /\ asked' = [i \in DOMAIN asked |-> Gone(asked[i])]

(* What a step of the session does to the dashboard.                       *)
Rerender ==
    \/ Mount
    \/ Unmount
    \/ Inside' = Inside /\ UNCHANGED <<page, asked>>

Load(p) ==
    /\ LoadPage(p)
    /\ Reset
    /\ asked' = <<>>

-------------------------------------------------------------------------------
(* The user *)

\* variant: the effect of the charts does not depend on the range
SetPresetTreeOnly(p) ==
    /\ Inside
    /\ p # preset
    /\ preset' = p
    /\ hasty' = (hasty \/ \E i \in DOMAIN asked : Is(i, "tree") /\ ~asked[i].had)
    /\ UNCHANGED <<server, browser, listed, selected, chart, newest>>
    /\ Send(asked, <<Tree(selected # None)>>)

(* Both effects depend on the range: the tree is asked for again and, of a *)
(* selected node, the charts.                                              *)
SetPreset(p) ==
    /\ Inside
    /\ p # preset
    /\ preset' = p
    /\ hasty' = (hasty \/ \E i \in DOMAIN asked : Is(i, "tree") /\ ~asked[i].had)
    /\ UNCHANGED <<server, browser, listed, selected, chart>>
    /\ IF selected = None
       THEN Send(asked, <<Tree(FALSE)>>) /\ UNCHANGED newest
       ELSE Send(asked, <<Tree(TRUE), Chart(selected, p)>>) /\ newest' = "asked"

(* A click on a node, selected or not, is a new selection.                 *)
Select(n) ==
    /\ Inside
    /\ listed
    /\ selected' = n
    /\ newest' = "asked"
    /\ UNCHANGED <<server, browser, preset, listed, chart, hasty>>
    /\ Send(asked, <<Chart(n, preset)>>)

-------------------------------------------------------------------------------
(* Answers *)

Answered(i) == Allowed(asked[i].token, {"admin", "other"})

\* variant: the first organization is selected whenever a tree comes
TreeAnsweredSelecting(i) ==
    /\ Is(i, "tree")
    /\ Answered(i)
    /\ UNCHANGED <<server, browser, preset, chart, hasty>>
    /\ listed' = TRUE
    /\ \E org \in Org :
          /\ selected' = org
          /\ newest' = "asked"
          /\ Send(RemoveAt(asked, i), <<Chart(org, preset)>>)

(* The tree replaces the one shown.  If nothing was selected when it was   *)
(* asked for, its first organization is selected now.                      *)
TreeAnswered(i) ==
    /\ Is(i, "tree")
    /\ Answered(i)
    /\ UNCHANGED <<server, browser, preset, chart, hasty>>
    /\ \/ /\ ~asked[i].had
          /\ listed' = TRUE
          /\ \E org \in Org :
                /\ selected' = org
                /\ newest' = "asked"
                /\ Send(RemoveAt(asked, i), <<Chart(org, preset)>>)
       \/ /\ asked[i].had
          /\ listed' = TRUE
          /\ UNCHANGED <<selected, newest>>
          /\ Send(RemoveAt(asked, i), <<>>)
       \/ /\ listed' = FALSE \* an empty tree
          /\ UNCHANGED <<selected, newest>>
          /\ Send(RemoveAt(asked, i), <<>>)

(* The last request for the chart that was sent.                           *)
IsNewest(i) == newest = "asked" /\ \A j \in DOMAIN asked : Is(j, "chart") => j <= i

ChartAnswered(i) ==
    /\ Is(i, "chart")
    /\ Answered(i)
    /\ chart' = [node |-> asked[i].node, preset |-> asked[i].preset,
                 token |-> asked[i].token]
    /\ newest' = IF newest = "asked"
                 THEN IF IsNewest(i) THEN "shown" ELSE "asked"
                 ELSE "overwritten"
    /\ asked' = RemoveAt(asked, i)
    /\ UNCHANGED <<server, browser, preset, listed, selected, hasty>>

(* Any other end of a request: an error that nobody looks at, or an answer *)
(* to a dashboard that has gone.                                           *)
RequestDropped(i) ==
    /\ i \in DOMAIN asked
    /\ newest' = IF Is(i, "chart") /\ IsNewest(i) THEN "failed" ELSE newest
    /\ asked' = RemoveAt(asked, i)
    /\ UNCHANGED <<server, browser, preset, listed, selected, chart, hasty>>

RequestUnauthorized(i) ==
    /\ i \in DOMAIN asked
    /\ Unauthorized(asked[i].token)
    /\ Intercept401
    /\ newest' = IF Is(i, "chart") /\ IsNewest(i) THEN "failed" ELSE newest
    /\ asked' = RemoveAt(asked, i)
    /\ UNCHANGED <<server, user, loading, path, me, login, crossed, preset,
                   listed, selected, chart, hasty>>

Next ==
    \/ ServerStep /\ UNCHANGED <<page, asked>>
    \/ PageStep /\ Rerender
    \/ \E p \in {"/login", "/"} : Load(p)
    \/ \E p \in Preset : SetPreset(p)
    \/ \E n \in Node : Select(n)
    \/ \E i \in 1..MaxAsked :
        \/ TreeAnswered(i) \/ ChartAnswered(i)
        \/ RequestDropped(i) \/ RequestUnauthorized(i)

Spec == Init /\ [][Next]_vars

-------------------------------------------------------------------------------
(* Properties *)

(* A dashboard that is not on the screen has no state, and nothing but     *)
(* requests that belong to none.                                           *)
TypeOK ==
    /\ SessionTypeOK
    /\ preset \in Preset
    /\ listed \in BOOLEAN
    /\ selected \in Node \cup {None}
    /\ chart \in [node: Node, preset: Preset, token: Token] \cup {None}
    /\ asked \in Seq(TreeRequest \cup ChartRequest \cup GoneRequest)
    /\ Len(asked) <= MaxAsked
    /\ newest \in {"none", "asked", "shown", "failed", "overwritten"}
    /\ hasty \in BOOLEAN
    /\ ~Inside => selected = None /\ chart = None

(* If the last request for a chart was answered and no earlier answer came *)
(* after it, the chart is that of the node and the range that are set (the *)
(* dependencies of the effect).  Answers are not told apart: an earlier    *)
(* one that comes later stays on the screen, as an error of the last does. *)
SettledChartFits ==
    newest = "shown" => chart.node = selected /\ chart.preset = preset

(* What is on the screen was asked for with the token that is stored, or   *)
(* none is: costs of one user are not left there for the next, whatever    *)
(* answers come late (DashboardPage has its state for itself) - but for a  *)
(* login that is answered when the page has been left for the dashboard.   *)
ChartOfOwner ==
    chart # None /\ stored # NoToken /\ ~crossed => chart.token = stored

(* Once a node is selected, only the user selects another: no tree that    *)
(* comes late does - unless it was asked for before the first tree was     *)
(* there, the range having been changed at once.                           *)
ChoiceStands ==
    [][selected # None /\ selected' # selected /\ Inside /\ Inside' =>
          hasty \/ \E n \in Node : Select(n)]_vars
===============================================================================
