------------------------------ MODULE CostLedger ------------------------------
(***************************************************************************)
(* What the cost ledger promises, whoever writes it and however that       *)
(* overlaps, fails and is cut short: every change of the stored costs is   *)
(* one of a few whole steps.  The costs of an account grow by a whole      *)
(* answer from one bill, of amounts that bill really had, or by a whole    *)
(* file; they go all at once; an account goes alone, or in a set with all  *)
(* its costs.                                                              *)
(*                                                                         *)
(* What it does not promise: that an answer is the latest, or that its     *)
(* account is still open.                                                  *)
(***************************************************************************)
EXTENDS Naturals

CONSTANTS
    Account, ExternalID, CostKey,
    MaxRevision, \* bound: revisions of one line of a bill
    NoRow,       \* nothing stored
    Csv          \* the source of an imported amount

VARIABLES
    open,   \* the accounts that exist
    costs,  \* account -> (date, service) -> amount
    bill    \* external id -> (date, service) -> revision, 0 for no line

vars == <<open, costs, bill>>

None == [k \in CostKey |-> NoRow]

Init ==
    /\ open  = {}
    /\ costs = [a \in Account |-> None]
    /\ bill  = [x \in ExternalID |-> [k \in CostKey |-> 0]]

Open(a) ==
    /\ a \notin open
    /\ open' = open \cup {a}
    /\ UNCHANGED <<costs, bill>>

(* An answer that was right at some time up to now is stored as a whole.   *)
Record(a, x, answer) ==
    /\ \A k \in CostKey : answer[k] <= bill[x][k]
    /\ costs' = [costs EXCEPT ![a] =
            [k \in CostKey |-> IF answer[k] = 0
                               THEN costs[a][k]
                               ELSE [source |-> x, revision |-> answer[k]]]]
    /\ UNCHANGED <<open, bill>>

Import(a, keys) ==
    /\ costs' = [costs EXCEPT ![a] =
            [k \in CostKey |-> IF k \in keys
                               THEN [source |-> Csv, revision |-> 0]
                               ELSE costs[a][k]]]
    /\ UNCHANGED <<open, bill>>

Purge(a) ==
    /\ costs' = [costs EXCEPT ![a] = None]
    /\ UNCHANGED <<open, bill>>

(* A single account leaves behind what was recorded after its purge.       *)
Close(a) ==
    /\ a \in open
    /\ open' = open \ {a}
    /\ UNCHANGED <<costs, bill>>

CloseAll(S) ==
    /\ open'  = open \ S
    /\ costs' = [a \in Account |-> IF a \in S THEN None ELSE costs[a]]
    /\ UNCHANGED bill

Revise(x, k) ==
    /\ bill' = [bill EXCEPT ![x][k] = @ + 1]
    /\ UNCHANGED <<open, costs>>

Next ==
    \/ \E a \in Account, x \in ExternalID,
          answer \in [CostKey -> 0..MaxRevision] : Record(a, x, answer)
    \/ \E a \in Account, keys \in SUBSET CostKey : Import(a, keys)
    \/ \E a \in Account : Open(a) \/ Purge(a) \/ Close(a)
    \/ \E S \in SUBSET open : CloseAll(S)
    \/ \E x \in ExternalID, k \in CostKey : Revise(x, k)

Spec == Init /\ [][Next]_vars
===============================================================================
