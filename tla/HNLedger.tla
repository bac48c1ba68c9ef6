------------------------------ MODULE HNLedger -------------------------------
(***************************************************************************)
(* What a bandwidth reservation promises: a ledger of who holds how much   *)
(* of which resources.  A request is granted exactly when it fits, all of  *)
(* it or nothing; what is held can be given back, unless an isolation has  *)
(* erased it: then the account of what is given back may be lost, until    *)
(* the next isolation there.                                               *)
(***************************************************************************)
EXTENDS Integers, FiniteSets

CONSTANTS Resources, Capacity, Users,
          Requests,     \* records [uses : SUBSET Resources, bw : Nat]
          Borders,      \* the sets of resources that are isolated together
          Unset         \* the resources whose account may be wrong from the start

VARIABLES holds,        \* what each user holds, a request or Nothing
          standing,     \* the resources of it that count
          lost,         \* the resources whose account is wrong
          closed,       \* the resources that are isolated
          answer        \* what the last call asked for and returned

ledgerVars == <<holds, standing, lost, closed, answer>>

Nothing == [uses |-> {}, bw |-> 0]

\* The units of r that count, and their number.
Units(r) ==
    UNION {{u} \X (1 .. holds[u].bw) : u \in {v \in Users : r \in standing[v]}}
Reserved(r) == Cardinality(Units(r))

\* As far as the accounts are right.
Fits(q) ==
    \A r \in q.uses \ lost : r \notin closed /\ Reserved(r) + q.bw <= Capacity[r]

Answer(asked, code) == [asked |-> asked, code |-> code]

Init ==
    /\ holds = [u \in Users |-> Nothing]
    /\ standing = [u \in Users |-> {}]
    /\ lost \in {{}, Unset}
    /\ closed = {}
    /\ answer = Answer(Nothing, "SUCCEEDED")

\* The answer says to what request it is.
Grant(u) ==
    /\ holds[u] = Nothing
    /\ answer'.asked \in Requests /\ Fits(answer'.asked)
    /\ answer'.code = "SUCCEEDED"
    /\ holds' = [holds EXCEPT ![u] = answer'.asked]
    /\ standing' = [standing EXCEPT ![u] = answer'.asked.uses]
    /\ UNCHANGED <<lost, closed>>

Refuse(u) ==
    /\ holds[u] = Nothing
    /\ answer'.asked \in Requests
    /\ Fits(answer'.asked) => answer'.asked.uses \cap lost # {}
    /\ answer'.code = "NOT_ENOUGH_BANDWIDTH_AVAILABLE"
    /\ UNCHANGED <<holds, standing, lost, closed>>

\* What counts in full is given back without complaint.
GiveBack(u) ==
    /\ holds[u] # Nothing
    /\ holds' = [holds EXCEPT ![u] = Nothing]
    /\ standing' = [standing EXCEPT ![u] = {}]
    /\ answer'.asked = Nothing
    /\ \/ answer'.code = "SUCCEEDED" /\ lost' = lost
       \/ /\ standing[u] # holds[u].uses \/ holds[u].uses \cap lost # {}
          /\ answer'.code \in {"SUCCEEDED", "WRONG_BANDWIDTH_SETTING"}
          /\ lost \subseteq lost' /\ lost' \subseteq lost \cup holds[u].uses
    /\ UNCHANGED closed

\* Resources are isolated, or opened again, whoever holds them.
Isolation ==
    LET T == answer'.asked.uses
    IN  /\ answer' = Answer([uses |-> T, bw |-> 0], "SUCCEEDED")
        /\ \E B \in Borders : T \subseteq B
        /\ closed' \in {closed \cup T, closed \ T}
        /\ standing' = [u \in Users |-> standing[u] \ T]
        /\ lost' = lost \ T
        /\ UNCHANGED holds

Next ==
    \/ \E u \in Users : Grant(u) \/ Refuse(u) \/ GiveBack(u)
    \/ Isolation

Spec == Init /\ [][Next]_ledgerVars
=============================================================================
