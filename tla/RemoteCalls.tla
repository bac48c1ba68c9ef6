---------------------------- MODULE RemoteCalls -----------------------------
(***************************************************************************)
(* What a client of the daemon relies on: a call is executed at most once, *)
(* after it is made, and returns what its execution has resulted in, or    *)
(* the connection is lost.                                                 *)
(***************************************************************************)
EXTENDS Integers

CONSTANTS Conns, Results

VARIABLES state,   \* of each connection: "idle", "called", a result, or "over"
          returned \* what its last call has returned, between calls

callVars == <<state, returned>>

Init ==
    /\ state = [c \in Conns |-> "idle"]
    /\ returned = [c \in Conns |-> "none"]

Call(c) ==
    /\ state[c] = "idle"
    /\ state' = [state EXCEPT ![c] = "called"]
    /\ returned' = [returned EXCEPT ![c] = "none"]

Execute(c, r) ==
    /\ state[c] = "called"
    /\ state' = [state EXCEPT ![c] = r]
    /\ UNCHANGED returned

Return(c) ==
    /\ state[c] \in Results
    /\ state' = [state EXCEPT ![c] = "idle"]
    /\ returned' = [returned EXCEPT ![c] = state[c]]

Lose(c) ==
    /\ state[c] # "over"
    /\ state' = [state EXCEPT ![c] = "over"]
    /\ returned' = [returned EXCEPT ![c] = "none"]

Next ==
    \E c \in Conns :
      Call(c) \/ Return(c) \/ Lose(c) \/ \E r \in Results : Execute(c, r)

Spec == Init /\ [][Next]_callVars
=============================================================================
