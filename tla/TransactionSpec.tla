--------------------------- MODULE TransactionSpec ---------------------------
(***************************************************************************)
(* What a synchronous send promises its caller: it completes once; with an *)
(* answer only if the peer sent that answer to this very request, and with *)
(* one that may answer it; otherwise with an error of its own.             *)
(***************************************************************************)
CONSTANTS Data, Control
VARIABLES strict,     \* matching is strict
          status,     \* of each transaction: "idle", "open" or its outcome
          answered    \* what the peer has sent

Sender == Data \cup Control

\* The answers that may complete a transaction: a data transaction takes no
\* control response, and no diverging reply when matching is strict; an S9
\* completes only a data transaction.
Acceptable(s) ==
  {"reply", "reject"}
    \cup (IF s \in Data THEN {"s9"} ELSE {"control"})
    \cup (IF s \in Data /\ strict THEN {} ELSE {"mismatched"})

Failure == {"NotSelected", "ConnClosed", "SendError", "Timeout", "Canceled"}

Init == strict \in BOOLEAN /\ status = [s \in Sender |-> "idle"] /\ answered = {}

Open(s) == /\ status[s] = "idle"
           /\ status' = [status EXCEPT ![s] = "open"] /\ UNCHANGED <<strict, answered>>

\* The peer answers a request it was sent, possibly after the wait is over.
Answered(s, k) == /\ status[s] # "idle"
                  /\ answered' = answered \cup {[tx |-> s, kind |-> k]}
                  /\ UNCHANGED <<strict, status>>

Complete(s, o) == /\ status[s] = "open"
                  /\ \/ o \in Failure
                     \/ o \in Acceptable(s) /\ [tx |-> s, kind |-> o] \in answered
                  /\ status' = [status EXCEPT ![s] = o] /\ UNCHANGED <<strict, answered>>

Next == \E s \in Sender :
          \/ Open(s)
          \/ \E k \in {"reply", "mismatched", "reject", "control", "s9"} : Answered(s, k)
          \/ \E o \in Failure \cup Acceptable(s) : Complete(s, o)

Spec == Init /\ [][Next]_<<strict, status, answered>>
=============================================================================
