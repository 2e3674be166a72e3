---------------------------- MODULE EchoService -----------------------------
(***************************************************************************)
(* What remote-login promises the person at the client's terminal: a login *)
(* that is granted to the users of the list and to nobody else, and then   *)
(* one answer per line, the line itself.  No connection, no frames and no  *)
(* processes: LoginSession implements it by the refinement mapping at its  *)
(* end.                                                                    *)
(***************************************************************************)
CONSTANTS
  People,   \* the credentials a person may have
  Users,    \* those that are in the user list
  Lines,    \* what may be typed
  Nothing   \* no question, or no answer

VARIABLES
  who,       \* the credentials typed
  status,    \* "connecting", "granted", "refused" or "gone"
  question,  \* the line waiting for its answer
  answer     \* the answer on the screen

vars == <<who, status, question, answer>>

Init ==
  /\ who \in People
  /\ status = "connecting"
  /\ question = Nothing
  /\ answer = Nothing

Decide ==
  /\ status = "connecting"
  /\ status' = IF who \in Users THEN "granted" ELSE "refused"
  /\ UNCHANGED <<who, question, answer>>

Ask ==
  /\ status = "granted"
  /\ question = Nothing
  /\ question' \in Lines
  /\ answer' = Nothing
  /\ UNCHANGED <<who, status>>

Answer ==
  /\ status = "granted"
  /\ question # Nothing
  /\ answer' = question
  /\ question' = Nothing
  /\ UNCHANGED <<who, status>>

\* The person types "exit", or the client is killed.
Leave ==
  /\ status \in {"connecting", "granted"}
  /\ status' = "gone"
  /\ question' = Nothing
  /\ answer' \in {answer, Nothing}
  /\ who' = who

Next == Decide \/ Ask \/ Answer \/ Leave

Spec == Init /\ [][Next]_vars /\ WF_vars(Decide) /\ WF_vars(Answer)
=============================================================================
