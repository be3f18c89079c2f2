---------------------------- MODULE HttpExchange ----------------------------
(***************************************************************************)
(* What a client may rely on from one http connection, whoever answers on  *)
(* the server's side: each request is answered at most once, in order,     *)
(* before the next one is read, and nothing follows the last answer.       *)
(***************************************************************************)
EXTENDS Naturals

VARIABLES
  asked,     \* number of requests taken from the client
  answered,  \* number of answers the client has got
  open       \* the connection is still in use

vars == <<asked, answered, open>>

Init == asked = 0 /\ answered = 0 /\ open = TRUE

Ask ==
  /\ open /\ asked = answered
  /\ asked' = asked + 1
  /\ UNCHANGED <<answered, open>>

\* The answer may be the last one.
Answer ==
  /\ open /\ answered < asked
  /\ answered' = answered + 1
  /\ open' \in BOOLEAN
  /\ UNCHANGED asked

\* The connection breaks, times out or becomes a websocket.
End ==
  /\ open
  /\ open' = FALSE
  /\ UNCHANGED <<asked, answered>>

Next == Ask \/ Answer \/ End

Spec == Init /\ [][Next]_vars
=============================================================================
