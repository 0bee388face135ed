------------------------------ MODULE Exchange ------------------------------
(***************************************************************************)
(* What a call over HTTP promises to its caller, whichever of the methods  *)
(* of InternetUtil makes it: it ends at most once, with an answer or an    *)
(* error; an answer comes from a peer that processed the request; a peer   *)
(* that processed it may leave the caller with an error all the same, or   *)
(* process it after the caller has given up; a request that changes the    *)
(* peer is processed once at most.                                         *)
(*                                                                         *)
(* HttpCall is shown to implement this specification, and the answers of   *)
(* JAX in NHDZFetcher and UserFetch are its steps.                         *)
(***************************************************************************)
CONSTANTS
  Calls,    \* the calls
  Attempts  \* the transmissions one call may make

VARIABLES
  state,  \* what the caller sees of the call
  safe,   \* whether the request may be processed again without harm
  runs    \* the transmissions of the call that the peer processed

vars == <<state, safe, runs>>

Init ==
  /\ state = [c \in Calls |-> "idle"]
  /\ safe = [c \in Calls |-> FALSE]
  /\ runs = [c \in Calls |-> {}]

Ask(c) ==
  /\ state[c] = "idle"
  /\ state' = [state EXCEPT ![c] = "running"]
  /\ \E s \in BOOLEAN : safe' = [safe EXCEPT ![c] = s]
  /\ UNCHANGED runs

Process(c, k) ==
  /\ state[c] # "idle"
  /\ safe[c] \/ runs[c] = {}
  /\ runs' = [runs EXCEPT ![c] = @ \cup {k}]
  /\ UNCHANGED <<state, safe>>

Return(c) ==
  /\ state[c] = "running" /\ runs[c] # {}
  /\ state' = [state EXCEPT ![c] = "answer"]
  /\ UNCHANGED <<safe, runs>>

Fail(c) ==
  /\ state[c] = "running"
  /\ state' = [state EXCEPT ![c] = "error"]
  /\ UNCHANGED <<safe, runs>>

Next ==
  \E c \in Calls :
    \/ Ask(c) \/ Return(c) \/ Fail(c)
    \/ \E k \in Attempts : Process(c, k)

Spec == Init /\ [][Next]_vars
=============================================================================
