----------------------------- MODULE TuneRequests -----------------------------
(***************************************************************************)
(* What a session promises about tuning requests (WRITE, DISCARD, SAVE),   *)
(* however they reach the firmware: each is answered at most once; "ok"    *)
(* means the firmware carried it out, once; a refusal means it did not and *)
(* never will; only a request the session stopped waiting for (a timeout,  *)
(* a closed session) may have been carried out, or be so later.            *)
(***************************************************************************)
EXTENDS Integers

CONSTANT Requests

VARIABLES
  state,  \* what the asker knows of each request
  done    \* how often the firmware carried it out

States == {"idle", "waiting", "ok", "refused", "unknown"}

TypeOK ==
  /\ state \in [Requests -> States]
  /\ done \in [Requests -> Nat]

Init ==
  /\ state = [r \in Requests |-> "idle"]
  /\ done = [r \in Requests |-> 0]

Ask(r) ==
  /\ state[r] = "idle"
  /\ state' = [state EXCEPT ![r] = "waiting"]
  /\ UNCHANGED done

CarryOut(r) ==
  /\ state[r] \in {"waiting", "unknown"} /\ done[r] = 0
  /\ done' = [done EXCEPT ![r] = 1]
  /\ UNCHANGED state

Confirm(r) ==
  /\ state[r] = "waiting" /\ done[r] = 1
  /\ state' = [state EXCEPT ![r] = "ok"]
  /\ UNCHANGED done

\* A write into the target's memory is carried out and confirmed at once.
Fulfil(r) ==
  /\ state[r] = "waiting" /\ done[r] = 0
  /\ state' = [state EXCEPT ![r] = "ok"]
  /\ done' = [done EXCEPT ![r] = 1]

Refuse(r) ==
  /\ state[r] \in {"idle", "waiting"} /\ done[r] = 0
  /\ state' = [state EXCEPT ![r] = "refused"]
  /\ UNCHANGED done

\* The end of a session, or of its patience, comes for several at once: the
\* wait for those in S is over, and those in T never got as far as the firmware.
GiveUp(S, T) ==
  /\ \A r \in S \union T : state[r] = "waiting"
  /\ \A r \in T : done[r] = 0
  /\ state' = [r \in Requests |-> IF r \in S THEN "unknown"
                                 ELSE IF r \in T THEN "refused" ELSE state[r]]
  /\ UNCHANGED done

Next ==
  \/ \E r \in Requests : Ask(r) \/ CarryOut(r) \/ Confirm(r) \/ Fulfil(r) \/ Refuse(r)
  \/ \E S, T \in SUBSET Requests : GiveUp(S, T)

Spec == Init /\ [][Next]_<<state, done>>
==============================================================================
