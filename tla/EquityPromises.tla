--------------------------- MODULE EquityPromises ---------------------------
(***************************************************************************)
(* What a caller of the equity service may rely on, however the estimate   *)
(* is computed: a request is answered with its own estimate or refused,    *)
(* once, and nothing stays open.  A service that supersedes refuses what   *)
(* is open when something newer is asked.                                  *)
(***************************************************************************)
CONSTANT Requests

VARIABLES
  supersedes,  \* whether a new request refuses the open ones
  fate,        \* what became of every request
  closed       \* the service was disposed of

vars == <<supersedes, fate, closed>>

Open == {r \in Requests : fate[r] = "open"}
Refused == [r \in Requests |-> IF r \in Open THEN "refused" ELSE fate[r]]

Init ==
  /\ supersedes \in BOOLEAN
  /\ fate = [r \in Requests |-> "unasked"]
  /\ closed = FALSE

Ask(r) ==
  /\ ~closed /\ fate[r] = "unasked"
  /\ fate' = [IF supersedes THEN Refused ELSE fate EXCEPT ![r] = "open"]
  /\ UNCHANGED <<supersedes, closed>>

Settle(r) ==
  /\ r \in Open
  /\ \E end \in {"answered", "refused"} : fate' = [fate EXCEPT ![r] = end]
  /\ UNCHANGED <<supersedes, closed>>

Cancel == fate' = Refused /\ UNCHANGED <<supersedes, closed>>

Dispose == ~closed /\ closed' = TRUE /\ fate' = Refused /\ UNCHANGED supersedes

Next == (\E r \in Requests : Ask(r) \/ Settle(r)) \/ Cancel \/ Dispose

Safe == Init /\ [][Next]_vars
Spec == Safe /\ \A r \in Requests : WF_vars(Settle(r))
=============================================================================
