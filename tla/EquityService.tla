---------------------------- MODULE EquityService ----------------------------
(***************************************************************************)
(* The equity service of the rational opponents: the renderer's half       *)
(* (src/src/modes/rationalEquityService.ts) and the worker's               *)
(* (rationalEquityProtocol.ts, workers/equityWorker.ts), or the in-thread  *)
(* fallback that the desktop game uses instead of a worker.                *)
(*                                                                         *)
(* A request is its token.  An estimate is known by the request it was     *)
(* computed from; how it is sampled is left out, not that it takes several *)
(* slices between which the thread does other things.  A step is one task  *)
(* of an event loop, with the promises it resolves.                        *)
(***************************************************************************)
EXTENDS Integers, Sequences, Functions

CONSTANTS
  MaxRequests,  \* bound on the requests of a behaviour
  MaxSlices     \* most slices an estimate takes

ASSUME BoundsAssumption == {MaxRequests, MaxSlices} \subseteq Nat \ {0}

VARIABLES
  options,     \* [worker, supersedePending]
  nextToken, pending, disposed,
  promise,     \* what estimate() returned for every token: [state, of]
  toWorker, fromWorker,  \* messages under way, in order
  work,        \* estimates under way: token -> [left, fresh]
  cancelled,   \* the worker's set of cancelled tokens
  wasted       \* history: slices the fallback ran for a token nobody waits for

caller == <<options, nextToken, pending, disposed, promise>>
equityVars == <<caller, toWorker, fromWorker, work, cancelled, wasted>>

Requests == 1..MaxRequests
Slices == 1..MaxSlices

NotAsked == [state |-> "unasked", of |-> 0]
Waiting == [state |-> "open", of |-> 0]
Rejected == [state |-> "rejected", of |-> 0]
Resolved(token) == [state |-> "resolved", of |-> token]

Estimate(token) == [kind |-> "estimate", token |-> token]
CancelMessage(tokens) == [kind |-> "cancel", tokens |-> tokens]
Result(token) == [kind |-> "result", token |-> token, of |-> token]
Error(token) == [kind |-> "error", token |-> token]
Cancelled(token) == [kind |-> "cancelled", token |-> token]

EquityInit ==
  /\ options \in [worker : BOOLEAN, supersedePending : BOOLEAN]
  /\ nextToken = 1 /\ pending = {} /\ disposed = FALSE
  /\ promise = [t \in Requests |-> NotAsked]
  /\ toWorker = <<>> /\ fromWorker = <<>>
  /\ work = <<>> /\ cancelled = {}
  /\ wasted = [t \in Requests |-> 0]

-----------------------------------------------------------------------------
(* The renderer.                                                           *)

(* settle: of these tokens, those still pending.                           *)
Settled(tokens, end) ==
  /\ pending' = pending \ tokens
  /\ promise' = [t \in Requests |-> IF t \in tokens \cap pending THEN end ELSE promise[t]]

(* The cancel messages of one call are one message here.                   *)
CancelMessages(tokens) == IF tokens = {} THEN <<>> ELSE <<CancelMessage(tokens)>>

Superseded == IF options.supersedePending THEN pending ELSE {}

(* Work that begins now and takes some number of slices.                   *)
Begun(token, slices) ==
  [t \in DOMAIN work \cup {token} |->
     IF t = token THEN [left |-> slices, fresh |-> TRUE] ELSE work[t]]

Ask ==
  /\ ~disposed /\ nextToken <= MaxRequests
  /\ nextToken' = nextToken + 1
  /\ pending' = (pending \ Superseded) \cup {nextToken}
  /\ promise' = [t \in Requests |-> IF t = nextToken THEN Waiting
                                    ELSE IF t \in Superseded THEN Rejected ELSE promise[t]]
  /\ IF options.worker
     THEN /\ toWorker' = toWorker \o Append(CancelMessages(Superseded), Estimate(nextToken))
          /\ UNCHANGED work
     ELSE /\ \E slices \in Slices : work' = Begun(nextToken, slices)
          /\ UNCHANGED toWorker
  /\ UNCHANGED <<options, disposed, fromWorker, cancelled, wasted>>

CancelPending ==
  /\ pending # {}
  /\ Settled(pending, Rejected)
  /\ toWorker' = IF options.worker THEN toWorker \o CancelMessages(pending) ELSE toWorker
  /\ UNCHANGED <<options, nextToken, disposed, fromWorker, work, cancelled, wasted>>

(* A terminated worker is gone with everything on its way to or from it.   *)
Dispose_LeavesPending ==   \* mutant
  /\ ~disposed /\ disposed' = TRUE
  /\ IF options.worker
     THEN toWorker' = <<>> /\ fromWorker' = <<>> /\ work' = <<>> /\ cancelled' = {}
     ELSE UNCHANGED <<toWorker, fromWorker, work, cancelled>>
  /\ UNCHANGED <<options, nextToken, pending, promise, wasted>>
Dispose ==
  /\ ~disposed /\ disposed' = TRUE
  /\ Settled(pending, Rejected)
  /\ IF options.worker
     THEN toWorker' = <<>> /\ fromWorker' = <<>> /\ work' = <<>> /\ cancelled' = {}
     ELSE UNCHANGED <<toWorker, fromWorker, work, cancelled>>
  /\ UNCHANGED <<options, nextToken, wasted>>

(* handleResponse.                                                         *)
HandleResponse ==
  /\ fromWorker # <<>> /\ fromWorker' = Tail(fromWorker)
  /\ LET message == Head(fromWorker) IN
       Settled({message.token},
               IF message.kind = "result" THEN Resolved(message.of) ELSE Rejected)
  /\ UNCHANGED <<options, nextToken, disposed, toWorker, work, cancelled, wasted>>

-----------------------------------------------------------------------------
(* The in-thread fallback: one slice, and what follows it at once.         *)
Without(token) == Restrict(work, DOMAIN work \ {token})
OneSliceLess(token) ==
  [work EXCEPT ![token] = [left |-> work[token].left - 1, fresh |-> FALSE]]

IsCancelled_OnlyDisposed(token) == disposed   \* mutant
IsCancelled(token) == disposed \/ token \notin pending

FallbackSlice(token) ==
  /\ ~options.worker /\ token \in DOMAIN work
  /\ IF ~work[token].fresh /\ IsCancelled(token)
     THEN work' = Without(token) /\ UNCHANGED <<pending, promise, wasted>>
     ELSE /\ wasted' = [wasted EXCEPT ![token] = IF token \in pending THEN @ ELSE @ + 1]
          /\ \/ /\ work[token].left > 1 /\ work' = OneSliceLess(token)
                /\ UNCHANGED <<pending, promise>>
             \/ /\ work[token].left = 1 /\ work' = Without(token)
                /\ Settled({token}, Resolved(token))
             \/ work' = Without(token) /\ Settled({token}, Rejected)
  /\ UNCHANGED <<options, nextToken, disposed, toWorker, fromWorker, cancelled>>

-----------------------------------------------------------------------------
(* The worker.                                                             *)
Post(message) == fromWorker' = Append(fromWorker, message)

(* A slice of a run that has this many left: it goes on, is done or throws.*)
RunSlice(token, left) ==
  \/ /\ left > 1 /\ UNCHANGED fromWorker
     /\ work' = [t \in DOMAIN work \cup {token} |->
                   IF t = token THEN [left |-> left - 1, fresh |-> FALSE] ELSE work[t]]
  \/ left = 1 /\ work' = Without(token) /\ Post(Result(token))
  \/ work' = Without(token) /\ Post(Error(token))

Dropped(token) == work' = Without(token) /\ Post(Cancelled(token)) /\ cancelled' = cancelled \ {token}

IsGivenUp_Any(token) == cancelled # {}   \* mutant
IsGivenUp(token) == token \in cancelled

WorkerTakes ==
  /\ toWorker # <<>> /\ toWorker' = Tail(toWorker)
  /\ LET message == Head(toWorker) IN
       IF message.kind = "cancel"
       THEN cancelled' = cancelled \cup message.tokens /\ UNCHANGED <<work, fromWorker>>
       ELSE IF IsGivenUp(message.token) THEN Dropped(message.token)
       ELSE (\E slices \in Slices : RunSlice(message.token, slices)) /\ UNCHANGED cancelled
  /\ UNCHANGED <<caller, wasted>>

WorkerContinues(token) ==
  /\ options.worker /\ token \in DOMAIN work
  /\ IF IsGivenUp(token) THEN Dropped(token)
     ELSE RunSlice(token, work[token].left) /\ UNCHANGED cancelled
  /\ UNCHANGED <<caller, toWorker, wasted>>

-----------------------------------------------------------------------------
EquityNext ==
  \/ Ask \/ CancelPending \/ Dispose \/ HandleResponse \/ WorkerTakes
  \/ \E token \in Requests : FallbackSlice(token) \/ WorkerContinues(token)

(* Both event loops go on: messages and timers are served in the end.      *)
Fairness ==
  /\ WF_equityVars(HandleResponse) /\ WF_equityVars(WorkerTakes)
  /\ \A token \in Requests : WF_equityVars(FallbackSlice(token)) /\ WF_equityVars(WorkerContinues(token))

EquitySpec == EquityInit /\ [][EquityNext]_equityVars /\ Fairness

Fate(token) ==
  CASE promise[token].state = "unasked" -> "unasked"
    [] promise[token].state = "open" -> "open"
    [] promise[token].state = "rejected" -> "refused"
    [] OTHER -> IF promise[token].of = token THEN "answered" ELSE "wrong"

Promises == INSTANCE EquityPromises
  WITH supersedes <- options.supersedePending, closed <- disposed,
       fate <- [token \in Requests |-> Fate(token)]

(* Every request is answered with its own estimate or refused, once and in *)
(* the end, whatever is asked, cancelled and late meanwhile (estimate,     *)
(* supersede, settle and handleResponse of rationalEquityService.ts).      *)
KeepsPromises == Promises!Spec

(* Work is dropped only when nobody waits for it: the table takes a        *)
(* cancelled request for one it gave up itself, and asks no further, so    *)
(* that a request dropped on its own would stop the game (run in           *)
(* rationalEquityProtocol.ts; the catch of App.tsx:1107).                  *)
OnlyGivenUpWorkIsDropped ==
  \A i \in DOMAIN fromWorker :
    fromWorker[i].kind = "cancelled" => fromWorker[i].token \notin pending

(* A decision that is not wanted any more holds the renderer's thread for  *)
(* one slice at most (isCancelled, defaultFallbackEstimate).               *)
StopsAtASlice == \A token \in Requests : wasted[token] <= 1
=============================================================================
