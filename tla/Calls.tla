-------------------------------- MODULE Calls --------------------------------
(***************************************************************************)
(* What every program of the repository that drives services over HTTP     *)
(* shares: a goroutine that walks through its participants, the context    *)
(* that bounds it, the calls it makes and the faults it has to live with.  *)
(***************************************************************************)
EXTENDS Naturals

CONSTANTS
  Checkout,  \* what is driven: POST /checkout requests, each its own order, and
             \* the txids they get; transactions of the 2PC library
  N,         \* number of participants called: those whose base URL is
             \* configured (2PC: 0 when MOCK_2PC switches the calls off)
  FaultSets  \* the sets of faults a behaviour may have to live with

(* "tx":    a database transaction may be rolled back                      *)
(* "db":    any database statement may return an error, and the            *)
(*          acknowledgement of a database commit may be lost               *)
(* "call":  an HTTP call may be lost, or answered after its timeout        *)
(* "ctx":   the context of a goroutine may be cancelled                    *)
(* "crash": the process of a goroutine may die                             *)
Fault == {"tx", "db", "call", "ctx", "crash"}

ASSUME RequestAssumption ==
  /\ N \in Nat
  /\ FaultSets \subseteq SUBSET Fault

Participants == 1..N

VARIABLES
  faults,   \* the faults of this behaviour, chosen once and for all
  pc, at,   \* where the goroutine stands, and which participant it has reached
  ctx,      \* its context, "live" or "dead" (client gone, or time over)
  rpc       \* rpc[c][a][p]: progress of the call of endpoint a on participant p

Goto(c, label) == pc' = [pc EXCEPT ![c] = label]

SetCall(c, a, p, state) == rpc' = [rpc EXCEPT ![c][a][p] = state]

(* What a statement or a transaction may come to.  A commit whose          *)
(* acknowledgement is lost has happened, but its caller sees an error:     *)
(* "unacked".                                                              *)
StatementResults == IF "db" \in faults THEN {TRUE, FALSE} ELSE {TRUE}
TransactionResults ==
  {"committed"} \cup (IF {"tx", "db"} \cap faults # {} THEN {"rolledback"} ELSE {})
                \cup (IF "db" \in faults THEN {"unacked"} ELSE {})

(* Whether a statement of the goroutine takes effect.  Its error is dropped*)
(* by the handler, and with a dead context it is not even sent.            *)
Writes(c) == IF ctx[c] = "dead" THEN {FALSE} ELSE StatementResults

(* The endpoint checkout c is calling at participant p.                    *)
Calling(c, a, p) == pc[c] = a /\ at[c] = p

(* Mutants: a 200 is taken for an error; the client has no timeout.        *)
CallErrorOnAnyAnswer(c, a, p) ==
  \/ ctx[c] = "dead"
  \/ rpc[c][a][p] \in {"ok", "no"}

CallErrorWithoutTimeout(c, a, p) ==
  \/ ctx[c] = "dead"
  \/ rpc[c][a][p] = "no"

(* postJSON returns an error: the context is dead (nothing is sent then),  *)
(* the answer is 409, or the call is lost or times out after 2.5 s.        *)
CallError(c, a, p) ==
  \/ ctx[c] = "dead"
  \/ rpc[c][a][p] = "no"
  \/ "call" \in faults /\ rpc[c][a][p] # "none"
==============================================================================
