-------------------------------- MODULE TwoPC --------------------------------
(***************************************************************************)
(* The two-phase commit of POST /checkout in order-service: the coordinator*)
(* is the goroutine that serves the request, and it drives the participants*)
(* of module Participant by HTTP calls.                                    *)
(*                                                                         *)
(* pc[c] is where the goroutine of checkout c stands:                      *)
(*   start -> created -> prepare -> commit -> confirmed -> COMMITTED       *)
(*   with prepare, commit -> aborting -> abort -> rejected -> ABORTED      *)
(* The loops over the participants, pc = "prepare", "commit" or "abort",   *)
(* are at participant at[c].  "COMMITTED" and "ABORTED" have answered the  *)
(* client with that status, "error" has answered 500, and "crashed" is a   *)
(* goroutine that died with its process.  Nothing reads twopc_tx_log after *)
(* a restart, so a crashed checkout is never taken up again.               *)
(*                                                                         *)
(* Every checkout is its own order, and all of them buy the same product.  *)
(***************************************************************************)
EXTENDS Participant, Request

VARIABLE txlog  \* twopc_tx_log.status by txid, "none" for no row

coordinatorVars == <<order, txlog, pc, at, ctx, faults>>
vars == <<rpc, prepared, business, holder, faults, order, txlog, pc, at, ctx>>

OrderStatus == {"none", "PROCESSING", "CONFIRMED", "REJECTED"}
LogStatus == {"none", "STARTED", "PREPARING", "COMMITTING", "ABORTING",
              "COMMITTED", "ABORTED"}
Finished == {"COMMITTED", "ABORTED", "error", "crashed"}
PC == Action \cup Finished \cup {"start", "created", "aborting", "confirmed", "rejected"}

Init ==
  /\ ParticipantInit
  /\ order = [c \in Checkout |-> "none"]
  /\ txlog = [t \in TxID |-> "none"]
  /\ pc = [c \in Checkout |-> "start"]
  /\ at = [c \in Checkout |-> 1]
  /\ ctx = [c \in Checkout |-> "live"]

(* Every variable has values of its type.                                  *)
TypeOK ==
  /\ ParticipantTypeOK
  /\ order \in [Checkout -> OrderStatus]
  /\ txlog \in [TxID -> LogStatus]
  /\ pc \in [Checkout -> PC]
  /\ at \in [Checkout -> 1..(N + 1)]
  /\ ctx \in [Checkout -> {"live", "dead"}]

-----------------------------------------------------------------------------
(* The coordinator's own database.                                         *)

(* Mutant: the loop starts one too low.                                    *)
EnterAtZero(c, loop) ==
  /\ Goto(c, loop)
  /\ at' = [at EXCEPT ![c] = 0]

Enter(c, loop) ==
  /\ Goto(c, loop)
  /\ at' = [at EXCEPT ![c] = 1]

updateTxStatus(c, status) ==
  \E done \in Writes(c) :
    txlog' = [txlog EXCEPT ![TxOf(c)] = IF done /\ @ # "none" THEN status ELSE @]

(* One transaction inserts the order and, when there is a txid, its log    *)
(* entry.                                                                  *)
CreateOrder(c) ==
  /\ pc[c] = "start"
  /\ \E result \in CreateResults(c) :
       /\ Goto(c, IF result = "committed" THEN "created" ELSE "error")
       /\ IF result = "rolledback"
          THEN UNCHANGED <<order, txlog>>
          ELSE /\ order' = [order EXCEPT ![c] = "PROCESSING"]
               /\ txlog' = IF TxOf(c) = Empty THEN txlog
                           ELSE [txlog EXCEPT ![TxOf(c)] = "STARTED"]
  /\ UNCHANGED <<participantVars, at, ctx>>

MarkPreparing(c) ==
  /\ pc[c] = "created"
  /\ updateTxStatus(c, "PREPARING")
  /\ Enter(c, "prepare")
  /\ UNCHANGED <<participantVars, order, ctx>>

(* Mutant: the decision is not logged.                                     *)
MarkCommittingUnlogged(c) ==
  /\ pc[c] = "prepare" /\ at[c] = N + 1
  /\ Enter(c, "commit")
  /\ UNCHANGED <<participantVars, order, txlog, ctx>>

MarkCommitting(c) ==
  /\ pc[c] = "prepare" /\ at[c] = N + 1
  /\ updateTxStatus(c, "COMMITTING")
  /\ Enter(c, "commit")
  /\ UNCHANGED <<participantVars, order, ctx>>

(* Mutant: only the participants from the failed one on are aborted.       *)
MarkAbortingFromFailed(c) ==
  /\ pc[c] = "aborting"
  /\ updateTxStatus(c, "ABORTING")
  /\ Goto(c, "abort")
  /\ UNCHANGED <<participantVars, order, at, ctx>>

MarkAborting(c) ==
  /\ pc[c] = "aborting"
  /\ updateTxStatus(c, "ABORTING")
  /\ Enter(c, "abort")
  /\ UNCHANGED <<participantVars, order, ctx>>

(* Mutant: the order is confirmed before the commit calls are over.        *)
ConfirmOrderEarly(c) ==
  /\ pc[c] = "commit"
  /\ updateOrderStatus(c, "CONFIRMED")
  /\ Goto(c, "confirmed")
  /\ UNCHANGED <<participantVars, txlog, at, ctx>>

ConfirmOrder(c) ==
  /\ pc[c] = "commit" /\ at[c] = N + 1
  /\ updateOrderStatus(c, "CONFIRMED")
  /\ Goto(c, "confirmed")
  /\ UNCHANGED <<participantVars, txlog, at, ctx>>

RejectOrder(c) ==
  /\ pc[c] = "abort" /\ at[c] = N + 1
  /\ updateOrderStatus(c, "REJECTED")
  /\ Goto(c, "rejected")
  /\ UNCHANGED <<participantVars, txlog, at, ctx>>

CloseCommitted(c) ==
  /\ pc[c] = "confirmed"
  /\ updateTxStatus(c, "COMMITTED")
  /\ Goto(c, "COMMITTED")
  /\ UNCHANGED <<participantVars, order, at, ctx>>

CloseAborted(c) ==
  /\ pc[c] = "rejected"
  /\ updateTxStatus(c, "ABORTED")
  /\ Goto(c, "ABORTED")
  /\ UNCHANGED <<participantVars, order, at, ctx>>

-----------------------------------------------------------------------------
(* The calls: twopcPrepare, twopcCommit and twopcAbort over postJSON.      *)

PostJSON(c, a, p) ==
  /\ Calling(c, a, p)
  /\ ctx[c] = "live"
  /\ Send(c, a, p)
  /\ UNCHANGED coordinatorVars

(* Mutants: the status of the answer is not looked at; the call does not   *)
(* wait for its answer.                                                    *)
CallSucceedsOnAnyAnswer(c, a, p) ==
  /\ Calling(c, a, p)
  /\ rpc[c][a][p] \in {"ok", "no"}
  /\ at' = [at EXCEPT ![c] = p + 1]
  /\ UNCHANGED <<participantVars, order, txlog, pc, ctx>>

CallSucceedsWithoutAnswer(c, a, p) ==
  /\ Calling(c, a, p)
  /\ rpc[c][a][p] \notin {"none", "no"}
  /\ at' = [at EXCEPT ![c] = p + 1]
  /\ UNCHANGED <<participantVars, order, txlog, pc, ctx>>

CallSucceeds(c, a, p) ==
  /\ Calling(c, a, p)
  /\ rpc[c][a][p] = "ok"
  /\ at' = [at EXCEPT ![c] = p + 1]
  /\ UNCHANGED <<participantVars, order, txlog, pc, ctx>>

(* Mutant: the handler answers at once, without aborting.                  *)
PrepareOrCommitFailsReturns(c, a, p) ==
  /\ a \in {"prepare", "commit"}
  /\ Calling(c, a, p)
  /\ CallError(c, a, p)
  /\ Goto(c, "ABORTED")
  /\ UNCHANGED <<participantVars, order, txlog, at, ctx>>

(* twopcPrepare and twopcCommit stop at the first error, which leads to    *)
(* the abort of every participant.                                         *)
PrepareOrCommitFails(c, a, p) ==
  /\ a \in {"prepare", "commit"}
  /\ Calling(c, a, p)
  /\ CallError(c, a, p)
  /\ Goto(c, "aborting")
  /\ UNCHANGED <<participantVars, order, txlog, at, ctx>>

(* Mutant: the loop stops at the first error.                              *)
AbortFailsStops(c, p) ==
  /\ Calling(c, "abort", p)
  /\ CallError(c, "abort", p)
  /\ at' = [at EXCEPT ![c] = N + 1]
  /\ UNCHANGED <<participantVars, order, txlog, pc, ctx>>

(* twopcAbort drops the error and goes on.                                 *)
AbortFails(c, p) ==
  /\ Calling(c, "abort", p)
  /\ CallError(c, "abort", p)
  /\ at' = [at EXCEPT ![c] = p + 1]
  /\ UNCHANGED <<participantVars, order, txlog, pc, ctx>>

-----------------------------------------------------------------------------
(* The environment.                                                        *)

(* The client hangs up, or the 10 s of the request are over.               *)
ExpireCtx(c) ==
  /\ "ctx" \in faults
  /\ pc[c] \notin Finished
  /\ ctx[c] = "live"
  /\ ctx' = [ctx EXCEPT ![c] = "dead"]
  /\ UNCHANGED <<participantVars, order, txlog, pc, at>>

Crash(c) ==
  /\ "crash" \in faults
  /\ pc[c] \notin Finished
  /\ Goto(c, "crashed")
  /\ UNCHANGED <<participantVars, order, txlog, at, ctx>>

(* A call nobody waits for any more has its request context cancelled, and *)
(* any call may be lost when calls can be.                                 *)
LoseCall(c, a, p) ==
  /\ "call" \in faults \/ ~Calling(c, a, p)
  /\ Lose(c, a, p)
  /\ UNCHANGED coordinatorVars

HandlerStep(c, a, p) ==
  /\ Handler(c, a, p)
  /\ UNCHANGED coordinatorVars

-----------------------------------------------------------------------------
Coordinator(c) ==
  \/ CreateOrder(c)
  \/ MarkPreparing(c)
  \/ MarkCommitting(c)
  \/ MarkAborting(c)
  \/ ConfirmOrder(c)
  \/ RejectOrder(c)
  \/ CloseCommitted(c)
  \/ CloseAborted(c)
  \/ \E a \in Action, p \in Participants :
       \/ PostJSON(c, a, p)
       \/ CallSucceeds(c, a, p)
       \/ PrepareOrCommitFails(c, a, p)
  \/ \E p \in Participants : AbortFails(c, p)

(* All requests are over and no handler is running.                        *)
Quiescent ==
  /\ \A c \in Checkout : pc[c] \in Finished
  /\ \A c \in Checkout, a \in Action, p \in Participants :
       rpc[c][a][p] \notin {"open", "half"}

Terminated == Quiescent /\ UNCHANGED vars

Next ==
  \/ \E c \in Checkout :
       \/ Coordinator(c)
       \/ ExpireCtx(c)
       \/ Crash(c)
       \/ \E a \in Action, p \in Participants : HandlerStep(c, a, p) \/ LoseCall(c, a, p)
  \/ Terminated

Spec == Init /\ [][Next]_vars

(* Goroutines are scheduled: the one of a checkout, which its timeouts keep*)
(* from waiting forever, and the ones of the handlers it calls, of which   *)
(* each has few steps.  Nothing makes a context expire, a process crash or *)
(* a call get lost.                                                        *)
Fairness == \A c \in Checkout :
  /\ WF_vars(Coordinator(c))
  /\ WF_vars(\E a \in Action, p \in Participants : HandlerStep(c, a, p))

FairSpec == Spec /\ Fairness

-----------------------------------------------------------------------------
(* What the protocol ensures whatever goes wrong.                          *)

(* No participant finalizes alone: a row reaches COMMITTED only when every *)
(* participant has inserted its row.  twopcPrepare must have had a 200 from*)
(* all of them, a 200 must mean that the inserts are committed, and no     *)
(* late or repeated handler may take a row away.                           *)
CommitNeedsEveryVote ==
  \A c \in Checkout, p \in Participants :
    business[p][TxOf(c)] = "COMMITTED" =>
      \A q \in Participants : business[q][TxOf(c)] # "none"

(* The order, the coordinator's log and the calls already on the wire never*)
(* tell opposite stories, although the writes between them are separate    *)
(* statements whose errors are dropped.                                    *)
LogAgrees ==
  \A c \in Checkout :
    /\ order[c] = "CONFIRMED" \/ txlog[TxOf(c)] = "COMMITTED" =>
         \A p \in Participants : rpc[c]["commit"][p] = "ok" /\ rpc[c]["abort"][p] = "none"
    /\ order[c] = "CONFIRMED" => txlog[TxOf(c)] \notin {"ABORTING", "ABORTED"}
    /\ order[c] = "REJECTED" => txlog[TxOf(c)] # "COMMITTED"

(* What a client has been told about an order stays true: a settled order  *)
(* never changes, and from CONFIRMED on no handler still running changes   *)
(* a row of it.                                                            *)
OutcomeIsFinal ==
  [][\A c \in Checkout :
       /\ order[c] \in {"CONFIRMED", "REJECTED"} => order'[c] = order[c]
       /\ order[c] = "CONFIRMED" =>
            \A p \in Participants : /\ prepared'[p][TxOf(c)] = prepared[p][TxOf(c)]
                                    /\ business'[p][TxOf(c)] = business[p][TxOf(c)]]_vars

-----------------------------------------------------------------------------
(* What it ensures only as long as some faults stay away.                  *)

(* A confirmed order has its work finished at every participant, in both   *)
(* tables.  Not so when statements fail: the handlers drop the error of    *)
(* the UPDATE and answer 200.                                              *)
ConfirmedIsBacked ==
  "db" \notin faults =>
    \A c \in Checkout : order[c] = "CONFIRMED" =>
      \A p \in Participants : /\ prepared[p][TxOf(c)] = "COMMITTED"
                              /\ business[p][TxOf(c)] = "COMMITTED"

(* The decision is logged before it is carried out: once some participant  *)
(* has committed, the log no longer says that the votes are being          *)
(* collected, whichever context, process or call was lost since.           *)
DecisionBeforeCommit ==
  "db" \notin faults /\ TxMode = "twopc" =>
    \A c \in Checkout, p \in Participants :
      "COMMITTED" \in {prepared[p][c], business[p][c]} =>
        txlog[c] \notin {"none", "STARTED", "PREPARING"}

(* An abort that was answered has released the work: no reservation is     *)
(* left PREPARED.                                                          *)
Released ==
  \A c \in Checkout, p \in Participants :
    rpc[c]["abort"][p] = "ok" => business[p][TxOf(c)] # "PREPARED"

(* So it is unless calls get lost: a prepare that its caller has given up  *)
(* on may be handled after the abort.                                      *)
ReleasedOnAbort == {"db", "call"} \cap faults = {} => Released

(* A row finalized by COMMIT stays so.                                     *)
CommittedRowsStay ==
  \A p \in Participants, t \in TxID :
    business[p][t] = "COMMITTED" => business'[p][t] = "COMMITTED"

(* A committed row stays committed unless calls get lost: a commit call    *)
(* that fails makes the coordinator abort the participants that have       *)
(* committed already.                                                      *)
CommitIsFinalIfCallsArrive == []["call" \notin faults => CommittedRowsStay]_vars

(* A client that is told ABORTED has had every participant called to abort *)
(* that was called to prepare.  Not so when its context has expired: the   *)
(* calls of the abort use the context whose end made the prepare fail.     *)
AbortReachesPrepared ==
  "ctx" \notin faults =>
    \A c \in Checkout : pc[c] = "ABORTED" =>
      \A p \in Participants :
        rpc[c]["prepare"][p] # "none" => rpc[c]["abort"][p] # "none"

(* A confirmed order has rows of its own at every participant.  Only a     *)
(* txid of its own gives it that.                                          *)
ConfirmedOrderIsHeld ==
  \A c \in Checkout : order[c] = "CONFIRMED" =>
    \A p \in Participants : holder[p][TxOf(c)] = c

-----------------------------------------------------------------------------
(* Liveness, under FairSpec.                                               *)

(* Every request comes to an end, with an answer unless its process dies,  *)
(* whichever calls are lost and however slow the participants are.         *)
Answered == \A c \in Checkout : <>(pc[c] \in Finished)

(* An order that exists is settled.                                        *)
Settles ==
  \A c \in Checkout : order[c] = "PROCESSING" ~> order[c] \in {"CONFIRMED", "REJECTED"}

(* So it is when no context expires, no process crashes and no statement   *)
(* fails, even if calls get lost.                                          *)
OrderSettles == faults \subseteq {"tx", "call"} => Settles

(* No work stays reserved for ever: it is committed or given back, if      *)
(* calls are not lost either.                                              *)
ReservationsResolve ==
  faults \subseteq {"tx"} =>
    \A p \in Participants, c \in Checkout :
      business[p][TxOf(c)] = "PREPARED" ~> business[p][TxOf(c)] \in {"COMMITTED", "ABORTED"}

-----------------------------------------------------------------------------
(* The abstract checkout this implements in mode "twopc", as long as       *)
(* statements do not fail: a business row is the work its service holds.   *)
VerdictOf(status) == CASE status = "CONFIRMED" -> "confirmed"
                       [] status = "REJECTED"  -> "rejected"
                       [] OTHER                -> "open"

Promise == INSTANCE AtomicCheckout WITH
  work <- [c \in Checkout |-> [p \in Participants |-> WorkOf(business[p][TxOf(c)])]],
  verdict <- [c \in Checkout |-> VerdictOf(order[c])]

(* The two-phase commit keeps the promise of AtomicCheckout, step by step. *)
KeepsPromise ==
  /\ Promise!Init
  /\ [][TxMode = "twopc" /\ "db" \notin faults => Promise!Step]_vars
==============================================================================
