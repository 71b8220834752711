------------------------------- MODULE Engine -------------------------------
(***************************************************************************)
(* The two-phase commit of the library: Engine.Execute of                  *)
(* pkg/tx/twopc/coordinator over the participants of module Participant.   *)
(* Its log and its clients are interfaces without an implementation yet:   *)
(* a client is taken to call the participant's endpoint, and a 409 to be a *)
(* vote against; Create is taken to log STARTED.                           *)
(*                                                                         *)
(* pc[c] is where Execute stands for transaction c:                        *)
(*   start -> created -> prepare -> commit -> returned                     *)
(* with prepare -> abort -> failed, and failed from every error returned.  *)
(* Unlike order-service it aborts the prepared participants only, from the *)
(* last to the first, and returns at the first commit that fails.          *)
(***************************************************************************)
EXTENDS Participant

(* A transaction of the library always has a txid of its own.              *)
ASSUME LibraryAssumption == TxMode = "twopc"

VARIABLE txlog  \* the status kept by TxLogStore, "none" before Create

engineVars == <<txlog, pc, at, ctx, faults>>
vars == <<rpc, prepared, business, holder, faults, txlog, pc, at, ctx>>

Finished == {"returned", "failed", "crashed"}

Init ==
  /\ ParticipantInit
  /\ txlog = [c \in Checkout |-> "none"]
  /\ pc = [c \in Checkout |-> "start"]
  /\ at = [c \in Checkout |-> 1]
  /\ ctx = [c \in Checkout |-> "live"]

-----------------------------------------------------------------------------
SetStatus(c, status) ==
  \E done \in Writes(c) : txlog' = [txlog EXCEPT ![c] = IF done THEN status ELSE @]

Move(c, label, p) ==
  /\ Goto(c, label)
  /\ at' = [at EXCEPT ![c] = p]

(* An error of Create is returned, whether or not the entry was written.   *)
Create(c) ==
  /\ pc[c] = "start"
  /\ \E done \in {TRUE} \cup Writes(c), acked \in Writes(c) :
       /\ txlog' = IF done THEN [txlog EXCEPT ![c] = "STARTED"] ELSE txlog
       /\ Goto(c, IF done /\ acked THEN "created" ELSE "failed")
  /\ UNCHANGED <<participantVars, at, ctx>>

MarkPreparing(c) ==
  /\ pc[c] = "created"
  /\ SetStatus(c, "PREPARING")
  /\ Move(c, "prepare", 1)
  /\ UNCHANGED <<participantVars, ctx>>

CallParticipant(c, a, p) ==
  /\ Calling(c, a, p)
  /\ ctx[c] = "live"
  /\ Send(c, a, p)
  /\ UNCHANGED engineVars

CallSucceeds(c, a, p) ==
  /\ a \in {"prepare", "commit"}
  /\ Calling(c, a, p)
  /\ rpc[c][a][p] = "ok"
  /\ Move(c, a, p + 1)
  /\ UNCHANGED <<participantVars, txlog, ctx>>

(* Mutant: the last prepared participant is skipped.                       *)
PrepareFailsSkips(c, p) ==
  /\ Calling(c, "prepare", p)
  /\ CallError(c, "prepare", p)
  /\ SetStatus(c, "ABORTING")
  /\ Move(c, "abort", IF p > 2 THEN p - 2 ELSE 0)
  /\ UNCHANGED <<participantVars, ctx>>

(* An error or a vote against: those that have prepared are aborted, from  *)
(* the last one down.                                                      *)
PrepareFails(c, p) ==
  /\ Calling(c, "prepare", p)
  /\ CallError(c, "prepare", p)
  /\ SetStatus(c, "ABORTING")
  /\ Move(c, "abort", p - 1)
  /\ UNCHANGED <<participantVars, ctx>>

(* The error of an abort is dropped.                                       *)
AbortReturns(c, p) ==
  /\ Calling(c, "abort", p)
  /\ rpc[c]["abort"][p] = "ok" \/ CallError(c, "abort", p)
  /\ Move(c, "abort", p - 1)
  /\ UNCHANGED <<participantVars, txlog, ctx>>

MarkAborted(c) ==
  /\ pc[c] = "abort" /\ at[c] = 0
  /\ SetStatus(c, "ABORTED")
  /\ Goto(c, "failed")
  /\ UNCHANGED <<participantVars, at, ctx>>

MarkCommitting(c) ==
  /\ pc[c] = "prepare" /\ at[c] = N + 1
  /\ SetStatus(c, "COMMITTING")
  /\ Move(c, "commit", 1)
  /\ UNCHANGED <<participantVars, ctx>>

(* Mutant: the error of a commit is dropped, like that of an abort.        *)
CommitFailsDropped(c, p) ==
  /\ Calling(c, "commit", p)
  /\ CallError(c, "commit", p)
  /\ Move(c, "commit", p + 1)
  /\ UNCHANGED <<participantVars, txlog, ctx>>

(* The error is returned; nobody is told, and the log stays COMMITTING.    *)
CommitFails(c, p) ==
  /\ Calling(c, "commit", p)
  /\ CallError(c, "commit", p)
  /\ Goto(c, "failed")
  /\ UNCHANGED <<participantVars, txlog, at, ctx>>

MarkCommitted(c) ==
  /\ pc[c] = "commit" /\ at[c] = N + 1
  /\ SetStatus(c, "COMMITTED")
  /\ Goto(c, "returned")
  /\ UNCHANGED <<participantVars, at, ctx>>

-----------------------------------------------------------------------------
ExpireCtx(c) ==
  /\ "ctx" \in faults
  /\ pc[c] \notin Finished
  /\ ctx[c] = "live"
  /\ ctx' = [ctx EXCEPT ![c] = "dead"]
  /\ UNCHANGED <<participantVars, txlog, pc, at>>

Crash(c) ==
  /\ "crash" \in faults
  /\ pc[c] \notin Finished
  /\ Goto(c, "crashed")
  /\ UNCHANGED <<participantVars, txlog, at, ctx>>

(* The participants run on; a call nobody waits for any more may be lost.  *)
ParticipantStep(c, a, p) ==
  /\ Handler(c, a, p) \/ (("call" \in faults \/ ~Calling(c, a, p)) /\ Lose(c, a, p))
  /\ UNCHANGED engineVars

Execute(c) ==
  \/ Create(c) \/ MarkPreparing(c) \/ MarkCommitting(c) \/ MarkCommitted(c) \/ MarkAborted(c)
  \/ \E p \in Participants :
       \/ PrepareFails(c, p) \/ AbortReturns(c, p) \/ CommitFails(c, p)
       \/ \E a \in Action : CallParticipant(c, a, p) \/ CallSucceeds(c, a, p)

Terminated ==
  /\ \A c \in Checkout : pc[c] \in Finished
  /\ UNCHANGED vars

Next ==
  \/ \E c \in Checkout :
       \/ Execute(c) \/ ExpireCtx(c) \/ Crash(c)
       \/ \E a \in Action, p \in Participants : ParticipantStep(c, a, p)
  \/ Terminated

Spec == Init /\ [][Next]_vars

-----------------------------------------------------------------------------
(* A transaction logged ABORTED holds nothing, whichever participant voted *)
(* against it and although that one is not told to abort.  Not so when     *)
(* calls are lost: a prepare whose answer is lost is not aborted either.   *)
AbortedReleases ==
  {"db", "call", "ctx"} \cap faults = {} =>
    \A c \in Checkout, p \in Participants :
      txlog[c] = "ABORTED" => business[p][c] \in {"none", "ABORTED"}

(* The abstract checkout, its verdict read from the log.                   *)
VerdictOf(status) == CASE status = "COMMITTED" -> "confirmed"
                       [] status = "ABORTED"   -> "rejected"
                       [] OTHER                -> "open"

Promise == INSTANCE AtomicCheckout WITH
  work <- [c \in Checkout |-> [p \in Participants |-> WorkOf(business[p][TxOf(c)])]],
  verdict <- [c \in Checkout |-> VerdictOf(txlog[c])]

(* The library keeps the promise of AtomicCheckout, when statements do not *)
(* fail: what its log says was decided is what the participants hold.      *)
KeepsPromise ==
  /\ Promise!Init
  /\ []["db" \notin faults => Promise!Step]_vars
==============================================================================
