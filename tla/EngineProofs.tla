----------------------------- MODULE EngineProofs -----------------------------
(***************************************************************************)
(* Proofs about the two-phase commit of the library, for every set of      *)
(* transactions, every number of participants and every set of faults.     *)
(***************************************************************************)
EXTENDS Engine, ParticipantProofs, TLAPS

-----------------------------------------------------------------------------
(* The inductive invariant.                                                *)

LogStatus == {"none", "STARTED", "PREPARING", "COMMITTING", "COMMITTED", "ABORTING", "ABORTED"}
PC == Finished \cup {"start", "created", "prepare", "commit", "abort"}

TypeOK ==
  /\ ParticipantTypeOK
  /\ txlog \in [Checkout -> LogStatus]
  /\ pc \in [Checkout -> PC]
  /\ at \in [Checkout -> 0..(N + 1)]
  /\ ctx \in [Checkout -> {"live", "dead"}]

(* The calls follow the program: only participants that have prepared are  *)
(* told to commit or to abort, and no transaction tells both.              *)
CallsFollow(c) ==
  \A p \in Participants :
    /\ rpc[c]["prepare"][p] # "half" /\ rpc[c]["abort"][p] # "no"
    /\ pc[c] \in {"start", "created"} => rpc[c]["prepare"][p] = "none"
    /\ pc[c] = "prepare" => /\ p < at[c] => rpc[c]["prepare"][p] = "ok"
                            /\ p > at[c] => rpc[c]["prepare"][p] = "none"
    /\ pc[c] \in {"start", "created", "prepare", "abort"} => rpc[c]["commit"][p] = "none"
    /\ pc[c] = "commit" => /\ rpc[c]["prepare"][p] = "ok"
                           /\ p < at[c] => rpc[c]["commit"][p] = "ok"
                           /\ p > at[c] => rpc[c]["commit"][p] = "none"
    /\ pc[c] = "returned" => rpc[c]["commit"][p] = "ok"
    /\ \A q \in Participants : rpc[c]["commit"][q] # "none" =>
         rpc[c]["prepare"][p] = "ok" /\ rpc[c]["abort"][p] = "none"
    /\ pc[c] \in {"start", "created", "prepare", "commit", "returned"} =>
         rpc[c]["abort"][p] = "none"
    /\ pc[c] = "abort" /\ p <= at[c] => rpc[c]["prepare"][p] = "ok"
    /\ pc[c] = "abort" /\ p < at[c] => rpc[c]["abort"][p] = "none"
    /\ rpc[c]["abort"][p] # "none" => rpc[c]["prepare"][p] = "ok"

(* What was decided is logged last.                                        *)
LogFollows(c) ==
  /\ txlog[c] = "COMMITTED" => pc[c] = "returned"
  /\ txlog[c] = "ABORTED" =>
       pc[c] = "failed" /\ \A p \in Participants : rpc[c]["commit"][p] = "none"

(* A vote in favour leaves a row, and so does a commit if statements do    *)
(* not fail.                                                               *)
RowsFollow(c) ==
  \A p \in Participants :
    /\ rpc[c]["prepare"][p] = "ok" => business[p][c] # "none"
    /\ "db" \notin faults /\ rpc[c]["commit"][p] = "ok" => business[p][c] = "COMMITTED"

(* Participant p holds nothing for c and will not.                         *)
Released(c, p) ==
  /\ business[p][c] \in {"none", "ABORTED"}
  /\ rpc[c]["prepare"][p] # "open"
  /\ rpc[c]["commit"][p] = "none"

(* When neither statements nor calls nor contexts fail, a vote against is  *)
(* the only reason to abort; the participants behind the one that is being *)
(* aborted have been released.                                             *)
Quiet == {"db", "call", "ctx"} \cap faults = {}
QuietAborts(c) ==
  /\ ctx[c] = "live"
  /\ \A p \in Participants :
       /\ rpc[c]["prepare"][p] \in {"none", "open", "no"} => business[p][c] = "none"
       /\ rpc[c]["abort"][p] = "ok" => business[p][c] = "ABORTED"
       /\ pc[c] = "abort" /\ p > at[c] => Released(c, p)
       /\ txlog[c] = "ABORTED" => Released(c, p)

TxInv(c) ==
  /\ CallsFollow(c)
  /\ LogFollows(c)
  /\ RowsFollow(c)
  /\ Quiet => QuietAborts(c)

Inv == TypeOK /\ \A c \in Checkout : TxInv(c)

LEMMA InitInv == Init => Inv
<1> SUFFICES ASSUME Init PROVE Inv
  OBVIOUS
<1>1. /\ \A c \in Checkout, a \in Action, p \in Participants : rpc[c][a][p] = "none"
      /\ \A p \in Participants, t \in TxID : business[p][t] = "none"
      /\ \A c \in Checkout : pc[c] = "start" /\ txlog[c] = "none" /\ ctx[c] = "live"
  BY DEF Init, ParticipantInit
<1>2. TypeOK
  BY RequestAssumption DEF Init, TypeOK, ParticipantInit, ParticipantTypeOK, CallState, RowStatus,
     LogStatus, PC, TxID
<1>3. \A c \in Checkout : TxInv(c)
  <2> SUFFICES ASSUME NEW c \in Checkout PROVE TxInv(c)
    OBVIOUS
  <2>1. CallsFollow(c) /\ LogFollows(c)
    BY <1>1 DEF CallsFollow, LogFollows, Action
  <2>2. RowsFollow(c) /\ QuietAborts(c)
    BY <1>1 DEF RowsFollow, QuietAborts, Action, TxID
  <2> QED BY <2>1, <2>2 DEF TxInv
<1> QED BY <1>2, <1>3 DEF Inv

-----------------------------------------------------------------------------
(* Steps of one transaction leave the others alone.                        *)

Stays(c) ==
  /\ pc'[c] = pc[c] /\ at'[c] = at[c] /\ ctx'[c] = ctx[c] /\ txlog'[c] = txlog[c]
  /\ \A a \in Action, p \in Participants : rpc'[c][a][p] = rpc[c][a][p]
  /\ \A p \in Participants : business'[p][c] = business[p][c]

LEMMA OthersStay ==
  ASSUME NEW c \in Checkout, TxInv(c), Stays(c), faults' = faults
  PROVE  TxInv(c)'
<1>1. "prepare" \in Action /\ "commit" \in Action /\ "abort" \in Action
  BY DEF Action
<1>2. CallsFollow(c)' /\ LogFollows(c)' /\ RowsFollow(c)'
  BY <1>1 DEF TxInv, CallsFollow, LogFollows, RowsFollow, Stays
<1>3. Quiet' => QuietAborts(c)'
  BY <1>1 DEF TxInv, QuietAborts, Quiet, Released, Stays
<1> QED BY <1>2, <1>3 DEF TxInv

(* A transaction's own steps: what they need to keep the invariant.        *)
LEMMA OneTransactionMoves ==
  ASSUME Inv, NEW c \in Checkout, TypeOK', TxInv(c)', faults' = faults,
         \A d \in Checkout \ {c} : Stays(d)
  PROVE  Inv'
<1>1. \A d \in Checkout : TxInv(d)'
  BY OthersStay DEF Inv
<1> QED BY <1>1 DEF Inv

-----------------------------------------------------------------------------
(* The steps of the participants, and the calls made to them.              *)

LEMMA TxOfIsTx == \A c \in Checkout : TxOf(c) = c /\ c \in TxID
  BY LibraryAssumption DEF TxOf, TxID

LEMMA CallsStay ==
  ASSUME NEW c \in Checkout, NEW a \in Action, NEW p \in Participants, NEW From, NEW To,
         CallMoves(c, a, p, From, To), RowMoves(business, business', p, c), UNCHANGED engineVars
  PROVE  faults' = faults /\ \A d \in Checkout \ {c} : Stays(d)
  BY TxOfIsTx DEF CallMoves, RowMoves, Stays, engineVars

LEMMA PrepareKeepsInv ==
  ASSUME Inv, NEW c \in Checkout, NEW p \in Participants,
         HandlePrepare(c, p), UNCHANGED engineVars
  PROVE  Inv'
<1>1. /\ TypeOK /\ TxInv(c) /\ "prepare" \in Action /\ "commit" \in Action /\ "abort" \in Action
      /\ TxOf(c) = c /\ c \in TxID
  BY TxOfIsTx DEF Inv, Action
<1>2. /\ ParticipantTypeOK'
      /\ CallMoves(c, "prepare", p, {"open"}, {"ok", "no"})
      /\ RowMoves(business, business', p, c)
      /\ \/ rpc'[c]["prepare"][p] = "no" /\ business' = business
         \/ /\ business'[p][c] = IF business[p][c] = "none" THEN "PREPARED" ELSE business[p][c]
            /\ "db" \notin faults => rpc'[c]["prepare"][p] = "ok"
  BY <1>1, PrepareEffect DEF TypeOK
<1>3. TypeOK'
  BY <1>1, <1>2 DEF TypeOK, engineVars
<1>4. /\ \A q \in Participants : /\ rpc'[c]["commit"][q] = rpc[c]["commit"][q]
                                 /\ rpc'[c]["abort"][q] = rpc[c]["abort"][q]
      /\ \A q \in Participants \ {p} : /\ rpc'[c]["prepare"][q] = rpc[c]["prepare"][q]
                                       /\ business'[q][c] = business[q][c]
      /\ rpc[c]["prepare"][p] = "open" /\ rpc'[c]["prepare"][p] \in {"ok", "no"}
      /\ UNCHANGED <<txlog, pc, at, ctx, faults>>
  BY <1>1, <1>2 DEF CallMoves, RowMoves, engineVars
<1>5. \A q \in Participants : rpc[c]["commit"][q] = "none"
  BY <1>1, <1>4 DEF TxInv, CallsFollow
<1>6. CallsFollow(c)' /\ LogFollows(c)'
  BY <1>1, <1>4, <1>5 DEF TxInv, CallsFollow, LogFollows
<1>7. RowsFollow(c)'
  BY <1>1, <1>2, <1>4, <1>5 DEF TxInv, RowsFollow
<1>8. Quiet' => QuietAborts(c)'
  <2>1. rpc[c]["abort"][p] = "none"
    BY <1>1, <1>4 DEF TxInv, CallsFollow
  <2>2. ~Released(c, p)
    BY <1>4 DEF Released
  <2>3. \A q \in Participants \ {p} : Released(c, q) => Released(c, q)'
    BY <1>4 DEF Released
  <2> QED BY <1>1, <1>2, <1>4, <2>1, <2>2, <2>3 DEF TxInv, QuietAborts, Quiet
<1> QED BY <1>1, <1>2, <1>3, <1>6, <1>7, <1>8, CallsStay, OneTransactionMoves DEF TxInv

(* A call that goes on without touching a business row.                    *)
LEMMA CallKeepsInv ==
  ASSUME Inv, NEW c \in Checkout, NEW a \in Action, NEW p \in Participants,
         NEW From, NEW To, CallMoves(c, a, p, From, To),
         From \subseteq {"open", "half"}, To \subseteq {"half", "lost"},
         a = "prepare" => To = {"lost"},
         ParticipantTypeOK', UNCHANGED <<business, engineVars>>
  PROVE  Inv'
<1>1. /\ TypeOK /\ TxInv(c) /\ "prepare" \in Action /\ "commit" \in Action /\ "abort" \in Action
  BY DEF Inv, Action
<1>2. TypeOK'
  BY <1>1 DEF TypeOK, engineVars
<1>3. /\ \A b \in Action, q \in Participants :
           /\ rpc'[c][b][q] = "none" <=> rpc[c][b][q] = "none"
           /\ rpc[c][b][q] = "ok" <=> rpc'[c][b][q] = "ok"
           /\ rpc'[c][b][q] = "no" => rpc[c][b][q] = "no"
           /\ rpc'[c][b][q] = "open" => rpc[c][b][q] = "open"
      /\ \A q \in Participants : rpc'[c]["prepare"][q] = "half" => rpc[c]["prepare"][q] = "half"
      /\ UNCHANGED <<txlog, pc, at, ctx, faults>>
  BY <1>1 DEF CallMoves, engineVars
<1>4. CallsFollow(c)' /\ LogFollows(c)' /\ RowsFollow(c)'
  BY <1>1, <1>3 DEF TxInv, CallsFollow, LogFollows, RowsFollow
<1>5. Quiet' => QuietAborts(c)'
  BY <1>1, <1>3 DEF TxInv, QuietAborts, Quiet, Released
<1>6. RowMoves(business, business', p, c)
  BY DEF RowMoves
<1> QED BY <1>1, <1>2, <1>3, <1>4, <1>5, <1>6, CallsStay, OneTransactionMoves DEF TxInv

LEMMA UpdateBusinessKeepsInv ==
  ASSUME Inv, NEW c \in Checkout, NEW a \in Action, NEW p \in Participants,
         UpdateBusiness(c, a, p), UNCHANGED engineVars
  PROVE  Inv'
<1>1. /\ TypeOK /\ TxInv(c) /\ "prepare" \in Action /\ "commit" \in Action /\ "abort" \in Action
      /\ TxOf(c) = c /\ c \in TxID
  BY TxOfIsTx DEF Inv, Action
<1>2. /\ ParticipantTypeOK'
      /\ CallMoves(c, a, p, {"half"}, {"ok"})
      /\ RowMoves(business, business', p, c)
      /\ \/ "db" \in faults /\ UNCHANGED business
         \/ business'[p][c] = IF business[p][c] = "none" THEN "none" ELSE FinalStatus(a)
  BY <1>1, UpdateBusinessEffect DEF TypeOK
<1>3. TypeOK'
  BY <1>1, <1>2 DEF TypeOK, engineVars
<1>4. /\ \A b \in Action, q \in Participants : (b = a /\ q = p) \/ rpc'[c][b][q] = rpc[c][b][q]
      /\ \A q \in Participants \ {p} : business'[q][c] = business[q][c]
      /\ rpc[c][a][p] = "half" /\ rpc'[c][a][p] = "ok"
      /\ UNCHANGED <<txlog, pc, at, ctx, faults>>
  BY <1>1, <1>2 DEF CallMoves, RowMoves, engineVars
<1>5. a \in {"commit", "abort"} /\ rpc[c]["prepare"][p] = "ok" /\ business[p][c] # "none"
  BY <1>1, <1>4 DEF TxInv, CallsFollow, RowsFollow, Action
<1>6. business'[p][c] # "none" /\ ("db" \notin faults => business'[p][c] = FinalStatus(a))
  BY <1>2, <1>5, FinalStatusType
<1>7. CallsFollow(c)' /\ LogFollows(c)'
  BY <1>1, <1>4, <1>5 DEF TxInv, CallsFollow, LogFollows
<1>8. CASE a = "commit"
  <2>1. \A q \in Participants : rpc[c]["abort"][q] = "none" /\ rpc[c]["prepare"][q] = "ok"
    BY <1>1, <1>4, <1>8 DEF TxInv, CallsFollow
  <2>2. RowsFollow(c)'
    BY <1>1, <1>4, <1>6, <1>8 DEF TxInv, RowsFollow, FinalStatus
  <2>3. Quiet' => QuietAborts(c)'
    <3>1. pc[c] # "abort" /\ txlog[c] # "ABORTED"
      BY <1>1, <1>4, <1>8 DEF TxInv, CallsFollow, LogFollows
    <3> QED BY <1>1, <1>4, <1>8, <2>1, <3>1 DEF TxInv, QuietAborts, Quiet
  <2> QED BY <1>1, <1>2, <1>3, <1>4, <1>7, <2>2, <2>3, CallsStay, OneTransactionMoves DEF TxInv
<1>9. CASE a = "abort"
  <2>1. \A q \in Participants : rpc[c]["commit"][q] = "none"
    BY <1>1, <1>4, <1>9 DEF TxInv, CallsFollow
  <2>2. RowsFollow(c)'
    BY <1>1, <1>4, <1>6, <1>9, <2>1 DEF TxInv, RowsFollow
  <2>3. Quiet' => QuietAborts(c)'
    <3>1. Quiet' => Quiet /\ business'[p][c] = "ABORTED"
      BY <1>4, <1>6, <1>9 DEF Quiet, FinalStatus
    <3>2. \A q \in Participants : Quiet' /\ Released(c, q) => Released(c, q)'
      BY <1>1, <1>4, <1>9, <3>1 DEF Released
    <3> QED BY <1>1, <1>4, <1>5, <1>9, <3>1, <3>2 DEF TxInv, QuietAborts
  <2> QED BY <1>1, <1>2, <1>3, <1>4, <1>7, <2>2, <2>3, CallsStay, OneTransactionMoves DEF TxInv
<1> QED BY <1>5, <1>8, <1>9

LEMMA SendKeepsInv ==
  ASSUME Inv, NEW c \in Checkout, NEW a \in Action, NEW p \in Participants,
         CallParticipant(c, a, p)
  PROVE  Inv'
<1>1. /\ TypeOK /\ TxInv(c) /\ "prepare" \in Action /\ "commit" \in Action /\ "abort" \in Action
      /\ pc[c] = a /\ at[c] = p /\ UNCHANGED engineVars
  BY DEF Inv, Action, CallParticipant, Calling
<1>2. /\ ParticipantTypeOK'
      /\ CallMoves(c, a, p, {"none"}, {"open"})
      /\ business' = business
  BY <1>1, SendEffect DEF CallParticipant, TypeOK
<1>3. TypeOK'
  BY <1>1, <1>2 DEF TypeOK, engineVars
<1>4. /\ \A b \in Action, q \in Participants : (b = a /\ q = p) \/ rpc'[c][b][q] = rpc[c][b][q]
      /\ rpc[c][a][p] = "none" /\ rpc'[c][a][p] = "open"
      /\ UNCHANGED <<txlog, pc, at, ctx, faults>>
      /\ p \in Nat
  BY <1>1, <1>2, RequestAssumption DEF CallMoves, engineVars, Participants
<1>5. CallsFollow(c)' /\ LogFollows(c)'
  <2>1. CASE a = "prepare"
    BY <1>1, <1>4, <2>1 DEF TxInv, CallsFollow, LogFollows
  <2>2. CASE a = "commit"
    BY <1>1, <1>4, <2>2 DEF TxInv, CallsFollow, LogFollows
  <2>3. CASE a = "abort"
    BY <1>1, <1>4, <2>3 DEF TxInv, CallsFollow, LogFollows
  <2> QED BY <2>1, <2>2, <2>3 DEF Action
<1>6. RowsFollow(c)'
  BY <1>1, <1>2, <1>4 DEF TxInv, RowsFollow
<1>7. Quiet' => QuietAborts(c)'
  <2>1. txlog[c] # "ABORTED"
    BY <1>1 DEF TxInv, LogFollows, Action
  <2>2. \A q \in Participants : pc[c] = "abort" /\ Released(c, q) => Released(c, q)'
    BY <1>1, <1>2, <1>4 DEF Released
  <2> QED BY <1>1, <1>2, <1>4, <2>1, <2>2 DEF TxInv, QuietAborts, Quiet
<1>8. RowMoves(business, business', p, c)
  BY <1>2 DEF RowMoves
<1> QED BY <1>1, <1>2, <1>3, <1>4, <1>5, <1>6, <1>7, <1>8, CallsStay, OneTransactionMoves DEF TxInv

LEMMA ParticipantKeepsInv ==
  ASSUME Inv, NEW c \in Checkout, NEW a \in Action, NEW p \in Participants,
         ParticipantStep(c, a, p)
  PROVE  Inv'
<1>1. ParticipantTypeOK /\ UNCHANGED engineVars
  BY DEF Inv, TypeOK, ParticipantStep
<1>2. CASE HandlePrepare(c, p)
  BY <1>1, <1>2, PrepareKeepsInv
<1>3. CASE UpdatePrepared(c, a, p)
  <2>1. /\ ParticipantTypeOK' /\ CallMoves(c, a, p, {"open"}, {"half"}) /\ business' = business
        /\ a # "prepare"
    BY <1>1, <1>3, UpdatePreparedEffect
  <2> QED BY <1>1, <2>1, CallKeepsInv
<1>4. CASE UpdateBusiness(c, a, p)
  BY <1>1, <1>4, UpdateBusinessKeepsInv
<1>5. CASE Lose(c, a, p)
  <2>1. /\ ParticipantTypeOK' /\ CallMoves(c, a, p, {"open", "half"}, {"lost"})
        /\ business' = business
    BY <1>1, <1>5, LoseEffect
  <2> QED BY <1>1, <2>1, CallKeepsInv
<1> QED BY <1>2, <1>3, <1>4, <1>5 DEF ParticipantStep, Handler

-----------------------------------------------------------------------------
(* The steps of Execute.                                                   *)

(* Only c moves, and no call or row does.                                  *)
OnlyMoves(c) ==
  /\ UNCHANGED <<rpc, business, faults>>
  /\ \A d \in Checkout \ {c} :
       pc'[d] = pc[d] /\ at'[d] = at[d] /\ ctx'[d] = ctx[d] /\ txlog'[d] = txlog[d]

LEMMA MoveKeepsInv ==
  ASSUME Inv, NEW c \in Checkout, OnlyMoves(c), TypeOK',
         CallsFollow(c)', LogFollows(c)', Quiet => QuietAborts(c)'
  PROVE  Inv'
<1>1. faults' = faults /\ \A d \in Checkout \ {c} : Stays(d)
  BY DEF OnlyMoves, Stays
<1>2. RowsFollow(c)' /\ (Quiet' => Quiet)
  BY DEF Inv, TxInv, RowsFollow, OnlyMoves, Quiet
<1> QED BY <1>1, <1>2, OneTransactionMoves DEF TxInv

LEMMA SetStatusEffect ==
  ASSUME TypeOK, NEW c \in Checkout, NEW status \in LogStatus, SetStatus(c, status)
  PROVE  /\ txlog' \in [Checkout -> LogStatus] /\ txlog'[c] \in {txlog[c], status}
         /\ \A d \in Checkout \ {c} : txlog'[d] = txlog[d]
  BY DEF SetStatus, TypeOK

(* The steps that log or end something.                                    *)
LEMMA WritesKeepInv ==
  ASSUME Inv, NEW c \in Checkout,
         \/ Create(c) \/ MarkPreparing(c) \/ MarkCommitting(c) \/ MarkCommitted(c)
         \/ MarkAborted(c) \/ ExpireCtx(c) \/ Crash(c)
  PROVE  Inv'
<1> USE DEF Create, MarkPreparing, MarkCommitting, MarkCommitted, MarkAborted, ExpireCtx, Crash
<1>1. TypeOK /\ CallsFollow(c) /\ LogFollows(c) /\ (Quiet => QuietAborts(c))
  BY DEF Inv, TxInv
<1>2. UNCHANGED <<rpc, prepared, business, holder, faults>>
  BY DEF participantVars
<1>3. N \in Nat /\ \A p \in Participants : p \in Nat /\ p > 0 /\ p < N + 1
  BY RequestAssumption DEF Participants
<1>4. /\ txlog' \in [Checkout -> LogStatus]
      /\ \A d \in Checkout \ {c} : txlog'[d] = txlog[d]
      /\ txlog'[c] = "COMMITTED" => txlog[c] = "COMMITTED" \/ MarkCommitted(c)
      /\ txlog'[c] = "ABORTED" => txlog[c] = "ABORTED" \/ MarkAborted(c)
  <2>1. CASE Create(c)
    BY <1>1, <2>1 DEF TypeOK, LogStatus
  <2>2. CASE MarkPreparing(c) \/ MarkCommitting(c) \/ MarkCommitted(c) \/ MarkAborted(c)
    BY <1>1, <2>2, SetStatusEffect DEF LogStatus
  <2>3. CASE ExpireCtx(c) \/ Crash(c)
    BY <1>1, <2>3 DEF TypeOK
  <2> QED BY <2>1, <2>2, <2>3
<1>5. /\ pc' \in [Checkout -> PC] /\ at' \in [Checkout -> 0..(N + 1)]
      /\ ctx' \in [Checkout -> {"live", "dead"}]
      /\ \A d \in Checkout \ {c} : pc'[d] = pc[d] /\ at'[d] = at[d] /\ ctx'[d] = ctx[d]
  <2>1. 0 \in 0..(N + 1) /\ 1 \in 0..(N + 1)
    BY <1>3
  <2>2. CASE ExpireCtx(c) \/ Crash(c)
    BY <1>1, <2>2 DEF TypeOK, PC, Finished, Goto
  <2>3. CASE MarkPreparing(c) \/ MarkCommitting(c)
    BY <1>1, <2>1, <2>3 DEF TypeOK, PC, Finished, Goto, Move
  <2>4. CASE Create(c) \/ MarkCommitted(c) \/ MarkAborted(c)
    BY <1>1, <2>4 DEF TypeOK, PC, Finished, Goto
  <2> QED BY <2>2, <2>3, <2>4
<1>6. TypeOK' /\ OnlyMoves(c)
  BY <1>1, <1>2, <1>4, <1>5 DEF TypeOK, ParticipantTypeOK, OnlyMoves
<1>7. CASE Create(c)
  <2>1. pc[c] = "start" /\ pc'[c] \in {"created", "failed"} /\ ctx'[c] = ctx[c]
    BY <1>1, <1>7 DEF TypeOK, Goto
  <2>2. txlog'[c] # "COMMITTED" /\ txlog'[c] # "ABORTED"
    BY <1>1, <1>4, <1>7, <2>1 DEF LogFollows, MarkCommitted, MarkAborted
  <2> HIDE DEF Create
  <2>3. CallsFollow(c)'
    BY <1>1, <1>2, <2>1 DEF CallsFollow
  <2>4. LogFollows(c)' /\ (Quiet => QuietAborts(c)')
    BY <1>1, <1>2, <2>1, <2>2 DEF LogFollows, QuietAborts
  <2> QED BY <1>6, <2>3, <2>4, MoveKeepsInv
<1>8. CASE MarkPreparing(c)
  <2>1. pc[c] = "created" /\ pc'[c] = "prepare" /\ at'[c] = 1 /\ ctx'[c] = ctx[c]
    BY <1>1, <1>8 DEF TypeOK, Goto, Move
  <2>2. txlog'[c] # "COMMITTED" /\ txlog'[c] # "ABORTED"
    BY <1>1, <1>4, <2>1 DEF LogFollows, MarkCommitted, MarkAborted
  <2> HIDE DEF MarkPreparing
  <2>3. CallsFollow(c)'
    BY <1>1, <1>2, <1>3, <2>1 DEF CallsFollow
  <2>4. LogFollows(c)' /\ (Quiet => QuietAborts(c)')
    BY <1>1, <1>2, <2>1, <2>2 DEF LogFollows, QuietAborts
  <2> QED BY <1>6, <2>3, <2>4, MoveKeepsInv
<1>9. CASE MarkCommitting(c)
  <2>1. /\ pc[c] = "prepare" /\ at[c] = N + 1
        /\ pc'[c] = "commit" /\ at'[c] = 1 /\ ctx'[c] = ctx[c]
    BY <1>1, <1>9 DEF TypeOK, Goto, Move
  <2>2. txlog'[c] # "COMMITTED" /\ txlog'[c] # "ABORTED"
    BY <1>1, <1>4, <2>1 DEF LogFollows, MarkCommitted, MarkAborted
  <2> HIDE DEF MarkCommitting
  <2>3. CallsFollow(c)'
    BY <1>1, <1>2, <1>3, <2>1 DEF CallsFollow
  <2>4. LogFollows(c)' /\ (Quiet => QuietAborts(c)')
    BY <1>1, <1>2, <2>1, <2>2 DEF LogFollows, QuietAborts
  <2> QED BY <1>6, <2>3, <2>4, MoveKeepsInv
<1>10. CASE MarkCommitted(c)
  <2>1. /\ pc[c] = "commit" /\ at[c] = N + 1
        /\ pc'[c] = "returned" /\ ctx'[c] = ctx[c]
    BY <1>1, <1>10 DEF TypeOK, Goto
  <2>2. txlog'[c] # "ABORTED"
    BY <1>1, <1>4, <2>1 DEF LogFollows, MarkAborted
  <2> HIDE DEF MarkCommitted
  <2>3. CallsFollow(c)'
    BY <1>1, <1>2, <1>3, <2>1 DEF CallsFollow
  <2>4. LogFollows(c)' /\ (Quiet => QuietAborts(c)')
    BY <1>1, <1>2, <2>1, <2>2 DEF LogFollows, QuietAborts
  <2> QED BY <1>6, <2>3, <2>4, MoveKeepsInv
<1>11. CASE MarkAborted(c)
  <2>1. /\ pc[c] = "abort" /\ at[c] = 0
        /\ pc'[c] = "failed" /\ ctx'[c] = ctx[c]
    BY <1>1, <1>11 DEF TypeOK, Goto
  <2>2. txlog'[c] # "COMMITTED"
    BY <1>1, <1>4, <2>1 DEF LogFollows, MarkCommitted
  <2> HIDE DEF MarkAborted
  <2>3. CallsFollow(c)' /\ LogFollows(c)'
    BY <1>1, <1>2, <1>3, <2>1, <2>2 DEF CallsFollow, LogFollows
  <2>4. Quiet => \A p \in Participants : Released(c, p) /\ Released(c, p)'
    BY <1>1, <1>2, <1>3, <2>1 DEF QuietAborts, Released
  <2>5. Quiet => QuietAborts(c)'
    BY <1>1, <1>2, <2>1, <2>4 DEF QuietAborts
  <2> QED BY <1>6, <2>3, <2>5, MoveKeepsInv
<1>12. CASE ExpireCtx(c)
  <2>1. pc'[c] = pc[c] /\ at'[c] = at[c] /\ txlog'[c] = txlog[c] /\ ~Quiet
    BY <1>12 DEF Quiet
  <2> HIDE DEF ExpireCtx
  <2>2. CallsFollow(c)' /\ LogFollows(c)'
    BY <1>1, <1>2, <2>1 DEF CallsFollow, LogFollows
  <2> QED BY <1>6, <2>1, <2>2, MoveKeepsInv
<1>13. CASE Crash(c)
  <2>1. /\ pc[c] \notin Finished /\ pc'[c] = "crashed" /\ ctx'[c] = ctx[c]
        /\ txlog'[c] = txlog[c]
    BY <1>1, <1>13 DEF TypeOK, Goto
  <2> HIDE DEF Crash
  <2>2. CallsFollow(c)' /\ LogFollows(c)'
    BY <1>1, <1>2, <2>1 DEF CallsFollow, LogFollows, Finished
  <2>3. txlog[c] # "ABORTED"
    BY <1>1, <2>1 DEF LogFollows, Finished
  <2>4. Quiet => QuietAborts(c)'
    BY <1>1, <1>2, <2>1, <2>3 DEF QuietAborts
  <2> QED BY <1>6, <2>2, <2>4, MoveKeepsInv
<1> QED BY <1>7, <1>8, <1>9, <1>10, <1>11, <1>12, <1>13

(* The steps that follow a call.                                           *)
LEMMA ReturnsKeepInv ==
  ASSUME Inv, NEW c \in Checkout, NEW p \in Participants, NEW a \in Action,
         CallSucceeds(c, a, p) \/ PrepareFails(c, p) \/ AbortReturns(c, p) \/ CommitFails(c, p)
  PROVE  Inv'
<1> USE DEF CallSucceeds, PrepareFails, AbortReturns, CommitFails, Calling
<1>1. TypeOK /\ CallsFollow(c) /\ LogFollows(c) /\ (Quiet => QuietAborts(c))
  BY DEF Inv, TxInv
<1>2. UNCHANGED <<rpc, prepared, business, holder, faults, ctx>>
  BY DEF participantVars
<1>3. N \in Nat /\ at[c] = p /\ \A q \in Participants : q \in Nat /\ q > 0 /\ q < N + 1
  BY RequestAssumption DEF Participants
<1>4. /\ txlog' \in [Checkout -> LogStatus]
      /\ \A d \in Checkout \ {c} : txlog'[d] = txlog[d]
      /\ txlog'[c] \in {txlog[c], "ABORTING"}
  <2>1. CASE PrepareFails(c, p)
    BY <1>1, <2>1, SetStatusEffect DEF LogStatus
  <2>2. CASE ~PrepareFails(c, p)
    BY <1>1, <2>2 DEF TypeOK
  <2> QED BY <2>1, <2>2
<1>5. txlog'[c] # "COMMITTED" /\ txlog'[c] # "ABORTED"
  BY <1>1, <1>4 DEF LogFollows
<1>6. /\ pc' \in [Checkout -> PC] /\ at' \in [Checkout -> 0..(N + 1)]
      /\ \A d \in Checkout \ {c} : pc'[d] = pc[d] /\ at'[d] = at[d]
  <2>1. p - 1 \in 0..(N + 1) /\ p + 1 \in 0..(N + 1)
    BY <1>3
  <2> QED BY <1>1, <2>1 DEF TypeOK, PC, Finished, Goto, Move
<1>7. TypeOK' /\ OnlyMoves(c)
  BY <1>1, <1>2, <1>4, <1>6 DEF TypeOK, ParticipantTypeOK, OnlyMoves
<1>8. LogFollows(c)'
  BY <1>5 DEF LogFollows
<1>9. CASE CallSucceeds(c, a, p)
  <2>1. /\ a \in {"prepare", "commit"} /\ pc[c] = a /\ rpc[c][a][p] = "ok"
        /\ pc'[c] = a /\ at'[c] = p + 1
    BY <1>1, <1>9 DEF TypeOK, Goto, Move
  <2> HIDE DEF CallSucceeds
  <2>2. CASE a = "prepare"
    BY <1>1, <1>2, <1>3, <1>5, <1>7, <1>8, <2>1, <2>2, MoveKeepsInv DEF CallsFollow, QuietAborts
  <2>3. CASE a = "commit"
    BY <1>1, <1>2, <1>3, <1>5, <1>7, <1>8, <2>1, <2>3, MoveKeepsInv DEF CallsFollow, QuietAborts
  <2> QED BY <2>1, <2>2, <2>3
<1>10. CASE PrepareFails(c, p)
  <2>1. pc[c] = "prepare" /\ CallError(c, "prepare", p) /\ pc'[c] = "abort" /\ at'[c] = p - 1
    BY <1>1, <1>10 DEF TypeOK, Goto, Move
  <2> HIDE DEF PrepareFails
  <2>2. CallsFollow(c)'
    BY <1>1, <1>2, <1>3, <2>1 DEF CallsFollow
  <2>3. ASSUME Quiet, NEW q \in Participants, q > p - 1 PROVE Released(c, q)'
    <3>1. rpc[c]["prepare"][p] = "no"
      BY <1>1, <2>1, <2>3 DEF CallError, QuietAborts, Quiet
    <3>2. rpc[c]["prepare"][q] \in {"none", "no"} /\ rpc[c]["commit"][q] = "none"
      BY <1>1, <1>3, <2>1, <2>3, <3>1 DEF CallsFollow
    <3> QED BY <1>1, <1>2, <2>3, <3>2 DEF QuietAborts, Released
  <2>4. Quiet => QuietAborts(c)'
    BY <1>1, <1>2, <1>5, <2>1, <2>3 DEF QuietAborts
  <2> QED BY <1>7, <1>8, <2>2, <2>4, MoveKeepsInv
<1>11. CASE AbortReturns(c, p)
  <2>1. /\ pc[c] = "abort" /\ pc'[c] = "abort" /\ at'[c] = p - 1
        /\ rpc[c]["abort"][p] = "ok" \/ CallError(c, "abort", p)
    BY <1>1, <1>11 DEF TypeOK, Goto, Move
  <2> HIDE DEF AbortReturns
  <2>2. CallsFollow(c)'
    BY <1>1, <1>2, <1>3, <2>1 DEF CallsFollow
  <2>3. ASSUME Quiet, NEW q \in Participants, q > p - 1 PROVE Released(c, q)'
    <3>1. CASE q = p
      <4>1. rpc[c]["abort"][p] = "ok"
        BY <1>1, <2>1, <2>3 DEF CallError, QuietAborts, Quiet, CallsFollow
      <4>2. business[p][c] = "ABORTED"
        BY <1>1, <2>3, <4>1 DEF QuietAborts
      <4>3. rpc[c]["prepare"][p] = "ok" /\ rpc[c]["commit"][p] = "none"
        BY <1>1, <2>1, <4>1 DEF CallsFollow
      <4> QED BY <1>2, <3>1, <4>2, <4>3 DEF Released
    <3>2. CASE q # p
      <4>1. q > at[c]
        BY <1>3, <2>3, <3>2
      <4> QED BY <1>1, <1>2, <2>1, <2>3, <4>1 DEF QuietAborts, Released
    <3> QED BY <3>1, <3>2
  <2>4. Quiet => QuietAborts(c)'
    BY <1>1, <1>2, <1>5, <2>1, <2>3 DEF QuietAborts
  <2> QED BY <1>7, <1>8, <2>2, <2>4, MoveKeepsInv
<1>12. CASE CommitFails(c, p)
  <2>1. pc[c] = "commit" /\ pc'[c] = "failed"
    BY <1>1, <1>12 DEF TypeOK, Goto
  <2> HIDE DEF CommitFails
  <2>2. CallsFollow(c)' /\ (Quiet => QuietAborts(c)')
    BY <1>1, <1>2, <1>5, <2>1 DEF CallsFollow, QuietAborts
  <2> QED BY <1>7, <1>8, <2>2, MoveKeepsInv
<1> QED BY <1>9, <1>10, <1>11, <1>12

LEMMA NextInv == Inv /\ [Next]_vars => Inv'
<1> SUFFICES ASSUME Inv, [Next]_vars PROVE Inv'
  OBVIOUS
<1>1. CASE UNCHANGED vars
  <2>1. TypeOK' /\ faults' = faults
    BY <1>1 DEF Inv, TypeOK, ParticipantTypeOK, vars
  <2>2. \A c \in Checkout : Stays(c)
    BY <1>1 DEF Stays, vars
  <2> QED BY <2>1, <2>2, OthersStay DEF Inv
<1>2. ASSUME NEW c \in Checkout, Execute(c) \/ ExpireCtx(c) \/ Crash(c) PROVE Inv'
  <2>1. "abort" \in Action
    BY DEF Action
  <2> QED BY <1>2, <2>1, WritesKeepInv, SendKeepsInv, ReturnsKeepInv DEF Execute
<1> QED BY <1>1, <1>2, ParticipantKeepsInv DEF Next, Terminated

LEMMA Invariance == Spec => []Inv
  BY InitInv, NextInv, PTL DEF Spec

(* When neither statements nor calls nor contexts fail, a transaction that *)
(* is logged ABORTED holds nothing at any of its participants.             *)
THEOREM AbortedReleasesHolds == Spec => []AbortedReleases
<1>1. Inv => AbortedReleases
  BY DEF Inv, TxInv, QuietAborts, Quiet, Released, AbortedReleases
<1> QED BY <1>1, Invariance, PTL

-----------------------------------------------------------------------------
(* The library implements AtomicCheckout, as long as statements do not     *)
(* fail.                                                                   *)

VerdictBar == [c \in Checkout |-> VerdictOf(txlog[c])]

LEMMA VerdictOfValues ==
  /\ VerdictOf("COMMITTED") = "confirmed" /\ VerdictOf("ABORTED") = "rejected"
  /\ \A status \in LogStatus \ {"COMMITTED", "ABORTED"} : VerdictOf(status) = "open"
  BY DEF VerdictOf, LogStatus

(* When one entry of the log moves, one verdict does.                      *)
LEMMA VerdictMoves ==
  ASSUME TypeOK, TypeOK', NEW c \in Checkout, \A d \in Checkout \ {c} : txlog'[d] = txlog[d]
  PROVE  VerdictBar' = [VerdictBar EXCEPT ![c] = VerdictOf(txlog'[c])]
<1>1. \A d \in Checkout : VerdictOf(txlog'[d]) = IF d = c THEN VerdictOf(txlog'[c])
                                                        ELSE VerdictOf(txlog[d])
  OBVIOUS
<1>2. VerdictBar' = [d \in Checkout |-> VerdictOf(txlog'[d])]
  BY DEF VerdictBar
<1> QED BY <1>1, <1>2 DEF VerdictBar

(* A handler writes a row of a transaction that is not committed.          *)
LEMMA RowMaps ==
  ASSUME Inv, NEW c \in Checkout, NEW p \in Participants, txlog' = txlog, pc[c] # "returned",
         business \in [Participants -> [TxID -> RowStatus]],
         RowMoves(business, business', p, c),
         \/ business'[p][c] = business[p][c]
         \/ business[p][c] = "none" /\ business'[p][c] = "PREPARED"
         \/ business[p][c] # "none" /\ business'[p][c] = "ABORTED"
         \/ business'[p][c] = "COMMITTED" /\ \A q \in Participants : business[q][c] # "none"
  PROVE  Promise!Next \/ UNCHANGED <<WorkBar, VerdictBar>>
<1>1. VerdictBar' = VerdictBar
  BY DEF VerdictBar
<1>2. VerdictBar[c] # "confirmed"
  <2>1. txlog[c] \in LogStatus \ {"COMMITTED"}
    BY DEF Inv, TypeOK, TxInv, LogFollows
  <2> QED BY <2>1, VerdictOfValues DEF VerdictBar
<1>3. WorkBar' = [WorkBar EXCEPT ![c][p] = WorkOf(business'[p][c])]
  BY LibraryAssumption, WorkMoves
<1>4. /\ \A q \in Participants : WorkBar[c][q] = WorkOf(business[q][c])
      /\ \A q \in Participants : business[q][c] \in RowStatus
  BY LibraryAssumption, WorkBarAt DEF TxID
<1>5. CASE business'[p][c] = business[p][c]
  <2>1. \A d \in Checkout, q \in Participants : business'[q][TxOf(d)] = business[q][TxOf(d)]
    BY <1>5, TxOfIsTx DEF RowMoves
  <2> QED BY <1>1, <2>1 DEF WorkBar
<1>6. CASE business[p][c] = "none" /\ business'[p][c] = "PREPARED"
  <2>1. WorkBar[c][p] = "absent" /\ WorkBar' = [WorkBar EXCEPT ![c][p] = "held"]
    BY <1>3, <1>4, <1>6, WorkOfValues
  <2>2. Promise!Hold(c, p)
    BY <1>1, <1>2, <2>1 DEF Promise!Hold, WorkBar, VerdictBar
  <2> QED BY <2>2 DEF Promise!Next
<1>7. CASE business[p][c] \in {"PREPARED", "COMMITTED"} /\ business'[p][c] = "ABORTED"
  <2>1. WorkBar[c][p] \in {"held", "done"} /\ WorkBar' = [WorkBar EXCEPT ![c][p] = "undone"]
    BY <1>3, <1>4, <1>7, WorkOfValues
  <2>2. Promise!Undo(c, p)
    BY <1>1, <1>2, <2>1 DEF Promise!Undo, WorkBar, VerdictBar
  <2> QED BY <2>2 DEF Promise!Next
<1>8. CASE /\ business[p][c] \in {"PREPARED", "ABORTED"} /\ business'[p][c] = "COMMITTED"
           /\ \A q \in Participants : business[q][c] # "none"
  <2>1. WorkBar[c][p] \in {"held", "undone"} /\ WorkBar' = [WorkBar EXCEPT ![c][p] = "done"]
    BY <1>3, <1>4, <1>8, WorkOfValues
  <2>2. \A q \in Participants : WorkBar[c][q] # "absent"
    BY <1>4, <1>8, WorkOfValues DEF RowStatus
  <2>3. Promise!Finish(c, p)
    BY <1>1, <1>2, <2>1, <2>2 DEF Promise!Finish, WorkBar, VerdictBar
  <2> QED BY <2>3 DEF Promise!Next
<1> QED BY <1>4, <1>5, <1>6, <1>7, <1>8 DEF RowStatus

LEMMA ParticipantMaps ==
  ASSUME Inv, "db" \notin faults, NEW c \in Checkout, NEW a \in Action, NEW p \in Participants,
         ParticipantStep(c, a, p)
  PROVE  Promise!Next \/ UNCHANGED <<WorkBar, VerdictBar>>
<1>1. /\ ParticipantTypeOK /\ business \in [Participants -> [TxID -> RowStatus]]
      /\ CallsFollow(c) /\ RowsFollow(c) /\ txlog' = txlog
      /\ TxOf(c) = c /\ c \in TxID /\ Action = {"prepare", "commit", "abort"}
  BY TxOfIsTx DEF Inv, TypeOK, ParticipantTypeOK, TxInv, ParticipantStep, engineVars, Action
<1>2. CASE HandlePrepare(c, p)
  <2>1. /\ RowMoves(business, business', p, c) /\ rpc[c]["prepare"][p] = "open"
        /\ \/ business' = business
           \/ business'[p][c] = IF business[p][c] = "none" THEN "PREPARED" ELSE business[p][c]
    BY <1>1, <1>2, PrepareEffect DEF CallMoves
  <2>2. pc[c] # "returned"
    BY <1>1, <2>1 DEF CallsFollow
  <2> QED BY <1>1, <2>1, <2>2, RowMaps
<1>3. CASE UpdatePrepared(c, a, p) \/ Lose(c, a, p)
  <2>1. business' = business
    BY <1>3 DEF UpdatePrepared, Lose
  <2> QED BY <1>1, <2>1 DEF WorkBar, VerdictBar
<1>4. CASE UpdateBusiness(c, a, p)
  <2>1. /\ RowMoves(business, business', p, c) /\ rpc[c][a][p] = "half"
        /\ business'[p][c] = IF business[p][c] = "none" THEN "none" ELSE FinalStatus(a)
    BY <1>1, <1>4, UpdateBusinessEffect DEF CallMoves
  <2>2. pc[c] # "returned" /\ a # "prepare"
    BY <1>1, <2>1 DEF CallsFollow
  <2>3. CASE a = "commit"
    <3>1. \A q \in Participants : business[q][c] # "none"
      BY <1>1, <2>1, <2>3 DEF CallsFollow, RowsFollow
    <3>2. business'[p][c] = "COMMITTED"
      BY <2>1, <2>3, <3>1 DEF FinalStatus
    <3> QED BY <1>1, <2>1, <2>2, <3>1, <3>2, RowMaps
  <2>4. CASE a = "abort"
    <3>1. business'[p][c] = IF business[p][c] = "none" THEN "none" ELSE "ABORTED"
      BY <2>1, <2>4 DEF FinalStatus
    <3> QED BY <1>1, <2>1, <2>2, <3>1, RowMaps
  <2> QED BY <1>1, <2>2, <2>3, <2>4
<1> QED BY <1>2, <1>3, <1>4 DEF ParticipantStep, Handler

(* What is logged last is the verdict.                                     *)
LEMMA ExecuteMaps ==
  ASSUME Inv, Inv', "db" \notin faults, NEW c \in Checkout,
         Execute(c) \/ ExpireCtx(c) \/ Crash(c)
  PROVE  Promise!Next \/ UNCHANGED <<WorkBar, VerdictBar>>
<1>1. /\ TypeOK /\ TypeOK' /\ CallsFollow(c) /\ LogFollows(c) /\ RowsFollow(c)
      /\ N \in Nat /\ \A p \in Participants : p < N + 1
  BY RequestAssumption DEF Inv, TxInv, Participants
<1>2. /\ WorkBar' = WorkBar
      /\ \A p \in Participants : WorkBar[c][p] = WorkOf(business[p][c])
  <2>1. business' = business
    BY DEF Execute, Create, MarkPreparing, MarkCommitting, MarkCommitted, MarkAborted,
       PrepareFails, AbortReturns, CommitFails, CallParticipant, Send, CallSucceeds,
       ExpireCtx, Crash, participantVars
  <2>2. WorkBar' = WorkBar
    BY <2>1 DEF WorkBar
  <2> QED BY <2>2, LibraryAssumption, WorkBarAt
<1>3. txlog' = txlog => VerdictBar' = VerdictBar
  BY DEF VerdictBar
<1>4. CASE MarkCommitted(c)
  <2>1. /\ pc[c] = "commit" /\ at[c] = N + 1
        /\ txlog'[c] \in {txlog[c], "COMMITTED"}
        /\ \A d \in Checkout \ {c} : txlog'[d] = txlog[d]
    BY <1>1, <1>4, SetStatusEffect DEF MarkCommitted, LogStatus
  <2>2. txlog[c] \in LogStatus \ {"COMMITTED", "ABORTED"}
    BY <1>1, <2>1 DEF LogFollows, TypeOK
  <2>3. VerdictBar' = [VerdictBar EXCEPT ![c] = VerdictOf(txlog'[c])]
    BY <1>1, <2>1, VerdictMoves
  <2>4. VerdictBar[c] = "open" /\ VerdictBar = [VerdictBar EXCEPT ![c] = "open"]
    BY <2>2, VerdictOfValues DEF VerdictBar
  <2>5. \A p \in Participants : WorkBar[c][p] = "done"
    BY <1>1, <1>2, <2>1, WorkOfValues DEF CallsFollow, RowsFollow
  <2>6. CASE txlog'[c] = txlog[c]
    <3>1. VerdictOf(txlog'[c]) = "open"
      BY <2>2, <2>6, VerdictOfValues
    <3> QED BY <1>2, <2>3, <2>4, <3>1
  <2>7. CASE txlog'[c] = "COMMITTED"
    <3>1. VerdictBar' = [VerdictBar EXCEPT ![c] = "confirmed"]
      BY <2>3, <2>7, VerdictOfValues
    <3>2. Promise!Confirm(c)
      BY <1>2, <2>4, <2>5, <3>1 DEF Promise!Confirm, WorkBar, VerdictBar
    <3> QED BY <3>2 DEF Promise!Next
  <2> QED BY <2>1, <2>6, <2>7
<1>5. CASE MarkAborted(c)
  <2>1. /\ pc[c] = "abort"
        /\ txlog'[c] \in {txlog[c], "ABORTED"}
        /\ \A d \in Checkout \ {c} : txlog'[d] = txlog[d]
    BY <1>1, <1>5, SetStatusEffect DEF MarkAborted, LogStatus
  <2>2. txlog[c] \in LogStatus \ {"COMMITTED", "ABORTED"}
    BY <1>1, <2>1 DEF LogFollows, TypeOK
  <2>3. VerdictBar' = [VerdictBar EXCEPT ![c] = VerdictOf(txlog'[c])]
    BY <1>1, <2>1, VerdictMoves
  <2>4. VerdictBar[c] = "open" /\ VerdictBar = [VerdictBar EXCEPT ![c] = "open"]
    BY <2>2, VerdictOfValues DEF VerdictBar
  <2>5. CASE txlog'[c] = txlog[c]
    <3>1. VerdictOf(txlog'[c]) = "open"
      BY <2>2, <2>5, VerdictOfValues
    <3> QED BY <1>2, <2>3, <2>4, <3>1
  <2>6. CASE txlog'[c] = "ABORTED"
    <3>1. VerdictBar' = [VerdictBar EXCEPT ![c] = "rejected"]
      BY <2>3, <2>6, VerdictOfValues
    <3>2. Promise!Reject(c)
      BY <1>2, <2>4, <3>1 DEF Promise!Reject, WorkBar, VerdictBar
    <3> QED BY <3>2 DEF Promise!Next
  <2> QED BY <2>1, <2>5, <2>6
<1>6. ASSUME \/ Create(c) \/ MarkPreparing(c) \/ MarkCommitting(c)
             \/ \E p \in Participants : PrepareFails(c, p)
      PROVE  VerdictBar' = VerdictBar
  <2>1. pc[c] \notin {"returned", "failed"}
    BY <1>6 DEF Create, MarkPreparing, MarkCommitting, PrepareFails, Calling
  <2>2. txlog[c] \in LogStatus \ {"COMMITTED", "ABORTED"}
    BY <1>1, <2>1 DEF LogFollows, TypeOK
  <2>3. /\ txlog'[c] \in {txlog[c], "STARTED", "PREPARING", "COMMITTING", "ABORTING"}
        /\ \A d \in Checkout \ {c} : txlog'[d] = txlog[d]
    <3>1. CASE Create(c)
      BY <1>1, <3>1 DEF Create, TypeOK
    <3>2. CASE ~Create(c)
      BY <1>1, <1>6, <3>2, SetStatusEffect
         DEF MarkPreparing, MarkCommitting, PrepareFails, LogStatus
    <3> QED BY <3>1, <3>2
  <2>4. VerdictOf(txlog'[c]) = "open" /\ VerdictBar[c] = "open"
    BY <2>2, <2>3, VerdictOfValues DEF VerdictBar, LogStatus
  <2>5. VerdictBar' = [VerdictBar EXCEPT ![c] = "open"]
    BY <1>1, <2>3, <2>4, VerdictMoves
  <2>6. VerdictBar = [VerdictBar EXCEPT ![c] = "open"]
    BY <2>4 DEF VerdictBar
  <2> QED BY <2>5, <2>6
<1>7. ASSUME \/ ExpireCtx(c) \/ Crash(c)
             \/ \E p \in Participants :
                  \/ AbortReturns(c, p) \/ CommitFails(c, p)
                  \/ \E a \in Action : CallParticipant(c, a, p) \/ CallSucceeds(c, a, p)
      PROVE  txlog' = txlog
  BY <1>7 DEF ExpireCtx, Crash, AbortReturns, CommitFails, CallParticipant, CallSucceeds, engineVars
<1> QED BY <1>2, <1>3, <1>4, <1>5, <1>6, <1>7 DEF Execute

(* The library implements the abstract checkout, for every number of       *)
(* transactions and participants, as long as statements do not fail: what  *)
(* its log says was decided is what the participants hold.                 *)
THEOREM KeepsPromiseHolds == Spec => KeepsPromise
<1>1. Init => Promise!Init
  <2> SUFFICES ASSUME Init PROVE Promise!Init
    OBVIOUS
  <2>1. /\ \A p \in Participants, t \in TxID : business[p][t] = "none"
        /\ \A c \in Checkout : txlog[c] = "none"
    BY DEF Init, ParticipantInit
  <2> QED BY <2>1, TxOfType, WorkOfValues, VerdictOfValues DEF Promise!Init, LogStatus
<1>2. Inv /\ [Next]_vars => ("db" \notin faults => Promise!Step)
  <2> SUFFICES ASSUME Inv, [Next]_vars, "db" \notin faults
               PROVE  Promise!Next \/ UNCHANGED <<WorkBar, VerdictBar>>
    BY DEF Promise!Step, WorkBar, VerdictBar
  <2>1. Inv'
    BY NextInv
  <2>2. UNCHANGED vars => UNCHANGED <<WorkBar, VerdictBar>>
    BY DEF vars, WorkBar, VerdictBar
  <2> QED BY <2>1, <2>2, ParticipantMaps, ExecuteMaps DEF Next, Terminated
<1> QED BY <1>1, <1>2, Invariance, PTL DEF Spec, KeepsPromise
===============================================================================
