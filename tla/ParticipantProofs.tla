-------------------------- MODULE ParticipantProofs --------------------------
(***************************************************************************)
(* What the steps of the participants do to calls and rows, and what those *)
(* rows mean for the abstract checkout: the lemmas that the proofs about   *)
(* the coordinator of order-service and about that of the library share.   *)
(***************************************************************************)
EXTENDS Participant, TLAPS

-----------------------------------------------------------------------------
(* Steps on the state of a call.                                           *)

(* A call's new state is the one written, every other call keeps its own.  *)
LEMMA SetCallEffect ==
  ASSUME rpc \in [Checkout -> [Action -> [Participants -> CallState]]],
         NEW c \in Checkout, NEW a \in Action, NEW p \in Participants,
         NEW state \in CallState,
         SetCall(c, a, p, state)
  PROVE  /\ rpc' \in [Checkout -> [Action -> [Participants -> CallState]]]
         /\ \A d \in Checkout, b \in Action, q \in Participants :
              rpc'[d][b][q] = IF d = c /\ b = a /\ q = p THEN state ELSE rpc[d][b][q]
  BY DEF SetCall

(* The txid of a checkout is a txid.                                       *)
LEMMA TxOfType == \A c \in Checkout : TxOf(c) \in TxID
  BY DEF TxOf, TxID

-----------------------------------------------------------------------------
(* What the steps of the participants change, position by position.        *)

(* Only the call (c, a, p) changes, from a state of From to one of To.     *)
CallMoves(c, a, p, From, To) ==
  /\ rpc[c][a][p] \in From
  /\ rpc'[c][a][p] \in To
  /\ \A d \in Checkout, b \in Action, q \in Participants :
       (d = c /\ b = a /\ q = p) \/ rpc'[d][b][q] = rpc[d][b][q]

(* Only the row of txid t at participant p changes, if any.                *)
RowMoves(old, new, p, t) ==
  \A q \in Participants, u \in TxID : (q = p /\ u = t) \/ new[q][u] = old[q][u]

LEMMA FinalStatusType ==
  \A a \in Action : FinalStatus(a) \in {"COMMITTED", "ABORTED"}
  BY DEF FinalStatus

(* /2pc/prepare answers 200 only when the rows are there, and leaves rows  *)
(* that exist as they are.                                                 *)
LEMMA PrepareEffect ==
  ASSUME ParticipantTypeOK, NEW c \in Checkout, NEW p \in Participants,
         HandlePrepare(c, p)
  PROVE  /\ ParticipantTypeOK'
         /\ CallMoves(c, "prepare", p, {"open"}, {"ok", "no"})
         /\ RowMoves(prepared, prepared', p, TxOf(c))
         /\ RowMoves(business, business', p, TxOf(c))
         /\ \/ rpc'[c]["prepare"][p] = "no" /\ UNCHANGED <<prepared, business>>
            \/ /\ prepared'[p][TxOf(c)] = IF prepared[p][TxOf(c)] = "none"
                                          THEN "PREPARED" ELSE prepared[p][TxOf(c)]
               /\ business'[p][TxOf(c)] = IF business[p][TxOf(c)] = "none"
                                          THEN "PREPARED" ELSE business[p][TxOf(c)]
               /\ "db" \notin faults => rpc'[c]["prepare"][p] = "ok"
<1> DEFINE t == TxOf(c)
<1>1. /\ t \in TxID /\ c \in TxID /\ "prepare" \in Action
      /\ {"ok", "no"} \subseteq CallState /\ "PREPARED" \in RowStatus
  BY TxOfType DEF TxID, Action, CallState, RowStatus
<1>2. /\ rpc \in [Checkout -> [Action -> [Participants -> CallState]]]
      /\ prepared \in [Participants -> [TxID -> RowStatus]]
      /\ business \in [Participants -> [TxID -> RowStatus]]
      /\ holder \in [Participants -> [TxID -> TxID]]
      /\ faults \in FaultSets
      /\ faults' = faults
  BY DEF ParticipantTypeOK, HandlePrepare
<1>3. PICK result \in TransactionResults :
        /\ SetCall(c, "prepare", p, IF result = "committed" THEN "ok" ELSE "no")
        /\ IF result = "rolledback"
           THEN UNCHANGED <<prepared, business, holder, faults>>
           ELSE /\ prepared' = InsertIfAbsent(prepared, p, t, "PREPARED", "none")
                /\ business' = InsertIfAbsent(business, p, t, "PREPARED", "none")
                /\ holder' = InsertIfAbsent(holder, p, t, c, Empty)
                /\ UNCHANGED faults
  BY DEF HandlePrepare
<1>4. /\ rpc' \in [Checkout -> [Action -> [Participants -> CallState]]]
      /\ CallMoves(c, "prepare", p, {"open"}, {"ok", "no"})
      /\ rpc'[c]["prepare"][p] = IF result = "committed" THEN "ok" ELSE "no"
  <2> DEFINE state == IF result = "committed" THEN "ok" ELSE "no"
  <2>1. state \in CallState /\ SetCall(c, "prepare", p, state)
    BY <1>1, <1>3
  <2>2. state \in {"ok", "no"} /\ rpc[c]["prepare"][p] = "open"
    BY DEF HandlePrepare
  <2> HIDE DEF state
  <2>3. /\ rpc' \in [Checkout -> [Action -> [Participants -> CallState]]]
        /\ \A d \in Checkout, b \in Action, q \in Participants :
             rpc'[d][b][q] = IF d = c /\ b = "prepare" /\ q = p THEN state ELSE rpc[d][b][q]
    BY <1>1, <1>2, <2>1, SetCallEffect
  <2> QED BY <1>1, <2>2, <2>3 DEF CallMoves, state
<1> HIDE DEF t
<1>5. CASE result = "rolledback"
  BY <1>2, <1>3, <1>4, <1>5 DEF ParticipantTypeOK, RowMoves
<1>6. CASE result # "rolledback"
  <2>1. /\ prepared' = InsertIfAbsent(prepared, p, t, "PREPARED", "none")
        /\ business' = InsertIfAbsent(business, p, t, "PREPARED", "none")
        /\ holder' = InsertIfAbsent(holder, p, t, c, Empty)
    BY <1>3, <1>6
  <2>2. /\ prepared' \in [Participants -> [TxID -> RowStatus]]
        /\ \A q \in Participants, u \in TxID :
             prepared'[q][u] = IF q = p /\ u = t /\ prepared[q][u] = "none"
                               THEN "PREPARED" ELSE prepared[q][u]
    BY <1>1, <1>2, <2>1 DEF InsertIfAbsent
  <2>3. /\ business' \in [Participants -> [TxID -> RowStatus]]
        /\ \A q \in Participants, u \in TxID :
             business'[q][u] = IF q = p /\ u = t /\ business[q][u] = "none"
                               THEN "PREPARED" ELSE business[q][u]
    BY <1>1, <1>2, <2>1 DEF InsertIfAbsent
  <2>4. holder' \in [Participants -> [TxID -> TxID]]
    BY <1>1, <1>2, <2>1 DEF InsertIfAbsent
  <2>5. "db" \notin faults => rpc'[c]["prepare"][p] = "ok"
    BY <1>4, <1>6 DEF TransactionResults
  <2> QED BY <1>1, <1>2, <1>4, <2>2, <2>3, <2>4, <2>5 DEF ParticipantTypeOK, RowMoves, t
<1> QED BY <1>5, <1>6

(* The first UPDATE of commit or abort.                                    *)
LEMMA UpdatePreparedEffect ==
  ASSUME ParticipantTypeOK, NEW c \in Checkout, NEW a \in Action, NEW p \in Participants,
         UpdatePrepared(c, a, p)
  PROVE  /\ ParticipantTypeOK'
         /\ a \in {"commit", "abort"}
         /\ CallMoves(c, a, p, {"open"}, {"half"})
         /\ UNCHANGED business
         /\ RowMoves(prepared, prepared', p, TxOf(c))
         /\ \/ "db" \in faults /\ UNCHANGED prepared
            \/ prepared'[p][TxOf(c)] = IF prepared[p][TxOf(c)] = "none"
                                       THEN "none" ELSE FinalStatus(a)
<1> DEFINE t == TxOf(c)
           status == FinalStatus(a)
<1>1. /\ t \in TxID /\ "half" \in CallState /\ status \in RowStatus /\ "none" \in RowStatus
  BY TxOfType, FinalStatusType DEF CallState, RowStatus
<1>2. /\ rpc \in [Checkout -> [Action -> [Participants -> CallState]]]
      /\ prepared \in [Participants -> [TxID -> RowStatus]]
      /\ UNCHANGED <<business, holder, faults>>
      /\ SetCall(c, a, p, "half")
      /\ rpc[c][a][p] = "open"
      /\ a \in {"commit", "abort"}
  BY DEF ParticipantTypeOK, UpdatePrepared
<1> HIDE DEF t, status
<1>3. /\ rpc' \in [Checkout -> [Action -> [Participants -> CallState]]]
      /\ CallMoves(c, a, p, {"open"}, {"half"})
  BY <1>1, <1>2, SetCallEffect DEF CallMoves
<1>4. \/ "db" \in faults /\ prepared' = prepared
      \/ prepared' = UpdateIfPresent(prepared, p, t, status)
  BY DEF UpdatePrepared, StatementResults, t, status
<1>5. /\ prepared' \in [Participants -> [TxID -> RowStatus]]
      /\ RowMoves(prepared, prepared', p, t)
      /\ \/ "db" \in faults /\ UNCHANGED prepared
         \/ prepared'[p][t] = IF prepared[p][t] = "none" THEN "none" ELSE status
  <2>1. CASE "db" \in faults /\ prepared' = prepared
    BY <1>2, <2>1 DEF RowMoves
  <2>2. CASE prepared' = UpdateIfPresent(prepared, p, t, status)
    <3>1. /\ UpdateIfPresent(prepared, p, t, status) \in [Participants -> [TxID -> RowStatus]]
          /\ \A q \in Participants, u \in TxID :
               UpdateIfPresent(prepared, p, t, status)[q][u] =
                 IF q = p /\ u = t /\ prepared[q][u] # "none" THEN status ELSE prepared[q][u]
      BY <1>1, <1>2 DEF UpdateIfPresent
    <3> QED BY <1>1, <2>2, <3>1 DEF RowMoves
  <2> QED BY <1>4, <2>1, <2>2
<1> QED BY <1>2, <1>3, <1>5 DEF ParticipantTypeOK, t, status

(* The second UPDATE, of commit or abort.                                  *)
LEMMA UpdateBusinessEffect ==
  ASSUME ParticipantTypeOK, NEW c \in Checkout, NEW a \in Action, NEW p \in Participants,
         UpdateBusiness(c, a, p)
  PROVE  /\ ParticipantTypeOK'
         /\ CallMoves(c, a, p, {"half"}, {"ok"})
         /\ UNCHANGED prepared
         /\ RowMoves(business, business', p, TxOf(c))
         /\ \/ "db" \in faults /\ UNCHANGED business
            \/ business'[p][TxOf(c)] = IF business[p][TxOf(c)] = "none"
                                       THEN "none" ELSE FinalStatus(a)
<1> DEFINE t == TxOf(c)
           status == FinalStatus(a)
<1>1. /\ t \in TxID /\ "ok" \in CallState /\ status \in RowStatus /\ "none" \in RowStatus
  BY TxOfType, FinalStatusType DEF CallState, RowStatus
<1>2. /\ rpc \in [Checkout -> [Action -> [Participants -> CallState]]]
      /\ business \in [Participants -> [TxID -> RowStatus]]
      /\ UNCHANGED <<prepared, holder, faults>>
      /\ SetCall(c, a, p, "ok")
      /\ rpc[c][a][p] = "half"
  BY DEF ParticipantTypeOK, UpdateBusiness
<1> HIDE DEF t, status
<1>3. /\ rpc' \in [Checkout -> [Action -> [Participants -> CallState]]]
      /\ CallMoves(c, a, p, {"half"}, {"ok"})
  BY <1>1, <1>2, SetCallEffect DEF CallMoves
<1>4. \/ "db" \in faults /\ business' = business
      \/ business' = UpdateIfPresent(business, p, t, status)
  BY DEF UpdateBusiness, StatementResults, t, status
<1>5. /\ business' \in [Participants -> [TxID -> RowStatus]]
      /\ RowMoves(business, business', p, t)
      /\ \/ "db" \in faults /\ UNCHANGED business
         \/ business'[p][t] = IF business[p][t] = "none" THEN "none" ELSE status
  <2>1. CASE "db" \in faults /\ business' = business
    BY <1>2, <2>1 DEF RowMoves
  <2>2. CASE business' = UpdateIfPresent(business, p, t, status)
    <3>1. /\ UpdateIfPresent(business, p, t, status) \in [Participants -> [TxID -> RowStatus]]
          /\ \A q \in Participants, u \in TxID :
               UpdateIfPresent(business, p, t, status)[q][u] =
                 IF q = p /\ u = t /\ business[q][u] # "none" THEN status ELSE business[q][u]
      BY <1>1, <1>2 DEF UpdateIfPresent
    <3> QED BY <1>1, <2>2, <3>1 DEF RowMoves
  <2> QED BY <1>4, <2>1, <2>2
<1> QED BY <1>2, <1>3, <1>5 DEF ParticipantTypeOK, t, status

(* Sending or losing a call moves that call alone.                         *)
LEMMA SendEffect ==
  ASSUME ParticipantTypeOK, NEW c \in Checkout, NEW a \in Action, NEW p \in Participants,
         Send(c, a, p)
  PROVE  /\ ParticipantTypeOK'
         /\ CallMoves(c, a, p, {"none"}, {"open"})
         /\ UNCHANGED <<prepared, business>>
  BY SetCallEffect
     DEF Send, ParticipantTypeOK, CallMoves, CallState

LEMMA LoseEffect ==
  ASSUME ParticipantTypeOK, NEW c \in Checkout, NEW a \in Action, NEW p \in Participants,
         Lose(c, a, p)
  PROVE  /\ ParticipantTypeOK'
         /\ CallMoves(c, a, p, {"open", "half"}, {"lost"})
         /\ UNCHANGED <<prepared, business>>
  BY SetCallEffect
     DEF Lose, ParticipantTypeOK, CallMoves, CallState

-----------------------------------------------------------------------------
(* The work that the business rows stand for.                              *)

WorkBar == [c \in Checkout |-> [p \in Participants |-> WorkOf(business[p][TxOf(c)])]]

LEMMA WorkOfValues ==
  /\ WorkOf("none") = "absent" /\ WorkOf("PREPARED") = "held"
  /\ WorkOf("COMMITTED") = "done" /\ WorkOf("ABORTED") = "undone"
  BY DEF WorkOf

(* The work of checkout c at participant p is its business row.            *)
LEMMA WorkBarAt ==
  ASSUME TxMode = "twopc"
  PROVE  \A c \in Checkout, p \in Participants : WorkBar[c][p] = WorkOf(business[p][c])
  BY DEF WorkBar, TxOf

(* When one row moves, one piece of work does.                             *)
LEMMA WorkMoves ==
  ASSUME TxMode = "twopc", NEW c \in Checkout, NEW p \in Participants,
         RowMoves(business, business', p, c)
  PROVE  WorkBar' = [WorkBar EXCEPT ![c][p] = WorkOf(business'[p][c])]
<1>1. \A d \in Checkout : TxOf(d) = d /\ d \in TxID
  BY DEF TxOf, TxID
<1>2. \A d \in Checkout, q \in Participants :
        WorkOf(business'[q][d]) = IF d = c /\ q = p THEN WorkOf(business'[p][c])
                                                    ELSE WorkOf(business[q][d])
  BY <1>1 DEF RowMoves
<1> DEFINE new == WorkOf(business'[p][c])
           old(d, q) == WorkOf(business[q][d])
<1>3. WorkBar = [d \in Checkout |-> [q \in Participants |-> old(d, q)]]
  BY <1>1 DEF WorkBar
<1>4. WorkBar' = [d \in Checkout |-> [q \in Participants |->
                    IF d = c /\ q = p THEN new ELSE old(d, q)]]
  BY <1>1, <1>2 DEF WorkBar
<1> HIDE DEF new, old
<1>5. [WorkBar EXCEPT ![c][p] = new] =
        [d \in Checkout |-> [q \in Participants |-> IF d = c /\ q = p THEN new ELSE old(d, q)]]
  BY <1>3
<1> QED BY <1>4, <1>5 DEF new
==============================================================================
