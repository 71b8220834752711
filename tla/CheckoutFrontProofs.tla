------------------------- MODULE CheckoutFrontProofs -------------------------
(***************************************************************************)
(* Theorems about CheckoutFront, for every set of requests, keys and ids:  *)
(* the types, that a key buys one order, and that answers agree.           *)
(***************************************************************************)
EXTENDS CheckoutFront, TLAPS

(* A request has no order before it has committed one, has one while its   *)
(* mode runs, and answers after that.                                      *)
CreatedThenRuns ==
  /\ \A r \in created : pc[r] \in {"run", "answered", "crashed"}
  /\ \A r \in Request : pc[r] = "run" => r \in created

(* An open transaction that holds a row shares its primary key with none   *)
(* that is committed or holds one too.                                     *)
OrdersExclude ==
  \A r, s \in Request :
    /\ r # s
    /\ pc[r] \in {"key", "commit"}
    /\ s \in created \/ pc[s] \in {"key", "commit"}
    => asked[r].id # asked[s].id

KeysExclude ==
  \A r, s \in Request :
    /\ r # s
    /\ pc[r] = "commit" /\ asked[r].key # NoKey
    /\ s \in created \/ pc[s] = "commit"
    => asked[r].key # asked[s].key

Stored == \A s \in created : status[asked[s].id] # "none"

(* The order a client is told is that of a request with the same key.      *)
AnswersBacked ==
  \A r \in Request : answer[r].order # NoOrder =>
    /\ pc[r] = "answered"
    /\ \E s \in created :
         /\ asked[s].id = answer[r].order
         /\ asked[r].key # NoKey => asked[s].key = asked[r].key

FrontInv ==
  /\ FrontTypeOK /\ CreatedThenRuns /\ OrdersExclude /\ KeysExclude /\ OneRunPerKey
  /\ Stored /\ AnswersBacked

-----------------------------------------------------------------------------
(* What a step does.  Request r moves, and the others stay where they are. *)

OthersStay(r) ==
  \A s \in Request \ {r} : pc'[s] = pc[s] /\ asked'[s] = asked[s] /\ answer'[s] = answer[s]

Arrives(r) ==
  /\ pc[r] = "idle" /\ pc'[r] = "lookup"
  /\ answer'[r] = answer[r] /\ UNCHANGED <<created, status>>

(* It gives up, or goes on without a row.                                  *)
Passes(r) ==
  /\ \/ pc[r] # "answered" /\ pc'[r] = "crashed"
     \/ pc[r] = "lookup" /\ pc'[r] = "order"
     \/ pc[r] = "key" /\ pc'[r] = "relook"
     \/ pc'[r] = pc[r]
  /\ answer'[r] = answer[r] /\ asked'[r] = asked[r] /\ UNCHANGED <<created, status>>

Answers(r) ==
  /\ pc'[r] = "answered"
  /\ asked'[r] = asked[r] /\ UNCHANGED created
  /\ \A o \in OrderId : status[o] # "none" => status'[o] # "none"
  /\ answer'[r].order # NoOrder =>
       \E s \in created :
         /\ asked[s].id = answer'[r].order
         /\ asked[r].key # NoKey => asked[s].key = asked[r].key

TakesOrder(r) ==
  /\ pc[r] = "order" /\ pc'[r] \in {"key", "commit"}
  /\ pc'[r] = "commit" => asked[r].key = NoKey
  /\ HoldsOrder(r) = {} /\ ~OrderTaken(r)
  /\ answer'[r] = answer[r] /\ asked'[r] = asked[r] /\ UNCHANGED <<created, status>>

TakesKey(r) ==
  /\ pc[r] = "key" /\ pc'[r] = "commit"
  /\ HoldsKey(r) = {} /\ Keyed(r) = {}
  /\ answer'[r] = answer[r] /\ asked'[r] = asked[r] /\ UNCHANGED <<created, status>>

Commits(r) ==
  /\ pc[r] = "commit" /\ pc'[r] \in {"run", "answered"}
  /\ created' = created \cup {r}
  /\ \A o \in OrderId : status'[o] # "none" \/ (status'[o] = status[o] /\ o # asked[r].id)
  /\ answer'[r].order = NoOrder \/ answer'[r] = answer[r]
  /\ asked'[r] = asked[r]

Moves(r) ==
  /\ OthersStay(r)
  /\ Arrives(r) \/ Passes(r) \/ Answers(r) \/ TakesOrder(r) \/ TakesKey(r) \/ Commits(r)

(* What a reply and a move of the goroutine write.                         *)
LEMMA ReplyEffect ==
  ASSUME FrontTypeOK, NEW r \in Request, NEW st, NEW o, Reply(r, st, o)
  PROVE  /\ pc'[r] = "answered" /\ answer'[r] = [status |-> st, order |-> o]
         /\ \A s \in Request \ {r} : pc'[s] = pc[s] /\ answer'[s] = answer[s]
  BY DEF FrontTypeOK, Reply

LEMMA GotoEffect ==
  ASSUME FrontTypeOK, NEW r \in Request, NEW label, Goto(r, label)
  PROVE  /\ pc'[r] = label /\ answer' = answer
         /\ \A s \in Request \ {r} : pc'[s] = pc[s]
  BY DEF FrontTypeOK, Goto

(* A failed request is told no order.                                      *)
LEMMA FailEffect ==
  ASSUME FrontTypeOK, NEW r \in Request, Fail(r)
  PROVE  /\ pc'[r] = "answered" /\ answer'[r].order = NoOrder
         /\ \A s \in Request \ {r} : pc'[s] = pc[s] /\ answer'[s] = answer[s]
  BY DEF Fail, Reply, FrontTypeOK

(* A statement that works was sent by a live context.                      *)
LEMMA WorksAlive ==
  ASSUME NEW r \in Request, TRUE \in Works(r)
  PROVE  ctx[r] # "dead"
  BY DEF Works

LEMMA WorksBoolean == \A r \in Request : Works(r) \subseteq BOOLEAN
  BY DEF Works

(* A replay names an order of the same key.                                *)
LEMMA KeyedBacks ==
  ASSUME FrontTypeOK, NEW r \in Request, NEW s \in Keyed(r),
         Reply(r, "IDEMPOTENT_REPLAY", asked[s].id), UNCHANGED <<asked, created, status>>
  PROVE  Moves(r)
<1>1. s \in created /\ asked[s].key = asked[r].key
  BY DEF Keyed
<1>2. OthersStay(r)
  BY ReplyEffect DEF OthersStay
<1>3. answer'[r].order = asked[s].id /\ pc'[r] = "answered"
  BY DEF Reply, FrontTypeOK
<1>4. Answers(r)
  BY <1>1, <1>3 DEF Answers
<1> QED BY <1>2, <1>4 DEF Moves

LEMMA FailMoves ==
  ASSUME FrontTypeOK, NEW r \in Request, Fail(r), UNCHANGED <<asked, created, status>>
  PROVE  Moves(r)
  BY FailEffect DEF Moves, OthersStay, Answers

(* Every step of a request is one of these moves.                          *)
LEMMA ServeMoves ==
  ASSUME FrontTypeOK, CreatedThenRuns, NEW r \in Request, Serve(r)
  PROVE  Moves(r)
<1>1. CASE Lookup(r)
  <2>1. PICK works \in Works(r) :
          IF works /\ Keyed(r) # {}
          THEN \E s \in Keyed(r) : Reply(r, "IDEMPOTENT_REPLAY", asked[s].id)
          ELSE Goto(r, "order")
    BY <1>1 DEF Lookup
  <2>2. pc[r] = "lookup" /\ UNCHANGED <<asked, created, status>>
    BY <1>1 DEF Lookup
  <2>3. CASE works /\ Keyed(r) # {}
    <3>1. PICK s \in Keyed(r) : Reply(r, "IDEMPOTENT_REPLAY", asked[s].id)
      BY <2>1, <2>3
    <3> QED BY <3>1, <2>2, KeyedBacks
  <2>4. CASE ~(works /\ Keyed(r) # {})
    <3>1. Goto(r, "order")
      BY <2>1, <2>4
    <3> QED BY <3>1, <2>2, GotoEffect DEF Moves, OthersStay, Passes
  <2> QED BY <2>3, <2>4
<1>2. CASE InsertOrder(r)
  <2>1. PICK works \in Works(r) :
          IF ~works \/ OrderTaken(r) THEN Fail(r)
          ELSE Goto(r, IF asked[r].key = NoKey THEN "commit" ELSE "key")
    BY <1>2 DEF InsertOrder
  <2>2. pc[r] = "order" /\ UNCHANGED <<asked, created, status>>
    BY <1>2 DEF InsertOrder
  <2>3. CASE ~works \/ OrderTaken(r)
    BY <2>1, <2>2, <2>3, FailMoves
  <2>4. CASE works /\ ~OrderTaken(r)
    <3>1. HoldsOrder(r) = {}
      BY <1>2, <2>4, WorksAlive, WorksBoolean DEF InsertOrder
    <3>2. Goto(r, IF asked[r].key = NoKey THEN "commit" ELSE "key")
      BY <2>1, <2>4
    <3>3. TakesOrder(r) /\ OthersStay(r)
      BY <2>2, <2>4, <3>1, <3>2, GotoEffect DEF TakesOrder, OthersStay
    <3> QED BY <3>3 DEF Moves
  <2> QED BY <2>3, <2>4
<1>3. CASE InsertKey(r)
  <2>1. PICK works \in Works(r) :
          IF ~works THEN Fail(r) ELSE Goto(r, IF Keyed(r) # {} THEN "relook" ELSE "commit")
    BY <1>3 DEF InsertKey
  <2>2. pc[r] = "key" /\ UNCHANGED <<asked, created, status>>
    BY <1>3 DEF InsertKey
  <2>3. CASE ~works
    BY <2>1, <2>2, <2>3, FailMoves
  <2>4. CASE works /\ Keyed(r) # {}
    <3>1. Goto(r, "relook")
      BY <2>1, <2>4
    <3> QED BY <3>1, <2>2, GotoEffect DEF Moves, OthersStay, Passes
  <2>5. CASE works /\ Keyed(r) = {}
    <3>1. HoldsKey(r) = {}
      BY <1>3, <2>5, WorksAlive, WorksBoolean DEF InsertKey
    <3>2. Goto(r, "commit")
      BY <2>1, <2>5
    <3> QED BY <3>1, <3>2, <2>2, <2>5, GotoEffect DEF Moves, OthersStay, TakesKey
  <2> QED BY <2>3, <2>4, <2>5
<1>4. CASE Commit(r)
  <2>1. PICK done \in {TRUE} \cup Works(r), acked \in Works(r) :
          /\ created' = IF done THEN created \cup {r} ELSE created
          /\ status' = IF done THEN [status EXCEPT ![asked[r].id] = "PROCESSING"] ELSE status
          /\ IF done /\ acked THEN Goto(r, "run") ELSE Fail(r)
    BY <1>4 DEF Commit
  <2>2. pc[r] = "commit" /\ asked' = asked
    BY <1>4 DEF Commit
  <2>3. asked[r].id \in OrderId
    BY DEF FrontTypeOK, Input
  <2>4. CASE ~done
    BY <2>1, <2>2, <2>4, FailMoves
  <2>5. CASE done
    <3>1. \A o \in OrderId : status'[o] = IF o = asked[r].id THEN "PROCESSING" ELSE status[o]
      BY <2>1, <2>3, <2>5 DEF FrontTypeOK
    <3>2. CASE acked
      <4>1. Goto(r, "run")
        BY <2>1, <2>5, <3>2
      <4> QED BY <2>1, <2>2, <2>5, <3>1, <4>1, GotoEffect DEF Moves, OthersStay, Commits
    <3>3. CASE ~acked
      <4>1. Fail(r)
        BY <2>1, <2>5, <3>3
      <4> QED BY <2>1, <2>2, <2>5, <3>1, <4>1, FailEffect DEF Moves, OthersStay, Commits
    <3> QED BY <3>2, <3>3
  <2> QED BY <2>4, <2>5
<1>5. CASE Relook(r)
  <2>1. PICK works \in Works(r) :
          IF works /\ Keyed(r) # {}
          THEN \E s \in Keyed(r) : Reply(r, "IDEMPOTENT_REPLAY", asked[s].id)
          ELSE Fail(r)
    BY <1>5 DEF Relook
  <2>2. UNCHANGED <<asked, created, status>>
    BY <1>5 DEF Relook
  <2>3. CASE works /\ Keyed(r) # {}
    <3>1. PICK s \in Keyed(r) : Reply(r, "IDEMPOTENT_REPLAY", asked[s].id)
      BY <2>1, <2>3
    <3> QED BY <3>1, <2>2, KeyedBacks
  <2>4. CASE ~(works /\ Keyed(r) # {})
    BY <2>1, <2>2, <2>4, FailMoves
  <2> QED BY <2>3, <2>4
<1>6. CASE Settle(r)
  <2>1. PICK outcome \in Outcomes, works \in Works(r) :
          /\ Reply(r, outcome[1], asked[r].id)
          /\ status' = IF works THEN [status EXCEPT ![asked[r].id] = outcome[2]] ELSE status
    BY <1>6 DEF Settle
  <2>2. pc[r] = "run" /\ r \in created /\ UNCHANGED <<asked, created>>
    BY <1>6 DEF Settle, CreatedThenRuns
  <2>3. outcome[2] # "none"
    BY FrontAssumption DEF Outcomes, FrontTypeOK, Mode
  <2>4. \A o \in OrderId : status[o] # "none" => status'[o] # "none"
    BY <2>1, <2>3 DEF FrontTypeOK
  <2>5. answer'[r].order = asked[r].id /\ pc'[r] = "answered" /\ OthersStay(r)
    BY <2>1, <2>2 DEF Reply, OthersStay, FrontTypeOK
  <2>6. Answers(r)
    BY <2>2, <2>4, <2>5 DEF Answers
  <2> QED BY <2>5, <2>6 DEF Moves
<1>7. CASE RunFails(r)
  BY <1>7, FailMoves DEF RunFails
<1> QED BY <1>1, <1>2, <1>3, <1>4, <1>5, <1>6, <1>7 DEF Serve

LEMMA NextMoves ==
  ASSUME FrontTypeOK, CreatedThenRuns, [FrontNext]_frontVars
  PROVE  UNCHANGED <<pc, asked, created, status, answer>> \/ \E r \in Request : Moves(r)
<1>1. ASSUME NEW r \in Request, NEW input \in Input, Arrive(r, input)
      PROVE  Moves(r)
  BY <1>1, GotoEffect DEF Arrive, Moves, OthersStay, Arrives, FrontTypeOK
<1>2. ASSUME NEW r \in Request, Refuse(r)
      PROVE  Moves(r)
  <2>1. pc'[r] = "answered" /\ answer'[r].order = NoOrder /\ OthersStay(r)
    BY <1>2 DEF Refuse, Reply, OthersStay, FrontTypeOK
  <2> QED BY <1>2, <2>1 DEF Refuse, Moves, Answers
<1>3. ASSUME NEW r \in Request, ExpireCtx(r)
      PROVE  Moves(r)
  BY <1>3 DEF ExpireCtx, Moves, OthersStay, Passes
<1>4. ASSUME NEW r \in Request, Crash(r)
      PROVE  Moves(r)
  BY <1>4, GotoEffect DEF Crash, Running, Moves, OthersStay, Passes
<1>5. CASE UNCHANGED frontVars \/ FrontTerminated
  BY <1>5 DEF frontVars, FrontTerminated
<1> QED BY <1>1, <1>2, <1>3, <1>4, <1>5, ServeMoves DEF FrontNext

-----------------------------------------------------------------------------
(* The types.                                                              *)

LEMMA InitTypes == FrontInit => FrontTypeOK
<1> SUFFICES ASSUME FrontInit PROVE FrontTypeOK
  OBVIOUS
<1>1. Unasked \in Input
  BY FrontAssumption DEF Unasked, Input
<1>2. Nothing \in Answer
  BY DEF Nothing, Answer
<1> QED BY <1>1, <1>2 DEF FrontInit, FrontTypeOK

LEMMA ReplyType ==
  ASSUME FrontTypeOK, NEW r \in Request, NEW st, NEW o, Reply(r, st, o),
         [status |-> st, order |-> o] \in Answer
  PROVE  /\ pc' \in [Request -> {"idle", "lookup", "order", "key", "commit", "relook", "run",
                                 "answered", "crashed"}]
         /\ answer' \in [Request -> Answer]
  BY DEF FrontTypeOK, Reply

LEMMA ServeTypes ==
  ASSUME FrontTypeOK, NEW r \in Request, Serve(r)
  PROVE  FrontTypeOK'
<1>1. \A s \in Request : asked[s].id \in OrderId
  BY DEF FrontTypeOK, Input
<1>2. Fail(r) => /\ pc' \in [Request -> {"idle", "lookup", "order", "key", "commit", "relook",
                                         "run", "answered", "crashed"}]
                 /\ answer' \in [Request -> Answer]
  BY DEF FrontTypeOK, Fail, Reply, Answer
<1>3. \A s \in Keyed(r) : Reply(r, "IDEMPOTENT_REPLAY", asked[s].id) =>
        /\ pc' \in [Request -> {"idle", "lookup", "order", "key", "commit", "relook",
                                "run", "answered", "crashed"}]
        /\ answer' \in [Request -> Answer]
  BY <1>1 DEF FrontTypeOK, Reply, Answer, Keyed
<1>4. CASE Lookup(r)
  BY <1>2, <1>3, <1>4 DEF Lookup, Goto, FrontTypeOK
<1>5. CASE InsertOrder(r)
  BY <1>2, <1>5 DEF InsertOrder, Goto, FrontTypeOK
<1>6. CASE InsertKey(r)
  BY <1>2, <1>6 DEF InsertKey, Goto, FrontTypeOK
<1>7. CASE Commit(r)
  BY <1>1, <1>2, <1>7 DEF Commit, Goto, FrontTypeOK
<1>8. CASE Relook(r)
  BY <1>2, <1>3, <1>8 DEF Relook, FrontTypeOK
<1>9. CASE Settle(r)
  <2>1. PICK outcome \in Outcomes, works \in Works(r) :
          /\ Reply(r, outcome[1], asked[r].id)
          /\ status' = IF works THEN [status EXCEPT ![asked[r].id] = outcome[2]] ELSE status
    BY <1>9 DEF Settle
  <2>2. /\ outcome[1] \in {"PENDING", "CONFIRMED", "REJECTED", "COMMITTED", "ABORTED"}
        /\ outcome[2] \in {"PENDING", "CONFIRMED", "REJECTED"}
    BY FrontAssumption DEF Outcomes, FrontTypeOK, Mode
  <2>3. [status |-> outcome[1], order |-> asked[r].id] \in Answer
    BY <1>1, <2>2 DEF Answer
  <2>4. UNCHANGED <<faults, mode, asked, ctx, created>>
    BY <1>9 DEF Settle
  <2>5. status' \in [OrderId -> {"none", "PROCESSING", "PENDING", "CONFIRMED", "REJECTED"}]
    BY <1>1, <2>1, <2>2 DEF FrontTypeOK
  <2>6. /\ pc' \in [Request -> {"idle", "lookup", "order", "key", "commit", "relook", "run",
                                "answered", "crashed"}]
        /\ answer' \in [Request -> Answer]
    BY <2>1, <2>3, ReplyType
  <2> QED BY <2>4, <2>5, <2>6 DEF FrontTypeOK
<1>10. CASE RunFails(r)
  BY <1>2, <1>10 DEF RunFails, FrontTypeOK
<1> QED BY <1>4, <1>5, <1>6, <1>7, <1>8, <1>9, <1>10 DEF Serve

LEMMA NextTypes ==
  ASSUME FrontTypeOK, [FrontNext]_frontVars
  PROVE  FrontTypeOK'
<1>1. ASSUME NEW r \in Request, NEW input \in Input, Arrive(r, input)
      PROVE  FrontTypeOK'
  BY <1>1 DEF Arrive, Goto, FrontTypeOK
<1>2. ASSUME NEW r \in Request, Refuse(r)
      PROVE  FrontTypeOK'
  BY <1>2 DEF Refuse, Reply, Answer, FrontTypeOK
<1>3. ASSUME NEW r \in Request, ExpireCtx(r)
      PROVE  FrontTypeOK'
  BY <1>3 DEF ExpireCtx, FrontTypeOK
<1>4. ASSUME NEW r \in Request, Crash(r)
      PROVE  FrontTypeOK'
  BY <1>4 DEF Crash, Goto, FrontTypeOK
<1>5. CASE UNCHANGED frontVars \/ FrontTerminated
  BY <1>5 DEF frontVars, FrontTerminated, FrontTypeOK
<1> QED BY <1>1, <1>2, <1>3, <1>4, <1>5, ServeTypes DEF FrontNext

-----------------------------------------------------------------------------
(* A move keeps each part of the invariant.                                *)

LEMMA InvMoves ==
  ASSUME FrontInv, FrontTypeOK', NEW r \in Request, Moves(r)
  PROVE  FrontInv'
<1> USE DEF Moves, OthersStay
<1>1. \A s \in Request : asked[s].id \in OrderId /\ asked'[s].id \in OrderId
  BY DEF FrontInv, FrontTypeOK, Input
<1>2. created \subseteq Request /\ created' \subseteq Request
  BY DEF FrontInv, FrontTypeOK
<1>3. CreatedThenRuns'
  BY <1>2 DEF FrontInv, CreatedThenRuns, Arrives, Passes, Answers, TakesOrder, TakesKey, Commits
<1>4. \A s \in created : asked'[s] = asked[s]
  BY <1>2 DEF FrontInv, CreatedThenRuns, Arrives, Passes, Answers, TakesOrder, TakesKey, Commits
<1>5. OrdersExclude'
  <2>1. CASE Arrives(r) \/ Passes(r) \/ Answers(r)
    BY <1>2, <1>4, <2>1 DEF FrontInv, CreatedThenRuns, OrdersExclude, Arrives, Passes, Answers
  <2>2. CASE TakesOrder(r)
    BY <1>2, <2>2 DEF FrontInv, OrdersExclude, TakesOrder, HoldsOrder, OrderTaken
  <2>3. CASE TakesKey(r) \/ Commits(r)
    BY <1>2, <2>3 DEF FrontInv, OrdersExclude, TakesKey, Commits
  <2> QED BY <2>1, <2>2, <2>3
<1>6. KeysExclude'
  <2>1. CASE Arrives(r) \/ Passes(r) \/ Answers(r)
    BY <1>2, <1>4, <2>1 DEF FrontInv, CreatedThenRuns, KeysExclude, Arrives, Passes, Answers
  <2>2. CASE TakesOrder(r)
    BY <1>2, <2>2 DEF FrontInv, KeysExclude, TakesOrder
  <2>3. CASE TakesKey(r)
    BY <1>2, <2>3 DEF FrontInv, KeysExclude, TakesKey, HoldsKey, Keyed
  <2>4. CASE Commits(r)
    BY <1>2, <2>4 DEF FrontInv, KeysExclude, Commits
  <2> QED BY <2>1, <2>2, <2>3, <2>4
<1>7. OneRunPerKey'
  <2>1. CASE created' = created
    BY <1>2, <1>4, <2>1 DEF FrontInv, OneRunPerKey
  <2>2. CASE Commits(r)
    BY <1>2, <2>2 DEF FrontInv, OneRunPerKey, OrdersExclude, KeysExclude, Commits
  <2> QED BY <2>1, <2>2 DEF Arrives, Passes, Answers, TakesOrder, TakesKey
<1>8. Stored'
  <2>1. CASE Commits(r)
    BY <1>1, <1>2, <1>4, <2>1 DEF FrontInv, Stored, Commits
  <2>2. CASE Arrives(r) \/ Passes(r) \/ Answers(r) \/ TakesOrder(r) \/ TakesKey(r)
    BY <1>1, <1>2, <1>4, <2>2
    DEF FrontInv, Stored, Arrives, Passes, Answers, TakesOrder, TakesKey
  <2> QED BY <2>1, <2>2
<1>9. AnswersBacked'
  <2>1. created \subseteq created'
    BY DEF Arrives, Passes, Answers, TakesOrder, TakesKey, Commits
  <2>2. ASSUME NEW s \in Request, answer'[s].order # NoOrder, ~(s = r /\ Answers(r))
        PROVE  /\ pc'[s] = "answered" /\ asked'[s] = asked[s]
               /\ answer'[s] = answer[s]
    BY <2>2 DEF FrontInv, AnswersBacked, Arrives, Passes, Answers, TakesOrder, TakesKey, Commits
  <2>3. ASSUME NEW s \in Request, answer'[s].order # NoOrder, ~(s = r /\ Answers(r))
        PROVE  /\ pc'[s] = "answered"
               /\ \E t \in created' :
                    /\ asked'[t].id = answer'[s].order
                    /\ asked'[s].key # NoKey => asked'[t].key = asked'[s].key
    <3>1. PICK t \in created :
            /\ asked[t].id = answer[s].order
            /\ asked[s].key # NoKey => asked[t].key = asked[s].key
      BY <2>2, <2>3 DEF FrontInv, AnswersBacked
    <3> QED BY <1>4, <2>1, <2>2, <2>3, <3>1
  <2>4. ASSUME Answers(r), answer'[r].order # NoOrder
        PROVE  /\ pc'[r] = "answered"
               /\ \E t \in created' :
                    /\ asked'[t].id = answer'[r].order
                    /\ asked'[r].key # NoKey => asked'[t].key = asked'[r].key
    BY <1>4, <2>1, <2>4 DEF Answers
  <2> QED BY <2>3, <2>4 DEF AnswersBacked
<1> QED BY <1>3, <1>5, <1>6, <1>7, <1>8, <1>9 DEF FrontInv

LEMMA InitInv == FrontInit => FrontInv
<1> SUFFICES ASSUME FrontInit PROVE FrontInv
  OBVIOUS
<1>1. FrontTypeOK
  BY InitTypes
<1>2. CreatedThenRuns /\ OrdersExclude /\ KeysExclude /\ OneRunPerKey /\ Stored
  BY DEF FrontInit, CreatedThenRuns, OrdersExclude, KeysExclude, OneRunPerKey, Stored
<1>3. \A r \in Request : answer[r].order = NoOrder
  BY DEF FrontInit, Nothing
<1> QED BY <1>1, <1>2, <1>3 DEF FrontInv, AnswersBacked

LEMMA InvUnchanged ==
  ASSUME FrontInv, FrontTypeOK', UNCHANGED <<pc, asked, created, status, answer>>
  PROVE  FrontInv'
  BY DEF FrontInv, CreatedThenRuns, OrdersExclude, KeysExclude, OneRunPerKey, Stored, AnswersBacked

LEMMA NextInv ==
  ASSUME FrontInv, [FrontNext]_frontVars
  PROVE  FrontInv'
<1>1. FrontTypeOK /\ CreatedThenRuns
  BY DEF FrontInv
<1>2. FrontTypeOK'
  BY <1>1, NextTypes
<1>3. UNCHANGED <<pc, asked, created, status, answer>> \/ \E r \in Request : Moves(r)
  BY <1>1, NextMoves
<1> QED BY <1>2, <1>3, InvMoves, InvUnchanged

LEMMA Invariance == FrontSpec => []FrontInv
<1>1. FrontInv /\ [FrontNext]_frontVars => FrontInv'
  BY NextInv
<1> QED BY InitInv, <1>1, PTL DEF FrontSpec

-----------------------------------------------------------------------------
(* A key buys one order, whatever fails, for any number of requests.       *)
THEOREM OneRunPerKeyHolds == FrontSpec => []OneRunPerKey
<1>1. FrontInv => OneRunPerKey
  BY DEF FrontInv
<1> QED BY Invariance, <1>1, PTL

(* All clients that use a key and are told an order are told the same one. *)
THEOREM AnswersAgreeHolds == FrontSpec => []AnswersAgree
<1>1. ASSUME FrontInv PROVE AnswersAgree
  <2>1. ASSUME NEW r \in Request, answer[r].order # NoOrder
        PROVE  status[answer[r].order] # "none"
    BY <1>1, <2>1 DEF FrontInv, AnswersBacked, Stored
  <2>2. ASSUME NEW r \in Request, NEW s \in Request,
               answer[r].order # NoOrder, answer[s].order # NoOrder,
               asked[r].key = asked[s].key, asked[r].key # NoKey
        PROVE  answer[r].order = answer[s].order
    <3>1. PICK t \in created : asked[t].id = answer[r].order /\ asked[t].key = asked[r].key
      BY <1>1, <2>2 DEF FrontInv, AnswersBacked
    <3>2. PICK u \in created : asked[u].id = answer[s].order /\ asked[u].key = asked[s].key
      BY <1>1, <2>2 DEF FrontInv, AnswersBacked
    <3>3. t = u
      BY <1>1, <2>2, <3>1, <3>2 DEF FrontInv, FrontTypeOK, OneRunPerKey
    <3> QED BY <3>1, <3>2, <3>3
  <2> QED BY <2>1, <2>2 DEF AnswersAgree
<1> QED BY Invariance, <1>1, PTL
==============================================================================
