-------------------------- MODULE BenchRunnerProofs --------------------------
(***************************************************************************)
(* Proofs about the benchmark runner and the server it drives, for any     *)
(* number of transactions, workers and operations, any sets of faults and  *)
(* any latencies.                                                          *)
(***************************************************************************)
EXTENDS BenchRunner, CheckoutFrontProofs, PercentileProofs, SequenceTheorems, TLAPS

benchAll == <<frontVars, benchVars>>

-----------------------------------------------------------------------------
(* The inductive invariant.                                                *)

(* The transactions that workers at one of these steps hold.               *)
Busy == {"send", "wait", "await", "ok", "failed"}
HeldAt(steps) == {job[w] : w \in {v \in Worker : step[v] \in steps}}
Held(steps) == Cardinality(HeldAt(steps))

(* A transaction is waiting, or one worker has it, or it is recorded.      *)
JobsDiffer ==
  \A w \in Worker : step[w] \in Busy =>
    /\ job[w] \notin tasks
    /\ \A v \in Worker : step[v] \in Busy /\ v # w => job[v] # job[w]

(* What a place tells of the flags, and of what is left to do.             *)
PlaceTells ==
  \A w \in Worker :
    /\ step[w] \in {"wait", "await"} => scenario = "checkout"
    /\ step[w] = "await" => awaitFinal
    /\ step[w] = "exited" => tasks = {}

(* The operations called for transactions that are under way in a direct   *)
(* scenario.                                                               *)
Called ==
  {x \in Request \X (1..DirectOps) :
     \E w \in Worker : /\ job[w] = x[1]
                       /\ step[w] = "ok" \/ (step[w] = "send" /\ x[2] < op[w])}

(* The metrics account for every transaction, as far as it has come.       *)
TransactionsAdd ==
  /\ m.success + m.errors + Held(Busy) + Cardinality(tasks) = Cardinality(Request)
  /\ Len(m.latencies) = m.success
  /\ Errors(m) = m.errors + Held({"failed"})

FinalsAdd ==
  LET waits == m.finals + m.finalTimeout
      done == m.success + Held({"ok"})
  IN  IF awaitFinal /\ scenario = "checkout"
      THEN waits <= done /\ (ConnectionsLast => waits = done)
      ELSE waits = 0

AnswersAdd == scenario = "checkout" =>
  /\ Codes(m) = m.success + m.errors + Held({"await", "ok", "failed"})
  /\ m.statusCounts["200"] >= m.success + Held({"await", "ok"})

CallsAdd == scenario = "direct" =>
  m.statusCounts["200"] >= DirectOps * m.success + Cardinality(Called)

CountsAdd == TransactionsAdd /\ FinalsAdd /\ AnswersAdd /\ CallsAdd

(* In milliseconds, the extremes are those of the sample.                  *)
AreExtremes(least, most, sample) ==
  /\ sample = <<>> <=> least = 0
  /\ sample = <<>> => most = 0
  /\ sample # <<>> => /\ \E i \in 1..Len(sample) : sample[i] = Milliseconds(least)
                     /\ \E i \in 1..Len(sample) : sample[i] = Milliseconds(most)
  /\ \A i \in 1..Len(sample) :
       Milliseconds(least) <= sample[i] /\ sample[i] <= Milliseconds(most)

ExtremesBound == AreExtremes(m.min, m.max, m.latencies)

(* The report is made of the last metrics.                                 *)
ReportIsLast ==
  report # NoReport =>
    /\ \A w \in Worker : step[w] = "exited"
    /\ report.metrics = m
    /\ report.min = Milliseconds(m.min) /\ report.max = Milliseconds(m.max)
    /\ report.percentiles = [p \in Percents |-> percentile(Sorted(m.latencies), p)]

CountInv ==
  /\ TypeOK /\ JobsDiffer /\ PlaceTells /\ CountsAdd /\ ExtremesBound /\ ReportIsLast

-----------------------------------------------------------------------------
(* What the server tells, for FinalizedIsSettled.                          *)

Quiet == {"db", "ctx"} \cap faults = {}

(* The order of a request is its own, and what is answered is what is      *)
(* stored, as long as the context of the request lives.                    *)
ServerTells(r) ==
  /\ pc[r] = "idle" \/ asked[r] = [key |-> r, id |-> r]
  /\ r \in created => pc[r] \in {"run", "answered", "crashed"}
  /\ status[r] # "none" => r \in created
  /\ pc[r] = "run" => r \in created /\ status[r] = "PROCESSING"
  /\ pc[r] = "answered" =>
       /\ answer[r].status # "FAILED" => answer[r].order = r
       /\ Quiet /\ ctx[r] = "live" /\ answer[r].status \in Finals => status[r] = "CONFIRMED"

(* So who is told of success is told an order to wait for.                 *)
AnswersName ==
  \A r \in Request :
    pc[r] = "answered" /\ StatusCode(answer[r].status) = "200" => answer[r].order # NoOrder

(* The transactions that may still be counted as final.                    *)
Unsettled == tasks \cup HeldAt({"send", "wait", "await"})

WaitersTold ==
  /\ \A w \in Worker : step[w] = "await" =>
       pc[job[w]] = "answered" /\ StatusCode(answer[job[w]].status) = "200"
  /\ Quiet => \A r \in Unsettled : ctx[r] = "live"

Confirmed == {r \in Request : status[r] = "CONFIRMED"}

FinalsBacked == Quiet => m.finals <= Cardinality(Confirmed \ Unsettled)

ServerInv ==
  /\ \A r \in Request : ServerTells(r)
  /\ \A o \in OrderId \ Request : status[o] = "none"

FinalInv == CountInv /\ ServerInv /\ WaitersTold /\ FinalsBacked

-----------------------------------------------------------------------------
(* The metrics.                                                            *)

LEMMA StatusRecorded ==
  ASSUME m \in Metrics, NEW code \in Code, NEW said, recordStatus(code, said)
  PROVE  /\ m' \in Metrics
         /\ m'.success = m.success /\ m'.errors = m.errors
         /\ m'.min = m.min /\ m'.max = m.max /\ m'.latencies = m.latencies
         /\ m'.finals = m.finals /\ m'.finalTimeout = m.finalTimeout
         /\ Codes(m') = Codes(m) + 1
         /\ Errors(m') = Errors(m) + IF code = "200" THEN 0 ELSE 1
         /\ m'.statusCounts["200"] = m.statusCounts["200"] + IF code = "200" THEN 1 ELSE 0
<1> DEFINE class == classifyError(code, said)
<1>1. m.statusCounts \in [Code -> Nat] /\ m.errorClasses \in [Class -> Nat]
  BY DEF Metrics
<1>2. class \in Class
  BY DEF classifyError, Class
<1>3. /\ m'.success = m.success /\ m'.errors = m.errors
      /\ m'.min = m.min /\ m'.max = m.max /\ m'.latencies = m.latencies
      /\ m'.finals = m.finals /\ m'.finalTimeout = m.finalTimeout
      /\ m'.statusCounts = [m.statusCounts EXCEPT ![code] = @ + 1]
      /\ m'.errorClasses = IF code = "200" THEN m.errorClasses
                           ELSE [m.errorClasses EXCEPT ![class] = @ + 1]
  <2>1. CASE code = "200"
    BY <1>1, <2>1 DEF recordStatus, Metrics
  <2>2. CASE code # "200"
    BY <1>1, <2>2 DEF recordStatus, Metrics
  <2> QED BY <2>1, <2>2
<1> HIDE DEF class
<1>4. m'.statusCounts \in [Code -> Nat] /\ m'.errorClasses \in [Class -> Nat]
  BY <1>1, <1>2, <1>3
<1>5. m' \in Metrics
  <2>1. CASE code = "200"
    BY <1>1, <2>1, <1>3, <1>4 DEF recordStatus, Metrics
  <2>2. CASE code # "200"
    BY <1>1, <2>2, <1>3, <1>4 DEF recordStatus, Metrics
  <2> QED BY <2>1, <2>2
<1>6. Codes(m') = Codes(m) + 1
  BY <1>1, <1>3 DEF Codes, Code
<1>7. Errors(m') = Errors(m) + IF code = "200" THEN 0 ELSE 1
  BY <1>1, <1>2, <1>3 DEF Errors, Class
<1>8. m'.statusCounts["200"] = m.statusCounts["200"] + IF code = "200" THEN 1 ELSE 0
  BY <1>1, <1>3 DEF Code
<1> QED BY <1>3, <1>5, <1>6, <1>7, <1>8

LEMMA FinalRecorded ==
  ASSUME m \in Metrics, NEW reached \in BOOLEAN, recordFinal(reached)
  PROVE  /\ m' \in Metrics
         /\ m'.success = m.success /\ m'.errors = m.errors
         /\ m'.min = m.min /\ m'.max = m.max /\ m'.latencies = m.latencies
         /\ m'.statusCounts = m.statusCounts /\ m'.errorClasses = m.errorClasses
         /\ m'.finals = m.finals + IF reached THEN 1 ELSE 0
         /\ m'.finals + m'.finalTimeout = m.finals + m.finalTimeout + 1
<1>1. m.finals \in Nat /\ m.finalTimeout \in Nat
  BY DEF Metrics
<1>2. CASE reached
  <2>1. m' = [m EXCEPT !.finals = m.finals + 1] /\ m.finals + 1 \in Nat
    BY <1>1, <1>2 DEF recordFinal
  <2>2. /\ m' \in Metrics
        /\ m'.success = m.success /\ m'.errors = m.errors
        /\ m'.min = m.min /\ m'.max = m.max /\ m'.latencies = m.latencies
        /\ m'.statusCounts = m.statusCounts /\ m'.errorClasses = m.errorClasses
        /\ m'.finals = m.finals + 1 /\ m'.finalTimeout = m.finalTimeout
    BY <2>1 DEF Metrics
  <2> QED BY <1>1, <1>2, <2>2
<1>3. CASE ~reached
  <2>1. m' = [m EXCEPT !.finalTimeout = m.finalTimeout + 1] /\ m.finalTimeout + 1 \in Nat
    BY <1>1, <1>3 DEF recordFinal
  <2>2. /\ m' \in Metrics
        /\ m'.success = m.success /\ m'.errors = m.errors
        /\ m'.min = m.min /\ m'.max = m.max /\ m'.latencies = m.latencies
        /\ m'.statusCounts = m.statusCounts /\ m'.errorClasses = m.errorClasses
        /\ m'.finals = m.finals /\ m'.finalTimeout = m.finalTimeout + 1
    BY <2>1 DEF Metrics
  <2> QED BY <1>1, <1>3, <2>2
<1> QED BY <1>2, <1>3

(* Truncation keeps the order of durations.                                *)
LEMMA MillisecondsMonotone ==
  /\ \A d \in Nat : Milliseconds(d) \in Nat
  /\ \A d, e \in Nat : d <= e => Milliseconds(d) <= Milliseconds(e)
  BY DEF Milliseconds

LEMMA TransactionRecorded ==
  ASSUME m \in Metrics, NEW latency \in Latency, NEW failed \in BOOLEAN,
         recordTransaction(latency, failed)
  PROVE  /\ m' \in Metrics
         /\ m'.statusCounts = m.statusCounts /\ m'.errorClasses = m.errorClasses
         /\ m'.finals = m.finals /\ m'.finalTimeout = m.finalTimeout
         /\ failed => /\ m'.errors = m.errors + 1 /\ m'.success = m.success
                      /\ m'.min = m.min /\ m'.max = m.max /\ m'.latencies = m.latencies
         /\ ~failed => /\ m'.errors = m.errors /\ m'.success = m.success + 1
                       /\ m'.latencies = Append(m.latencies, Milliseconds(latency))
                       /\ m'.min = IF m.min = 0 \/ latency < m.min THEN latency ELSE m.min
                       /\ m'.max = IF latency > m.max THEN latency ELSE m.max
<1>1. latency \in Nat
  BY BenchAssumption
<1>2. Append(m.latencies, Milliseconds(latency)) \in Seq(Nat)
  BY <1>1, MillisecondsMonotone, AppendProperties DEF Metrics
<1>3. m.success \in Nat /\ m.errors \in Nat /\ m.min \in Nat /\ m.max \in Nat
  BY DEF Metrics
<1>4. CASE failed
  <2>1. m' = [m EXCEPT !.errors = m.errors + 1] /\ m.errors + 1 \in Nat
    BY <1>3, <1>4 DEF recordTransaction
  <2>2. /\ m' \in Metrics
        /\ m'.success = m.success /\ m'.errors = m.errors + 1
        /\ m'.min = m.min /\ m'.max = m.max /\ m'.latencies = m.latencies
        /\ m'.statusCounts = m.statusCounts /\ m'.errorClasses = m.errorClasses
        /\ m'.finals = m.finals /\ m'.finalTimeout = m.finalTimeout
    BY <2>1 DEF Metrics
  <2> QED BY <1>4, <2>2
<1>5. CASE ~failed
  <2> DEFINE least == IF m.min = 0 \/ latency < m.min THEN latency ELSE m.min
             most == IF latency > m.max THEN latency ELSE m.max
             sample == Append(m.latencies, Milliseconds(latency))
  <2>1. m' = [m EXCEPT !.success = @ + 1, !.min = least, !.max = most, !.latencies = sample]
    BY <1>5 DEF recordTransaction
  <2>2. least \in Nat /\ most \in Nat /\ sample \in Seq(Nat) /\ m.success + 1 \in Nat
    BY <1>1, <1>2, <1>3
  <2> HIDE DEF least, most, sample
  <2>3. /\ m' \in Metrics
        /\ m'.success = m.success + 1 /\ m'.errors = m.errors
        /\ m'.statusCounts = m.statusCounts /\ m'.errorClasses = m.errorClasses
        /\ m'.finals = m.finals /\ m'.finalTimeout = m.finalTimeout
        /\ m'.min = least /\ m'.max = most /\ m'.latencies = sample
    BY <2>1, <2>2 DEF Metrics
  <2> QED BY <1>5, <2>3 DEF least, most, sample
<1> QED BY <1>4, <1>5

-----------------------------------------------------------------------------
(* The transactions the workers hold.                                      *)

LEMMA HeldType ==
  ASSUME TypeOK, NEW steps
  PROVE  /\ HeldAt(steps) \in SUBSET Request /\ IsFiniteSet(HeldAt(steps))
         /\ Held(steps) \in Nat
<1>1. HeldAt(steps) \in SUBSET Request
  BY DEF HeldAt, TypeOK
<1>2. IsFiniteSet(HeldAt(steps))
  BY <1>1, BenchAssumption, FS_Subset
<1> QED BY <1>1, <1>2, FS_CardinalityType DEF Held

(* A worker goes on with its transaction, or is done with it.              *)
Walks(w, label) == Step(w, label) /\ job' = job /\ tasks' = tasks

LEMMA HeldMoves ==
  ASSUME TypeOK, JobsDiffer, NEW w \in Worker, NEW label, step[w] \in Busy, Walks(w, label),
         NEW steps \in SUBSET Busy
  PROVE  /\ HeldAt(steps)' = IF label \in steps THEN HeldAt(steps) \cup {job[w]}
                             ELSE HeldAt(steps) \ {job[w]}
         /\ step[w] \in steps <=> job[w] \in HeldAt(steps)
         /\ Held(steps)' = Held(steps) + (IF label \in steps THEN 1 ELSE 0)
                                       - (IF step[w] \in steps THEN 1 ELSE 0)
<1>1. \A v \in Worker : step'[v] = IF v = w THEN label ELSE step[v]
  BY DEF Walks, Step, TypeOK
<1>2. step[w] \in steps <=> job[w] \in HeldAt(steps)
  BY DEF HeldAt, JobsDiffer
<1>3. \A v \in Worker : step[v] \in steps /\ v # w => job[v] # job[w]
  BY DEF JobsDiffer
<1>4. HeldAt(steps)' = IF label \in steps THEN HeldAt(steps) \cup {job[w]}
                       ELSE HeldAt(steps) \ {job[w]}
  <2>1. HeldAt(steps)' = {job[v] : v \in {u \in Worker : step'[u] \in steps}}
    BY DEF HeldAt, Walks
  <2>2. \A x : x \in HeldAt(steps)' <=> \E v \in Worker : step'[v] \in steps /\ x = job[v]
    BY <2>1
  <2>3. \A x : x \in HeldAt(steps) <=> \E v \in Worker : step[v] \in steps /\ x = job[v]
    BY DEF HeldAt
  <2>4. CASE label \in steps
    BY <1>1, <2>2, <2>3, <2>4
  <2>5. CASE label \notin steps
    BY <1>1, <1>3, <2>2, <2>3, <2>5
  <2> QED BY <2>4, <2>5
<1>5. IsFiniteSet(HeldAt(steps)) /\ Held(steps) \in Nat
  BY HeldType
<1>6. Held(steps)' = Cardinality(HeldAt(steps)')
  BY DEF Held
<1>7. CASE label \in steps
  <2>1. Held(steps)' = IF job[w] \in HeldAt(steps) THEN Held(steps) ELSE Held(steps) + 1
    BY <1>4, <1>5, <1>6, <1>7, FS_AddElement DEF Held
  <2> QED BY <1>2, <1>4, <1>5, <1>7, <2>1
<1>8. CASE label \notin steps
  <2>1. Held(steps)' = IF job[w] \in HeldAt(steps) THEN Held(steps) - 1 ELSE Held(steps)
    BY <1>4, <1>5, <1>6, <1>8, FS_RemoveElement DEF Held
  <2> QED BY <1>2, <1>4, <1>5, <1>8, <2>1
<1> QED BY <1>7, <1>8

LEMMA JobsKept ==
  ASSUME TypeOK, JobsDiffer, NEW w \in Worker, NEW label, step[w] \in Busy, Walks(w, label)
  PROVE  JobsDiffer'
<1>1. \A v \in Worker : step'[v] = IF v = w THEN label ELSE step[v]
  BY DEF Walks, Step, TypeOK
<1> QED BY <1>1 DEF JobsDiffer, Walks

(* A worker takes a transaction.                                           *)
LEMMA TakeEffect ==
  ASSUME TypeOK, JobsDiffer, NEW w \in Worker, Take(w)
  PROVE  /\ JobsDiffer'
         /\ \E r \in tasks :
              /\ tasks' = tasks \ {r}
              /\ \A steps \in SUBSET Busy :
                   HeldAt(steps)' = IF "send" \in steps THEN HeldAt(steps) \cup {r}
                                    ELSE HeldAt(steps)
         /\ Cardinality(tasks') = Cardinality(tasks) - 1 /\ Cardinality(tasks) \in Nat
         /\ \A steps \in SUBSET Busy :
              Held(steps)' = IF "send" \in steps THEN Held(steps) + 1 ELSE Held(steps)
<1>1. PICK r \in tasks : tasks' = tasks \ {r} /\ job' = [job EXCEPT ![w] = r]
  BY DEF Take
<1>2. /\ step[w] = "take" /\ tasks \subseteq Request
      /\ \A v \in Worker : step'[v] = IF v = w THEN "send" ELSE step[v]
      /\ \A v \in Worker : job'[v] = IF v = w THEN r ELSE job[v]
  BY <1>1 DEF Take, Step, TypeOK
<1>3. JobsDiffer'
  BY <1>1, <1>2 DEF JobsDiffer, Busy
<1>4. ASSUME NEW steps \in SUBSET Busy
      PROVE  /\ HeldAt(steps)' = IF "send" \in steps THEN HeldAt(steps) \cup {r} ELSE HeldAt(steps)
             /\ Held(steps)' = IF "send" \in steps THEN Held(steps) + 1 ELSE Held(steps)
  <2>1. HeldAt(steps)' = {job'[v] : v \in {u \in Worker : step'[u] \in steps}}
    BY DEF HeldAt
  <2>2. \A x : x \in HeldAt(steps)' <=> \E v \in Worker : step'[v] \in steps /\ x = job'[v]
    BY <2>1
  <2>3. \A x : x \in HeldAt(steps) <=> \E v \in Worker : step[v] \in steps /\ x = job[v]
    BY DEF HeldAt
  <2>4. "take" \notin steps
    BY DEF Busy
  <2>5. HeldAt(steps)' = IF "send" \in steps THEN HeldAt(steps) \cup {r} ELSE HeldAt(steps)
    <3>1. CASE "send" \in steps
      BY <1>2, <2>2, <2>3, <2>4, <3>1
    <3>2. CASE "send" \notin steps
      BY <1>2, <2>2, <2>3, <2>4, <3>2
    <3> QED BY <3>1, <3>2
  <2>6. r \notin HeldAt(steps)
    BY <2>3 DEF JobsDiffer
  <2>7. IsFiniteSet(HeldAt(steps))
    BY HeldType
  <2>8. Held(steps)' = Cardinality(HeldAt(steps)')
    BY DEF Held
  <2>9. Held(steps)' = IF "send" \in steps THEN Held(steps) + 1 ELSE Held(steps)
    BY <2>5, <2>6, <2>7, <2>8, FS_AddElement DEF Held
  <2> QED BY <2>5, <2>9
<1>5. IsFiniteSet(tasks)
  BY <1>2, BenchAssumption, FS_Subset
<1>6. Cardinality(tasks \ {r}) = Cardinality(tasks) - 1
  BY <1>5, FS_RemoveElement
<1> QED BY <1>1, <1>3, <1>4, <1>5, <1>6, FS_CardinalityType

-----------------------------------------------------------------------------
(* The types.                                                              *)

Place == {"take", "send", "wait", "await", "ok", "failed", "exited"}

LEMMA BenchInitTypes == Init => TypeOK
<1> SUFFICES ASSUME Init PROVE TypeOK
  OBVIOUS
<1>1. (CHOOSE r \in Request : TRUE) \in Request /\ 1 \in 1..DirectOps
  BY BenchAssumption
<1>2. newMetrics \in Metrics
  BY DEF newMetrics, Metrics
<1> QED BY <1>1, <1>2, InitTypes DEF Init, TypeOK

LEMMA FrontSame == FrontTypeOK /\ UNCHANGED frontVars => FrontTypeOK'
  BY DEF FrontTypeOK, frontVars

LEMMA StepType ==
  ASSUME TypeOK, NEW w \in Worker, NEW label \in Place, Step(w, label)
  PROVE  /\ step' \in [Worker -> Place]
         /\ \A v \in Worker : step'[v] = IF v = w THEN label ELSE step[v]
  BY DEF TypeOK, Step, Place

(* What reading an answer comes to: a worker that is to wait for the final *)
(* status goes on without when the body is cut.                            *)
LEMMA ReceiveEffect ==
  ASSUME NEW w \in Worker, Receive(w)
  PROVE  \E body \in Body(job[w]), code \in Code, label \in Place :
           /\ recordStatus(code, body.status) /\ Step(w, label)
           /\ code = StatusCode(answer[job[w]].status)
           /\ label \in {"failed", "await", "ok"}
           /\ label = "failed" <=> code # "200"
           /\ label = "await" => awaitFinal
           /\ label = "ok" /\ awaitFinal => ~ConnectionsLast \/ answer[job[w]].order = NoOrder
<1> DEFINE code == StatusCode(answer[job[w]].status)
<1>1. PICK body \in Body(job[w]) :
        /\ recordStatus(code, body.status)
        /\ Step(w, IF code # "200" THEN "failed"
                   ELSE IF awaitFinal /\ body.order # NoOrder THEN "await" ELSE "ok")
  BY DEF Receive
<1> DEFINE label == IF code # "200" THEN "failed"
                    ELSE IF awaitFinal /\ body.order # NoOrder THEN "await" ELSE "ok"
<1>2. code \in Code
  BY DEF StatusCode, Code
<1>3. ConnectionsLast => body = answer[job[w]]
  BY DEF Body
<1>4. /\ label \in {"failed", "await", "ok"} /\ label \in Place
      /\ label = "failed" <=> code # "200"
      /\ label = "await" => awaitFinal
      /\ label = "ok" /\ awaitFinal => body.order = NoOrder
  BY DEF Place
<1> HIDE DEF code, label
<1>5. recordStatus(code, body.status) /\ Step(w, label)
  BY <1>1 DEF label
<1> QED BY <1>2, <1>3, <1>4, <1>5 DEF code

LEMMA WorkTypes ==
  ASSUME TypeOK, NEW w \in Worker, Work(w)
  PROVE  TypeOK'
<1>1. job[w] \in Request /\ op[w] \in 1..DirectOps /\ m \in Metrics /\ DirectOps \in Nat
  BY BenchAssumption DEF TypeOK
<1>2. CASE Take(w)
  <2>1. PICK r \in tasks : tasks' = tasks \ {r} /\ job' = [job EXCEPT ![w] = r]
    BY <1>2 DEF Take
  <2>2. op' \in [Worker -> 1..DirectOps] /\ job' \in [Worker -> Request] /\ tasks' \subseteq Request
    BY <1>2, <2>1, BenchAssumption DEF Take, TypeOK
  <2>3. step' \in [Worker -> Place] /\ FrontTypeOK'
    BY <1>2, StepType, FrontSame DEF Take, Place, TypeOK
  <2> QED BY <1>2, <2>2, <2>3 DEF Take, TypeOK, Place, flags
<1>3. CASE Send(w)
  <2>1. [key |-> job[w], id |-> job[w]] \in Input
    BY <1>1, BenchAssumption DEF Input
  <2>2. FrontTypeOK'
    BY <1>1, <1>3, <2>1, NextTypes DEF Send, FrontNext, TypeOK
  <2>3. step' \in [Worker -> Place]
    BY <1>3, StepType DEF Send, Place
  <2> QED BY <1>3, <2>2, <2>3 DEF Send, TypeOK, Place, flags
<1>4. CASE Receive(w)
  <2>1. PICK body \in Body(job[w]), code \in Code, label \in Place :
          recordStatus(code, body.status) /\ Step(w, label)
    BY <1>4, ReceiveEffect
  <2>3. m' \in Metrics /\ step' \in [Worker -> Place]
    BY <1>1, <2>1, StatusRecorded, StepType
  <2> QED BY <1>4, <2>3, FrontSame DEF Receive, TypeOK, Place, flags
<1>5. CASE TransportFails(w)
  <2>1. "0" \in Code /\ "failed" \in Place
    BY DEF Code, Place
  <2>2. recordStatus("0", "none") /\ Step(w, "failed")
    BY <1>5 DEF TransportFails
  <2>3. m' \in Metrics /\ step' \in [Worker -> Place]
    BY <1>1, <2>1, <2>2, StatusRecorded, StepType
  <2>4. FrontTypeOK'
    BY <1>1, <1>5 DEF TransportFails, FrontTypeOK, TypeOK
  <2> QED BY <1>5, <2>3, <2>4 DEF TransportFails, TypeOK, Place, flags
<1>6. CASE CallDirect(w)
  <2>1. PICK code \in Code :
          /\ recordStatus(code, "none")
          /\ IF code # "200" THEN Step(w, "failed") /\ UNCHANGED op
             ELSE IF op[w] = DirectOps THEN Step(w, "ok") /\ UNCHANGED op
             ELSE op' = [op EXCEPT ![w] = @ + 1] /\ UNCHANGED step
    BY <1>6 DEF CallDirect, Code
  <2>2. m' \in Metrics
    BY <1>1, <2>1, StatusRecorded
  <2>3. step' \in [Worker -> Place]
    BY <2>1, StepType DEF Place, TypeOK
  <2>4. op' \in [Worker -> 1..DirectOps]
    <3>1. op[w] # DirectOps => op[w] + 1 \in 1..DirectOps
      BY <1>1
    <3> QED BY <2>1, <3>1 DEF TypeOK
  <2> QED BY <1>6, <2>2, <2>3, <2>4, FrontSame DEF CallDirect, TypeOK, Place, flags
<1>7. CASE AwaitReaches(w) \/ AwaitTimesOut(w)
  <2>1. m' \in Metrics
    BY <1>1, <1>7, FinalRecorded DEF AwaitReaches, AwaitTimesOut
  <2>2. step' \in [Worker -> Place]
    BY <1>7, StepType DEF AwaitReaches, AwaitTimesOut, Place
  <2> QED BY <1>7, <2>1, <2>2, FrontSame DEF AwaitReaches, AwaitTimesOut, TypeOK, Place, flags
<1>8. CASE Record(w)
  <2>1. PICK latency \in Latency : recordTransaction(latency, step[w] = "failed")
    BY <1>8 DEF Record
  <2>2. m' \in Metrics
    BY <1>1, <2>1, TransactionRecorded
  <2>3. step' \in [Worker -> Place]
    BY <1>8, StepType DEF Record, Place
  <2> QED BY <1>8, <2>2, <2>3, FrontSame DEF Record, TypeOK, Place, flags
<1>9. CASE Exit(w)
  <2>1. step' \in [Worker -> Place]
    BY <1>9, StepType DEF Exit, Place
  <2> QED BY <1>9, <2>1, FrontSame DEF Exit, TypeOK, Place, flags
<1> QED BY <1>2, <1>3, <1>4, <1>5, <1>6, <1>7, <1>8, <1>9 DEF Work

LEMMA BenchTypes == TypeOK /\ [Next]_benchAll => TypeOK'
<1> SUFFICES ASSUME TypeOK, [Next]_benchAll PROVE TypeOK'
  OBVIOUS
<1>1. ASSUME NEW r \in Request, Server(r) PROVE TypeOK'
  <2>1. FrontTypeOK'
    <3>1. FrontNext
      BY <1>1 DEF Server, FrontNext
    <3> QED BY <3>1, NextTypes DEF TypeOK
  <2> QED BY <1>1, <2>1 DEF Server, TypeOK, benchVars
<1>2. CASE Report
  BY <1>2, FrontSame DEF Report, Result, TypeOK, flags
<1>3. CASE Done \/ UNCHANGED benchAll
  BY <1>3, FrontSame DEF Done, benchAll, TypeOK, benchVars
<1> QED BY <1>1, <1>2, <1>3, WorkTypes DEF Next

-----------------------------------------------------------------------------
(* The metrics account for every transaction.                              *)

LEMMA CountInit == Init => CountInv
<1> SUFFICES ASSUME Init PROVE CountInv
  OBVIOUS
<1>1. \A w \in Worker : step[w] = "take"
  BY DEF Init
<1>2. TypeOK
  BY BenchInitTypes
<1>3. JobsDiffer /\ PlaceTells /\ ReportIsLast
  BY <1>1 DEF JobsDiffer, PlaceTells, ReportIsLast, Busy, Init
<1>4. ASSUME NEW steps \in SUBSET Busy
      PROVE  Held(steps) = 0
  <2>1. HeldAt(steps) = {}
    BY <1>1 DEF HeldAt, Busy
  <2> QED BY <2>1, FS_EmptySet DEF Held
<1>5. Cardinality(Called) = 0
  <2>1. Called = {}
    BY <1>1 DEF Called
  <2> QED BY <2>1, FS_EmptySet
<1>6. Cardinality(Request) \in Nat /\ tasks = Request
  BY BenchAssumption, FS_CardinalityType DEF Init
<1>7. /\ m.success = 0 /\ m.errors = 0 /\ m.min = 0 /\ m.max = 0 /\ m.latencies = <<>>
      /\ m.finals = 0 /\ m.finalTimeout = 0
      /\ m.statusCounts = [c \in Code |-> 0] /\ m.errorClasses = [c \in Class |-> 0]
  BY DEF Init, newMetrics
<1>8. Errors(m) = 0 /\ Codes(m) = 0 /\ m.statusCounts["200"] = 0
  BY <1>7 DEF Errors, Codes, Code, Class
<1>9. DirectOps * 0 = 0
  BY BenchAssumption
<1>10. CountsAdd
  <2>1. /\ Held(Busy) = 0 /\ Held({"failed"}) = 0 /\ Held({"ok"}) = 0
        /\ Held({"await", "ok", "failed"}) = 0 /\ Held({"await", "ok"}) = 0
    BY <1>4 DEF Busy
  <2> QED BY <1>5, <1>6, <1>7, <1>8, <1>9, <2>1
    DEF CountsAdd, TransactionsAdd, FinalsAdd, AnswersAdd, CallsAdd
<1>11. ExtremesBound
  BY <1>7 DEF ExtremesBound, AreExtremes
<1> QED BY <1>2, <1>3, <1>10, <1>11 DEF CountInv

LEMMA NotReported ==
  ASSUME ReportIsLast, NEW w \in Worker, step[w] # "exited"
  PROVE  report = NoReport
  BY DEF ReportIsLast

(* The types of what is counted.                                           *)
LEMMA CountTypes ==
  ASSUME TypeOK
  PROVE  /\ m \in Metrics /\ DirectOps \in Nat \ {0}
         /\ m.success \in Nat /\ m.errors \in Nat /\ m.finals \in Nat /\ m.finalTimeout \in Nat
         /\ Errors(m) \in Nat /\ Codes(m) \in Nat /\ m.statusCounts["200"] \in Nat
         /\ Cardinality(Request) \in Nat /\ Cardinality(tasks) \in Nat
         /\ IsFiniteSet(Called) /\ Cardinality(Called) \in Nat
         /\ \A steps \in SUBSET Busy : Held(steps) \in Nat
<1>1. m \in Metrics /\ DirectOps \in Nat \ {0} /\ IsFiniteSet(Request) /\ tasks \in SUBSET Request
  BY BenchAssumption DEF TypeOK
<1>2. Errors(m) \in Nat /\ Codes(m) \in Nat /\ m.statusCounts["200"] \in Nat
  <2>1. \A c \in Code : m.statusCounts[c] \in Nat
    BY <1>1 DEF Metrics
  <2>2. \A c \in Class : m.errorClasses[c] \in Nat
    BY <1>1 DEF Metrics
  <2>3. /\ m.statusCounts["0"] \in Nat /\ m.statusCounts["200"] \in Nat
        /\ m.statusCounts["409"] \in Nat /\ m.statusCounts["500"] \in Nat
    BY <2>1 DEF Code
  <2>4. /\ m.errorClasses["transport"] \in Nat /\ m.errorClasses["business_rejected"] \in Nat
        /\ m.errorClasses["http_4xx"] \in Nat /\ m.errorClasses["http_5xx"] \in Nat
    BY <2>2 DEF Class
  <2> QED BY <2>3, <2>4 DEF Errors, Codes
<1>3. Cardinality(Request) \in Nat /\ Cardinality(tasks) \in Nat
  BY <1>1, FS_Subset, FS_CardinalityType
<1>4. IsFiniteSet(Called)
  <2>1. IsFiniteSet(1..DirectOps)
    BY <1>1, FS_Interval
  <2>2. IsFiniteSet(Request \X (1..DirectOps))
    BY <1>1, <2>1, FS_Product
  <2>3. Called \in SUBSET (Request \X (1..DirectOps))
    BY DEF Called
  <2> QED BY <2>2, <2>3, FS_Subset
<1>5. Cardinality(Called) \in Nat
  BY <1>4, FS_CardinalityType
<1>6. \A steps \in SUBSET Busy : Held(steps) \in Nat
  BY HeldType
<1> QED BY <1>1, <1>2, <1>3, <1>4, <1>5, <1>6 DEF Metrics

(* A worker goes on from its step to a label.                              *)
LEMMA PlaceKept ==
  ASSUME TypeOK, PlaceTells, ReportIsLast, NEW w \in Worker, NEW label, step[w] \in Busy,
         Walks(w, label), UNCHANGED <<flags, report>>,
         label \in {"wait", "await"} => scenario = "checkout", label = "await" => awaitFinal,
         label # "exited"
  PROVE  PlaceTells' /\ ReportIsLast'
<1>1. \A v \in Worker : step'[v] = IF v = w THEN label ELSE step[v]
  BY DEF Walks, Step, TypeOK
<1>2. report' = NoReport
  BY NotReported DEF Busy
<1> QED BY <1>1, <1>2 DEF PlaceTells, ReportIsLast, Walks, flags

(* The answer to POST /checkout, or a failure, is recorded.                *)
LEMMA AnswerKeepsCounts ==
  ASSUME CountInv, TypeOK', NEW w \in Worker, NEW code \in Code, NEW said, NEW label,
         scenario = "checkout", step[w] \in {"send", "wait"}, Walks(w, label),
         recordStatus(code, said), UNCHANGED <<flags, report, faults>>,
         label \in {"failed", "await", "ok"}, label = "failed" <=> code # "200",
         label = "await" => awaitFinal, label = "ok" /\ awaitFinal => ~ConnectionsLast
  PROVE  CountInv'
<1>1. TypeOK /\ JobsDiffer /\ PlaceTells /\ CountsAdd /\ ExtremesBound /\ ReportIsLast
  BY DEF CountInv
<1>2. step[w] \in Busy
  BY DEF Busy
<1>3. JobsDiffer'
  BY <1>1, <1>2, JobsKept
<1>4. PlaceTells' /\ ReportIsLast'
  BY <1>1, <1>2, PlaceKept
<1>5. \A steps \in SUBSET Busy :
        Held(steps)' = Held(steps) + (IF label \in steps THEN 1 ELSE 0)
                                   - (IF step[w] \in steps THEN 1 ELSE 0)
  BY <1>1, <1>2, HeldMoves
<1>6. /\ Held(Busy)' = Held(Busy)
      /\ Held({"failed"})' = Held({"failed"}) + IF code # "200" THEN 1 ELSE 0
      /\ Held({"ok"})' = Held({"ok"}) + IF label = "ok" THEN 1 ELSE 0
      /\ Held({"await", "ok", "failed"})' = Held({"await", "ok", "failed"}) + 1
      /\ Held({"await", "ok"})' = Held({"await", "ok"}) + IF code = "200" THEN 1 ELSE 0
  <2> DEFINE held(steps) == Held(steps)' = Held(steps) + (IF label \in steps THEN 1 ELSE 0)
                                   - (IF step[w] \in steps THEN 1 ELSE 0)
  <2>1. held(Busy) /\ held({"failed"}) /\ held({"ok"}) /\ held({"await", "ok", "failed"})
        /\ held({"await", "ok"})
    BY <1>5 DEF Busy
  <2>2. /\ Held(Busy) \in Nat /\ Held({"failed"}) \in Nat /\ Held({"ok"}) \in Nat
        /\ Held({"await", "ok", "failed"}) \in Nat /\ Held({"await", "ok"}) \in Nat
    BY <1>1, HeldType
  <2> QED BY <1>2, <2>1, <2>2 DEF Busy
<1>7. /\ m'.success = m.success /\ m'.errors = m.errors
      /\ m'.min = m.min /\ m'.max = m.max /\ m'.latencies = m.latencies
      /\ m'.finals = m.finals /\ m'.finalTimeout = m.finalTimeout
      /\ Codes(m)' = Codes(m) + 1
      /\ Errors(m)' = Errors(m) + IF code = "200" THEN 0 ELSE 1
      /\ m'.statusCounts["200"] = m.statusCounts["200"] + IF code = "200" THEN 1 ELSE 0
  BY <1>1, StatusRecorded DEF TypeOK, Codes, Errors
<1>8. /\ scenario' = "checkout" /\ awaitFinal' = awaitFinal /\ tasks' = tasks
      /\ ConnectionsLast' = ConnectionsLast
  BY DEF flags, Walks, ConnectionsLast
<1>9. CountsAdd'
  <2>1. /\ m.success \in Nat /\ m.errors \in Nat /\ Errors(m) \in Nat /\ Codes(m) \in Nat
        /\ m.statusCounts["200"] \in Nat /\ Cardinality(tasks) \in Nat
    BY <1>1, CountTypes
  <2>2. /\ Held(Busy) \in Nat /\ Held({"failed"}) \in Nat /\ Held({"ok"}) \in Nat
        /\ Held({"await", "ok", "failed"}) \in Nat /\ Held({"await", "ok"}) \in Nat
    BY <1>1, HeldType
  <2>3. TransactionsAdd'
    BY <1>1, <1>6, <1>7, <1>8, <2>1, <2>2 DEF CountsAdd, TransactionsAdd
  <2>4. FinalsAdd'
    <3>1. m.finals \in Nat /\ m.finalTimeout \in Nat
      BY <1>1, CountTypes
    <3>2. CASE label = "ok"
      <4>1. Held({"ok"})' = Held({"ok"}) + 1
        BY <1>6, <3>2
      <4> QED BY <1>1, <1>7, <1>8, <2>1, <2>2, <3>1, <3>2, <4>1 DEF CountsAdd, FinalsAdd
    <3>3. CASE label # "ok"
      <4>1. Held({"ok"})' = Held({"ok"})
        BY <1>6, <2>2, <3>3
      <4> QED BY <1>1, <1>7, <1>8, <4>1 DEF CountsAdd, FinalsAdd
    <3> QED BY <3>2, <3>3
  <2>5. AnswersAdd'
    BY <1>1, <1>6, <1>7, <1>8, <2>1, <2>2 DEF CountsAdd, AnswersAdd
  <2>6. CallsAdd'
    BY <1>8 DEF CallsAdd
  <2> QED BY <2>3, <2>4, <2>5, <2>6 DEF CountsAdd
<1>10. ExtremesBound'
  BY <1>1, <1>7 DEF ExtremesBound
<1> QED BY <1>3, <1>4, <1>9, <1>10 DEF CountInv

(* The wait for a final status is over.                                    *)
LEMMA AwaitKeepsCounts ==
  ASSUME CountInv, TypeOK', NEW w \in Worker, step[w] = "await", Walks(w, "ok"),
         NEW reached \in BOOLEAN, recordFinal(reached), UNCHANGED <<flags, report, faults>>
  PROVE  CountInv'
<1>1. TypeOK /\ JobsDiffer /\ PlaceTells /\ CountsAdd /\ ExtremesBound /\ ReportIsLast
  BY DEF CountInv
<1>2. step[w] \in Busy /\ scenario = "checkout" /\ awaitFinal
  BY <1>1 DEF Busy, PlaceTells
<1>3. JobsDiffer'
  BY <1>1, <1>2, JobsKept
<1>4. PlaceTells' /\ ReportIsLast'
  BY <1>1, <1>2, PlaceKept
<1>5. /\ Held(Busy)' = Held(Busy)
      /\ Held({"failed"})' = Held({"failed"})
      /\ Held({"ok"})' = Held({"ok"}) + 1
      /\ Held({"await", "ok", "failed"})' = Held({"await", "ok", "failed"})
      /\ Held({"await", "ok"})' = Held({"await", "ok"})
  <2>1. \A steps \in SUBSET Busy :
          Held(steps)' = Held(steps) + (IF "ok" \in steps THEN 1 ELSE 0)
                                     - (IF step[w] \in steps THEN 1 ELSE 0)
    BY <1>1, <1>2, HeldMoves
  <2> DEFINE held(steps) == Held(steps)' = Held(steps) + (IF "ok" \in steps THEN 1 ELSE 0)
                                     - (IF step[w] \in steps THEN 1 ELSE 0)
  <2>2. held(Busy) /\ held({"failed"}) /\ held({"ok"}) /\ held({"await", "ok", "failed"})
        /\ held({"await", "ok"})
    BY <2>1 DEF Busy
  <2>3. /\ Held(Busy) \in Nat /\ Held({"failed"}) \in Nat /\ Held({"ok"}) \in Nat
        /\ Held({"await", "ok", "failed"}) \in Nat /\ Held({"await", "ok"}) \in Nat
    BY <1>1, HeldType
  <2> QED BY <2>2, <2>3 DEF Busy
<1>6. /\ m'.success = m.success /\ m'.errors = m.errors
      /\ m'.min = m.min /\ m'.max = m.max /\ m'.latencies = m.latencies
      /\ m'.finals + m'.finalTimeout = m.finals + m.finalTimeout + 1
      /\ Codes(m)' = Codes(m) /\ Errors(m)' = Errors(m)
      /\ m'.statusCounts["200"] = m.statusCounts["200"]
  BY <1>1, FinalRecorded DEF TypeOK, Codes, Errors
<1>7. /\ scenario' = "checkout" /\ awaitFinal' = awaitFinal /\ tasks' = tasks
      /\ ConnectionsLast' = ConnectionsLast
  BY <1>2 DEF flags, Walks, ConnectionsLast
<1>8. m.success \in Nat /\ Held({"ok"}) \in Nat /\ m.finals \in Nat /\ m.finalTimeout \in Nat
  BY <1>1, CountTypes, HeldType
<1>9. TransactionsAdd' /\ AnswersAdd' /\ CallsAdd'
  BY <1>1, <1>2, <1>5, <1>6, <1>7 DEF CountsAdd, TransactionsAdd, AnswersAdd, CallsAdd
<1>10. FinalsAdd'
  BY <1>1, <1>2, <1>5, <1>6, <1>7, <1>8 DEF CountsAdd, FinalsAdd
<1>11. ExtremesBound'
  BY <1>1, <1>6 DEF ExtremesBound
<1> QED BY <1>3, <1>4, <1>9, <1>10, <1>11 DEF CountInv, CountsAdd

(* The calls of a transaction that is done are counted with its success.   *)
LEMMA CalledWhenRecorded ==
  ASSUME TypeOK, JobsDiffer, NEW w \in Worker, step[w] \in {"ok", "failed"}, Walks(w, "take"),
         op' = op
  PROVE  Cardinality(Called)' = Cardinality(Called) - IF step[w] = "ok" THEN DirectOps ELSE 0
<1>1. \A v \in Worker : step'[v] = IF v = w THEN "take" ELSE step[v]
  BY DEF Walks, Step, TypeOK
<1>2. job' = job /\ job[w] \in Request
  BY DEF Walks, TypeOK
<1>3. ASSUME NEW x
      PROVE  /\ x \in Called <=>
                  /\ x \in Request \X (1..DirectOps)
                  /\ \E v \in Worker : /\ job[v] = x[1]
                                       /\ step[v] = "ok" \/ (step[v] = "send" /\ x[2] < op[v])
             /\ x \in Called' <=>
                  /\ x \in Request \X (1..DirectOps)
                  /\ \E v \in Worker : /\ job[v] = x[1]
                                       /\ step'[v] = "ok" \/ (step'[v] = "send" /\ x[2] < op[v])
  BY <1>2 DEF Called
<1>4. \A v \in Worker \ {w} : step[v] \in {"ok", "send"} => job[v] # job[w]
  BY DEF JobsDiffer, Busy
<1>5. CASE step[w] = "failed"
  <2>1. \A x : x \in Called <=> x \in Called'
    BY <1>1, <1>3, <1>5
  <2>2. Called' = Called
    BY <2>1
  <2> QED BY <1>5, <2>2, CountTypes
<1>6. CASE step[w] = "ok"
  <2> DEFINE own == {job[w]} \X (1..DirectOps)
  <2>1. \A x \in own : x[1] = job[w] /\ x \in Request \X (1..DirectOps)
    BY <1>2
  <2>2. \A x \in Request \X (1..DirectOps) : x[1] = job[w] => x \in own
    OBVIOUS
  <2>3. own \in SUBSET Called
    BY <1>3, <1>6, <2>1
  <2>4. \A x : x \in Called' <=> x \in Called /\ x \notin own
    <3>1. ASSUME NEW x \in Called' PROVE x \in Called /\ x \notin own
      BY <1>1, <1>3, <1>4, <2>1, <3>1
    <3>2. ASSUME NEW x \in Called, x \notin own PROVE x \in Called'
      <4>1. x[1] # job[w]
        BY <1>3, <2>2, <3>2
      <4> QED BY <1>1, <1>3, <3>2, <4>1
    <3> QED BY <3>1, <3>2
  <2>5. Called' = Called \ own /\ Called \cap own = own
    BY <2>3, <2>4
  <2>6. IsFiniteSet(1..DirectOps) /\ Cardinality(1..DirectOps) = DirectOps
    <3>1. DirectOps \in Int /\ 1 \in Int /\ ~(1 > DirectOps) /\ DirectOps - 1 + 1 = DirectOps
      BY CountTypes
    <3> QED BY <3>1, FS_Interval
  <2>7. Cardinality(own) = Cardinality({job[w]}) * Cardinality(1..DirectOps)
    BY <2>6, FS_Singleton, FS_Product
  <2>8. Cardinality(own) = DirectOps
    <3>1. Cardinality({job[w]}) = 1 /\ DirectOps \in Nat
      BY FS_Singleton, CountTypes
    <3> HIDE DEF own
    <3> QED BY <2>6, <2>7, <3>1
  <2>9. Cardinality(Called \ own) = Cardinality(Called) - Cardinality(Called \cap own)
    BY CountTypes, FS_Difference
  <2> QED BY <1>6, <2>5, <2>8, <2>9
<1> QED BY <1>5, <1>6

LEMMA SampleGrows ==
  ASSUME NEW s \in Seq(Nat), NEW x \in Nat, NEW t, t = Append(s, x)
  PROVE  /\ Len(t) = Len(s) + 1 /\ Len(s) \in Nat /\ t # <<>> /\ t[Len(s) + 1] = x
         /\ \A i \in 1..Len(s) : t[i] = s[i] /\ s[i] \in Nat
         /\ s = <<>> <=> Len(s) = 0
<1>1. \A i \in 1..Len(s) : s[i] \in Nat
  BY LenProperties
<1>2. s = <<>> <=> Len(s) = 0
  BY EmptySeq
<1> QED BY <1>1, <1>2, AppendProperties, LenProperties

(* One more latency moves the extremes with the sample.                    *)
LEMMA ExtremesMerge ==
  ASSUME NEW s \in Seq(Nat), NEW least \in Nat, NEW most \in Nat, NEW latency \in Nat \ {0},
         AreExtremes(least, most, s)
  PROVE  AreExtremes(IF least = 0 \/ latency < least THEN latency ELSE least,
                     IF latency > most THEN latency ELSE most,
                     Append(s, Milliseconds(latency)))
<1> DEFINE n == Len(s)
           min == IF least = 0 \/ latency < least THEN latency ELSE least
           max == IF latency > most THEN latency ELSE most
<1>1. PICK ms \in Nat : ms = Milliseconds(latency)
  BY MillisecondsMonotone
<1> DEFINE t == Append(s, ms)
<1>2. /\ Len(t) = n + 1 /\ n \in Nat /\ t # <<>> /\ t[n + 1] = ms
      /\ \A i \in 1..n : t[i] = s[i] /\ s[i] \in Nat
      /\ s = <<>> <=> n = 0
  BY SampleGrows
<1> HIDE DEF n, t
<1>3. /\ min \in Nat /\ max \in Nat /\ min # 0 /\ min <= latency /\ latency <= max
      /\ n # 0 => min <= least
      /\ most <= max
      /\ min = latency \/ (min = least /\ s # <<>>)
      /\ max = latency \/ (max = most /\ s # <<>>)
  BY <1>2 DEF AreExtremes
<1> HIDE DEF min, max
<1>4. /\ Milliseconds(min) \in Nat /\ Milliseconds(max) \in Nat
      /\ Milliseconds(least) \in Nat /\ Milliseconds(most) \in Nat
      /\ Milliseconds(min) <= ms /\ ms <= Milliseconds(max)
      /\ n # 0 => Milliseconds(min) <= Milliseconds(least)
      /\ Milliseconds(most) <= Milliseconds(max)
  BY <1>1, <1>3, MillisecondsMonotone
<1>5. ASSUME NEW i \in 1..(n + 1)
      PROVE  Milliseconds(min) <= t[i] /\ t[i] <= Milliseconds(max)
  <2>1. CASE i = n + 1
    BY <1>2, <1>4, <2>1
  <2>2. CASE i # n + 1
    <3>1. i \in 1..n /\ n # 0
      BY <1>2, <2>2
    <3>2. Milliseconds(least) <= s[i] /\ s[i] <= Milliseconds(most)
      BY <3>1 DEF AreExtremes, n
    <3>3. t[i] = s[i] /\ s[i] \in Nat
      BY <1>2, <3>1
    <3>4. PICK low \in Nat, high \in Nat, before \in Nat, after \in Nat :
            /\ low = Milliseconds(min) /\ high = Milliseconds(max)
            /\ before = Milliseconds(least) /\ after = Milliseconds(most)
      BY <1>4
    <3>5. low <= before /\ before <= s[i] /\ s[i] <= after /\ after <= high
      BY <1>4, <3>1, <3>2, <3>4
    <3> QED BY <3>3, <3>4, <3>5
  <2> QED BY <2>1, <2>2
<1>6. \E i \in 1..(n + 1) : t[i] = Milliseconds(min)
  <2>1. CASE min = latency
    BY <1>1, <1>2, <2>1
  <2>2. CASE min # latency
    <3>1. min = least /\ s # <<>>
      BY <1>3, <2>2
    <3>2. PICK i \in 1..n : s[i] = Milliseconds(least)
      BY <3>1 DEF AreExtremes, n
    <3> QED BY <1>2, <3>1, <3>2
  <2> QED BY <2>1, <2>2
<1>7. \E i \in 1..(n + 1) : t[i] = Milliseconds(max)
  <2>1. CASE max = latency
    BY <1>1, <1>2, <2>1
  <2>2. CASE max # latency
    <3>1. max = most /\ s # <<>>
      BY <1>3, <2>2
    <3>2. PICK i \in 1..n : s[i] = Milliseconds(most)
      BY <3>1 DEF AreExtremes, n
    <3> QED BY <1>2, <3>1, <3>2
  <2> QED BY <2>1, <2>2
<1>8. AreExtremes(min, max, t)
  BY <1>2, <1>3, <1>5, <1>6, <1>7 DEF AreExtremes
<1> QED BY <1>1, <1>8 DEF min, max, t

LEMMA ExtremesGrow ==
  ASSUME ExtremesBound, m.latencies \in Seq(Nat), m.min \in Nat, m.max \in Nat,
         NEW latency \in Nat \ {0},
         m'.latencies = Append(m.latencies, Milliseconds(latency)),
         m'.min = IF m.min = 0 \/ latency < m.min THEN latency ELSE m.min,
         m'.max = IF latency > m.max THEN latency ELSE m.max
  PROVE  ExtremesBound'
  BY ExtremesMerge DEF ExtremesBound

(* A transaction is recorded.                                              *)
LEMMA RecordKeepsCounts ==
  ASSUME CountInv, TypeOK', NEW w \in Worker, Record(w)
  PROVE  CountInv'
<1>1. TypeOK /\ JobsDiffer /\ PlaceTells /\ CountsAdd /\ ExtremesBound /\ ReportIsLast
  BY DEF CountInv
<1>2. PICK latency \in Latency : recordTransaction(latency, step[w] = "failed")
  BY DEF Record
<1>3. /\ step[w] \in {"ok", "failed"} /\ step[w] \in Busy /\ Walks(w, "take")
      /\ op' = op /\ UNCHANGED <<flags, report, faults>>
  BY DEF Record, Walks, Busy, frontVars
<1>4. JobsDiffer'
  BY <1>1, <1>3, JobsKept
<1>5. PlaceTells' /\ ReportIsLast'
  BY <1>1, <1>3, PlaceKept
<1>6. /\ Held(Busy)' = Held(Busy) - 1
      /\ Held({"failed"})' = Held({"failed"}) - IF step[w] = "failed" THEN 1 ELSE 0
      /\ Held({"ok"})' = Held({"ok"}) - IF step[w] = "ok" THEN 1 ELSE 0
      /\ Held({"await", "ok", "failed"})' = Held({"await", "ok", "failed"}) - 1
      /\ Held({"await", "ok"})' = Held({"await", "ok"}) - IF step[w] = "ok" THEN 1 ELSE 0
  <2>1. \A steps \in SUBSET Busy :
          Held(steps)' = Held(steps) + (IF "take" \in steps THEN 1 ELSE 0)
                                     - (IF step[w] \in steps THEN 1 ELSE 0)
    BY <1>1, <1>3, HeldMoves
  <2> DEFINE held(steps) == Held(steps)' = Held(steps) + (IF "take" \in steps THEN 1 ELSE 0)
                                     - (IF step[w] \in steps THEN 1 ELSE 0)
  <2>2. held(Busy) /\ held({"failed"}) /\ held({"ok"}) /\ held({"await", "ok", "failed"})
        /\ held({"await", "ok"})
    BY <2>1 DEF Busy
  <2>3. /\ Held(Busy) \in Nat /\ Held({"failed"}) \in Nat /\ Held({"ok"}) \in Nat
        /\ Held({"await", "ok", "failed"}) \in Nat /\ Held({"await", "ok"}) \in Nat
    BY <1>1, HeldType
  <2> QED BY <1>3, <2>2, <2>3 DEF Busy
<1>7. Cardinality(Called)' = Cardinality(Called) - IF step[w] = "ok" THEN DirectOps ELSE 0
  BY <1>1, <1>3, CalledWhenRecorded
<1>8. /\ m.success \in Nat /\ m.errors \in Nat /\ DirectOps \in Nat /\ Cardinality(Called) \in Nat
      /\ Errors(m) \in Nat /\ Codes(m) \in Nat /\ m.statusCounts["200"] \in Nat
      /\ m \in Metrics /\ Cardinality(tasks) \in Nat
  BY <1>1, CountTypes
<1>9. /\ Held(Busy) \in Nat /\ Held({"failed"}) \in Nat /\ Held({"ok"}) \in Nat
      /\ Held({"await", "ok", "failed"}) \in Nat /\ Held({"await", "ok"}) \in Nat
  BY <1>1, HeldType
<1>10. UNCHANGED <<scenario, awaitFinal, tasks>> /\ ConnectionsLast' = ConnectionsLast
  BY <1>3 DEF flags, Walks, ConnectionsLast
<1>11. /\ m'.finals = m.finals /\ m'.finalTimeout = m.finalTimeout
       /\ Codes(m)' = Codes(m) /\ Errors(m)' = Errors(m)
       /\ m'.statusCounts["200"] = m.statusCounts["200"]
  BY <1>2, <1>8, TransactionRecorded DEF Codes, Errors
<1>12. CASE step[w] = "failed"
  <2>1. /\ m'.errors = m.errors + 1 /\ m'.success = m.success
        /\ m'.min = m.min /\ m'.max = m.max /\ m'.latencies = m.latencies
    BY <1>2, <1>8, <1>12, TransactionRecorded
  <2>2. TransactionsAdd'
    <3>1. Held({"failed"})' = Held({"failed"}) - 1
      BY <1>6, <1>12
    <3>2. Held(Busy)' = Held(Busy) - 1 /\ Cardinality(tasks)' = Cardinality(tasks)
      BY <1>6, <1>10
    <3>3. Errors(m)' = m'.errors + Held({"failed"})' /\ Len(m.latencies)' = m'.success
      <4>1. Errors(m) = m.errors + Held({"failed"}) /\ Len(m.latencies) = m.success
        BY <1>1 DEF CountsAdd, TransactionsAdd
      <4> QED BY <1>8, <1>9, <1>11, <2>1, <3>1, <4>1
    <3>4. m'.success + m'.errors + Held(Busy)' + Cardinality(tasks)' = Cardinality(Request)
      <4>1. m.success + m.errors + Held(Busy) + Cardinality(tasks) = Cardinality(Request)
        BY <1>1 DEF CountsAdd, TransactionsAdd
      <4> QED BY <1>8, <1>9, <2>1, <3>2, <4>1
    <3> QED BY <3>3, <3>4 DEF TransactionsAdd
  <2>3. FinalsAdd'
    BY <1>1, <1>6, <1>9, <1>10, <1>11, <1>12, <2>1 DEF CountsAdd, FinalsAdd
  <2>4. AnswersAdd'
    BY <1>1, <1>6, <1>8, <1>9, <1>10, <1>11, <1>12, <2>1 DEF CountsAdd, AnswersAdd
  <2>5. CallsAdd'
    BY <1>1, <1>7, <1>8, <1>10, <1>11, <1>12, <2>1 DEF CountsAdd, CallsAdd
  <2>6. ExtremesBound'
    BY <1>1, <2>1 DEF ExtremesBound
  <2> QED BY <1>4, <1>5, <2>2, <2>3, <2>4, <2>5, <2>6 DEF CountInv, CountsAdd
<1>13. CASE step[w] = "ok"
  <2>1. /\ m'.errors = m.errors /\ m'.success = m.success + 1
        /\ m'.latencies = Append(m.latencies, Milliseconds(latency))
        /\ m'.min = IF m.min = 0 \/ latency < m.min THEN latency ELSE m.min
        /\ m'.max = IF latency > m.max THEN latency ELSE m.max
    BY <1>2, <1>8, <1>13, TransactionRecorded
  <2>2. m.latencies \in Seq(Nat) /\ latency \in Nat \ {0} /\ m.min \in Nat /\ m.max \in Nat
    BY <1>8, BenchAssumption DEF Metrics
  <2>3. Len(m'.latencies) = Len(m.latencies) + 1 /\ Len(m.latencies) \in Nat
    BY <2>1, <2>2, MillisecondsMonotone, SampleGrows
  <2>4. TransactionsAdd'
    <3>1. Held({"failed"})' = Held({"failed"})
      BY <1>6, <1>9, <1>13
    <3>2. Held(Busy)' = Held(Busy) - 1 /\ Cardinality(tasks)' = Cardinality(tasks)
      BY <1>6, <1>10
    <3>4. Len(m.latencies)' = m'.success
      BY <1>1, <2>1, <2>3 DEF CountsAdd, TransactionsAdd
    <3>5. Errors(m)' = m'.errors + Held({"failed"})'
      BY <1>1, <1>11, <2>1, <3>1 DEF CountsAdd, TransactionsAdd
    <3>6. m'.success + m'.errors + Held(Busy)' + Cardinality(tasks)' = Cardinality(Request)
      <4>1. m.success + m.errors + Held(Busy) + Cardinality(tasks) = Cardinality(Request)
        BY <1>1 DEF CountsAdd, TransactionsAdd
      <4>2. m'.success = m.success + 1 /\ m'.errors = m.errors
        BY <2>1
      <4> QED BY <1>8, <1>9, <3>2, <4>1, <4>2
    <3> QED BY <3>4, <3>5, <3>6 DEF TransactionsAdd
  <2>5. FinalsAdd'
    <3>1. Held({"ok"})' = Held({"ok"}) - 1 /\ m'.success = m.success + 1
      BY <1>6, <1>13, <2>1
    <3> QED BY <1>1, <1>8, <1>9, <1>10, <1>11, <3>1 DEF CountsAdd, FinalsAdd
  <2>6. AnswersAdd'
    <3>1. /\ Held({"await", "ok", "failed"})' = Held({"await", "ok", "failed"}) - 1
          /\ Held({"await", "ok"})' = Held({"await", "ok"}) - 1
          /\ m'.success = m.success + 1 /\ m'.errors = m.errors
      BY <1>6, <1>13, <2>1
    <3> QED BY <1>1, <1>8, <1>9, <1>10, <1>11, <3>1 DEF CountsAdd, AnswersAdd
  <2>7. CallsAdd'
    <3>1. DirectOps * (m.success + 1) = DirectOps * m.success + DirectOps
          /\ DirectOps * m.success \in Nat
      BY <1>8
    <3> DEFINE past == DirectOps * m.success
    <3>2. scenario = "direct" => m.statusCounts["200"] >= past + Cardinality(Called)
      BY <1>1 DEF CountsAdd, CallsAdd
    <3>3. past \in Nat /\ DirectOps * m'.success = past + DirectOps
      BY <2>1, <3>1
    <3> HIDE DEF past
    <3> QED BY <1>7, <1>8, <1>10, <1>11, <1>13, <3>2, <3>3 DEF CallsAdd
  <2>8. ExtremesBound'
    BY <1>1, <2>1, <2>2, ExtremesGrow
  <2> QED BY <1>4, <1>5, <2>4, <2>5, <2>6, <2>7, <2>8 DEF CountInv, CountsAdd
<1> QED BY <1>3, <1>12, <1>13

(* A worker takes a transaction.                                           *)
LEMMA TakeKeepsCounts ==
  ASSUME CountInv, TypeOK', NEW w \in Worker, Take(w)
  PROVE  CountInv'
<1>1. TypeOK /\ JobsDiffer /\ PlaceTells /\ CountsAdd /\ ExtremesBound /\ ReportIsLast
  BY DEF CountInv
<1>2. /\ JobsDiffer' /\ Cardinality(tasks)' = Cardinality(tasks) - 1 /\ Cardinality(tasks) \in Nat
      /\ \A steps \in SUBSET Busy :
           Held(steps)' = IF "send" \in steps THEN Held(steps) + 1 ELSE Held(steps)
  BY <1>1, TakeEffect
<1>3. /\ Held(Busy)' = Held(Busy) + 1
      /\ Held({"failed"})' = Held({"failed"}) /\ Held({"ok"})' = Held({"ok"})
      /\ Held({"await", "ok", "failed"})' = Held({"await", "ok", "failed"})
      /\ Held({"await", "ok"})' = Held({"await", "ok"})
  BY <1>2 DEF Busy
<1>4. /\ step[w] = "take" /\ tasks # {}
      /\ UNCHANGED <<scenario, awaitFinal, m, report>> /\ ConnectionsLast' = ConnectionsLast
      /\ \A v \in Worker : step'[v] = IF v = w THEN "send" ELSE step[v]
      /\ \A v \in Worker : op'[v] = IF v = w THEN 1 ELSE op[v]
      /\ \A v \in Worker : v # w => job'[v] = job[v]
  BY <1>1 DEF Take, Step, TypeOK, flags, frontVars, ConnectionsLast
<1>5. PlaceTells' /\ ReportIsLast'
  <2>1. report' = NoReport
    BY <1>1, <1>4, NotReported
  <2>2. \A v \in Worker : step[v] # "exited"
    BY <1>1, <1>4 DEF PlaceTells
  <2> QED BY <1>1, <1>4, <2>1, <2>2 DEF PlaceTells, ReportIsLast
<1>6. Called' = Called
  <2>1. ASSUME NEW x \in Request \X (1..DirectOps), NEW v \in Worker
        PROVE  (job'[v] = x[1] /\ (step'[v] = "ok" \/ (step'[v] = "send" /\ x[2] < op'[v])))
                 <=> (job[v] = x[1] /\ (step[v] = "ok" \/ (step[v] = "send" /\ x[2] < op[v])))
    <3>1. x[2] \in 1..DirectOps /\ ~(x[2] < 1)
      OBVIOUS
    <3> QED BY <1>4, <3>1
  <2> QED BY <2>1 DEF Called
<1>7. TransactionsAdd'
  <2>1. m.success \in Nat /\ m.errors \in Nat /\ Held(Busy) \in Nat
    BY <1>1, CountTypes, HeldType
  <2>2. m.success + m.errors + Held(Busy) + Cardinality(tasks) = Cardinality(Request)
    BY <1>1 DEF CountsAdd, TransactionsAdd
  <2>3. m.success + m.errors + Held(Busy)' + Cardinality(tasks)' = Cardinality(Request)
    BY <1>2, <1>3, <2>1, <2>2
  <2> QED BY <1>1, <1>3, <1>4, <2>3 DEF CountsAdd, TransactionsAdd
<1>8. FinalsAdd' /\ AnswersAdd' /\ CallsAdd'
  BY <1>1, <1>3, <1>4, <1>6 DEF CountsAdd, FinalsAdd, AnswersAdd, CallsAdd
<1>9. ExtremesBound'
  BY <1>1, <1>4 DEF ExtremesBound
<1> QED BY <1>2, <1>5, <1>7, <1>8, <1>9 DEF CountInv, CountsAdd

(* The POST is sent.                                                       *)
LEMMA SendKeepsCounts ==
  ASSUME CountInv, TypeOK', NEW w \in Worker, Send(w)
  PROVE  CountInv'
<1>1. TypeOK /\ JobsDiffer /\ PlaceTells /\ CountsAdd /\ ExtremesBound /\ ReportIsLast
  BY DEF CountInv
<1>2. /\ step[w] = "send" /\ step[w] \in Busy /\ scenario = "checkout" /\ Walks(w, "wait")
      /\ UNCHANGED <<flags, report>> /\ UNCHANGED <<scenario, awaitFinal, tasks, m>>
      /\ ConnectionsLast' = ConnectionsLast
  BY DEF Send, Arrive, Walks, Busy, flags, ConnectionsLast
<1>3. JobsDiffer' /\ PlaceTells' /\ ReportIsLast'
  BY <1>1, <1>2, JobsKept, PlaceKept
<1>4. /\ Held(Busy)' = Held(Busy)
      /\ Held({"failed"})' = Held({"failed"}) /\ Held({"ok"})' = Held({"ok"})
      /\ Held({"await", "ok", "failed"})' = Held({"await", "ok", "failed"})
      /\ Held({"await", "ok"})' = Held({"await", "ok"})
  <2>1. \A steps \in SUBSET Busy :
          Held(steps)' = Held(steps) + (IF "wait" \in steps THEN 1 ELSE 0)
                                     - (IF step[w] \in steps THEN 1 ELSE 0)
    BY <1>1, <1>2, HeldMoves
  <2> DEFINE held(steps) == Held(steps)' = Held(steps) + (IF "wait" \in steps THEN 1 ELSE 0)
                                     - (IF step[w] \in steps THEN 1 ELSE 0)
  <2>2. held(Busy) /\ held({"failed"}) /\ held({"ok"}) /\ held({"await", "ok", "failed"})
        /\ held({"await", "ok"})
    BY <2>1 DEF Busy
  <2>3. /\ Held(Busy) \in Nat /\ Held({"failed"}) \in Nat /\ Held({"ok"}) \in Nat
        /\ Held({"await", "ok", "failed"}) \in Nat /\ Held({"await", "ok"}) \in Nat
    BY <1>1, HeldType
  <2> QED BY <1>2, <2>2, <2>3 DEF Busy
<1>5. TransactionsAdd' /\ FinalsAdd' /\ AnswersAdd' /\ CallsAdd'
  BY <1>1, <1>2, <1>4 DEF CountsAdd, TransactionsAdd, FinalsAdd, AnswersAdd, CallsAdd
<1>6. ExtremesBound'
  BY <1>1, <1>2 DEF ExtremesBound
<1> QED BY <1>3, <1>5, <1>6 DEF CountInv, CountsAdd

(* One operation adds at most one call to those of its transaction.        *)
LEMMA CalledGrows ==
  ASSUME TypeOK, NEW w \in Worker, step[w] = "send", job' = job,
         NEW label \in {"send", "ok", "failed"},
         \A v \in Worker : step'[v] = IF v = w THEN label ELSE step[v],
         \A v \in Worker : op'[v] = IF v = w /\ label = "send" THEN op[v] + 1 ELSE op[v],
         label = "ok" => op[w] = DirectOps
  PROVE  /\ Cardinality(Called)' \in Nat
         /\ Cardinality(Called)' <= Cardinality(Called) + IF label = "failed" THEN 0 ELSE 1
<1>1. /\ DirectOps \in Nat /\ op[w] \in 1..DirectOps /\ IsFiniteSet(Called)
      /\ Cardinality(Called) \in Nat
  BY CountTypes DEF TypeOK
<1> DEFINE new == <<job[w], op[w]>>
<1>2. ASSUME NEW x \in Called'
      PROVE  x \in Called \/ (x = new /\ label # "failed")
  <2>1. x \in Request \X (1..DirectOps)
    BY <1>2 DEF Called
  <2>2. PICK v \in Worker : /\ job[v] = x[1]
                            /\ step'[v] = "ok" \/ (step'[v] = "send" /\ x[2] < op'[v])
    BY <1>2 DEF Called
  <2>3. CASE v # w
    BY <2>1, <2>2, <2>3 DEF Called
  <2>4. CASE v = w
    <3>1. x[2] \in 1..DirectOps /\ x = <<x[1], x[2]>>
      BY <2>1
    <3>2. label # "failed" /\ (x[2] < op[w] \/ x[2] = op[w])
      BY <1>1, <2>2, <2>4, <3>1
    <3>3. CASE x[2] < op[w]
      BY <2>1, <2>2, <2>4, <3>3 DEF Called
    <3>4. CASE x[2] = op[w]
      BY <2>2, <2>4, <3>1, <3>2, <3>4
    <3> QED BY <3>2, <3>3, <3>4
  <2> QED BY <2>3, <2>4
<1>3. CASE label = "failed"
  <2>1. Called' \in SUBSET Called
    BY <1>2, <1>3
  <2>2. Cardinality(Called') <= Cardinality(Called)
    BY <1>1, <2>1, FS_Subset
  <2>3. Cardinality(Called)' \in Nat /\ Cardinality(Called)' <= Cardinality(Called) + 0
    BY <1>1, <2>1, <2>2, FS_Subset, FS_CardinalityType
  <2> QED BY <1>3, <2>3
<1>4. CASE label # "failed"
  <2>1. Called' \in SUBSET (Called \cup {new})
    BY <1>2
  <2>2. /\ IsFiniteSet(Called \cup {new})
        /\ Cardinality(Called \cup {new}) =
             IF new \in Called THEN Cardinality(Called) ELSE Cardinality(Called) + 1
    BY <1>1, FS_AddElement
  <2>3. Cardinality(Called') <= Cardinality(Called \cup {new}) /\ IsFiniteSet(Called')
    BY <2>1, <2>2, FS_Subset
  <2>4. Cardinality(Called)' \in Nat /\ Cardinality(Called)' <= Cardinality(Called) + 1
    BY <1>1, <2>2, <2>3, FS_CardinalityType
  <2> QED BY <1>4, <2>4
<1> QED BY <1>3, <1>4

(* One operation of a direct scenario.                                     *)
LEMMA CallKeepsCounts ==
  ASSUME CountInv, TypeOK', NEW w \in Worker, CallDirect(w)
  PROVE  CountInv'
<1>1. TypeOK /\ JobsDiffer /\ PlaceTells /\ CountsAdd /\ ExtremesBound /\ ReportIsLast
  BY DEF CountInv
<1>2. /\ step[w] = "send" /\ step[w] \in Busy /\ scenario = "direct" /\ tasks' = tasks /\ job' = job
      /\ UNCHANGED <<flags, report>> /\ UNCHANGED <<scenario, awaitFinal>>
      /\ ConnectionsLast' = ConnectionsLast
  BY DEF CallDirect, Busy, flags, frontVars, ConnectionsLast
<1>3. PICK code \in Code :
        /\ recordStatus(code, "none")
        /\ IF code # "200" THEN Step(w, "failed") /\ UNCHANGED op
           ELSE IF op[w] = DirectOps THEN Step(w, "ok") /\ UNCHANGED op
           ELSE op' = [op EXCEPT ![w] = @ + 1] /\ UNCHANGED step
  BY DEF CallDirect, Code
<1>4. /\ m'.success = m.success /\ m'.errors = m.errors
      /\ m'.min = m.min /\ m'.max = m.max /\ m'.latencies = m.latencies
      /\ m'.finals = m.finals /\ m'.finalTimeout = m.finalTimeout
      /\ Errors(m)' = Errors(m) + IF code = "200" THEN 0 ELSE 1
      /\ m'.statusCounts["200"] = m.statusCounts["200"] + IF code = "200" THEN 1 ELSE 0
  BY <1>1, <1>3, StatusRecorded DEF TypeOK, Errors
<1>5. PICK label \in {"send", "ok", "failed"} :
        /\ label = "failed" <=> code # "200"
        /\ label = "ok" => op[w] = DirectOps
        /\ label # "send" => Step(w, label)
        /\ label = "send" => UNCHANGED step
        /\ \A v \in Worker : step'[v] = IF v = w THEN label ELSE step[v]
        /\ \A v \in Worker : op'[v] = IF v = w /\ label = "send" THEN op[v] + 1 ELSE op[v]
  <2>1. CASE code # "200"
    <3>1. Step(w, "failed") /\ op' = op
      BY <1>3, <2>1
    <3>2. \A v \in Worker : step'[v] = IF v = w THEN "failed" ELSE step[v]
      BY <1>1, <3>1 DEF Step, TypeOK
    <3> QED BY <2>1, <3>1, <3>2
  <2>2. CASE code = "200" /\ op[w] = DirectOps
    <3>1. Step(w, "ok") /\ op' = op
      BY <1>3, <2>2
    <3>2. \A v \in Worker : step'[v] = IF v = w THEN "ok" ELSE step[v]
      BY <1>1, <3>1 DEF Step, TypeOK
    <3> QED BY <2>2, <3>1, <3>2
  <2>3. CASE code = "200" /\ op[w] # DirectOps
    <3>1. op' = [op EXCEPT ![w] = @ + 1] /\ step' = step
      BY <1>3, <2>3
    <3>2. \A v \in Worker : op'[v] = IF v = w THEN op[v] + 1 ELSE op[v]
      BY <1>1, <3>1 DEF TypeOK
    <3> QED BY <1>2, <2>3, <3>1, <3>2
  <2> QED BY <2>1, <2>2, <2>3
<1>6. /\ Cardinality(Called)' \in Nat
      /\ Cardinality(Called)' <= Cardinality(Called) + IF label = "failed" THEN 0 ELSE 1
  BY <1>1, <1>2, <1>5, CalledGrows
<1>7. /\ JobsDiffer' /\ PlaceTells' /\ ReportIsLast'
      /\ Held(Busy)' = Held(Busy)
      /\ Held({"failed"})' = Held({"failed"}) + IF code = "200" THEN 0 ELSE 1
  <2>1. CASE label = "send"
    <3>1. UNCHANGED <<step, job, tasks, scenario, awaitFinal, report>>
      BY <1>2, <1>5, <2>1
    <3>2. Held(Busy)' = Held(Busy) /\ Held({"failed"})' = Held({"failed"})
      BY <3>1 DEF Held, HeldAt
    <3>3. JobsDiffer' /\ PlaceTells'
      BY <1>1, <3>1 DEF JobsDiffer, PlaceTells
    <3>4. report' = NoReport
      BY <1>1, <1>2, <3>1, NotReported
    <3>5. Held({"failed"}) \in Nat /\ code = "200"
      BY <1>1, <1>5, <2>1, HeldType
    <3> QED BY <3>2, <3>3, <3>4, <3>5 DEF ReportIsLast
  <2>2. CASE label # "send"
    <3>1. Walks(w, label)
      BY <1>2, <1>5, <2>2 DEF Walks
    <3>2. JobsDiffer' /\ PlaceTells' /\ ReportIsLast'
      BY <1>1, <1>2, <3>1, JobsKept, PlaceKept
    <3>3. \A steps \in SUBSET Busy :
            Held(steps)' = Held(steps) + (IF label \in steps THEN 1 ELSE 0)
                                       - (IF step[w] \in steps THEN 1 ELSE 0)
      BY <1>1, <1>2, <3>1, HeldMoves
    <3> DEFINE held(steps) == Held(steps)' = Held(steps) + (IF label \in steps THEN 1 ELSE 0)
                                       - (IF step[w] \in steps THEN 1 ELSE 0)
    <3>4. held(Busy) /\ held({"failed"})
      BY <3>3 DEF Busy
    <3>5. Held(Busy) \in Nat /\ Held({"failed"}) \in Nat
      BY <1>1, HeldType
    <3>6. Held(Busy)' = Held(Busy)
      BY <1>2, <3>4, <3>5 DEF Busy
    <3>7. Held({"failed"})' = Held({"failed"}) + IF code = "200" THEN 0 ELSE 1
      BY <1>2, <1>5, <3>4, <3>5
    <3> QED BY <3>2, <3>6, <3>7
  <2> QED BY <2>1, <2>2
<1>8. TransactionsAdd'
  <2>1. m.errors \in Nat /\ Errors(m) \in Nat /\ Held({"failed"}) \in Nat
    BY <1>1, CountTypes, HeldType
  <2>2. Errors(m)' = m'.errors + Held({"failed"})'
    <3>1. Errors(m) = m.errors + Held({"failed"}) /\ m'.errors = m.errors
      BY <1>1, <1>4 DEF CountsAdd, TransactionsAdd
    <3>2. CASE code = "200"
      <4>1. Errors(m)' = Errors(m) + 0 /\ Held({"failed"})' = Held({"failed"}) + 0
        BY <1>4, <1>7, <3>2
      <4> QED BY <2>1, <3>1, <4>1
    <3>3. CASE code # "200"
      <4>1. Errors(m)' = Errors(m) + 1 /\ Held({"failed"})' = Held({"failed"}) + 1
        BY <1>4, <1>7, <3>3
      <4> QED BY <2>1, <3>1, <4>1
    <3> QED BY <3>2, <3>3
  <2> QED BY <1>1, <1>2, <1>4, <1>7, <2>2 DEF CountsAdd, TransactionsAdd
<1>9. FinalsAdd' /\ AnswersAdd'
  BY <1>1, <1>2, <1>4 DEF CountsAdd, FinalsAdd, AnswersAdd
<1>10. CallsAdd'
  <2> DEFINE past == DirectOps * m.success
             calls == m.statusCounts["200"]
             n == Cardinality(Called)
  <2>1. past \in Nat /\ calls \in Nat /\ n \in Nat /\ calls >= past + n
    BY <1>1, <1>2, CountTypes DEF CountsAdd, CallsAdd
  <2>2. DirectOps * m'.success = past
    BY <1>4
  <2>3. CASE code = "200"
    <3>1. m'.statusCounts["200"] = calls + 1 /\ Cardinality(Called)' <= n + 1
      BY <1>4, <1>5, <1>6, <2>3
    <3> HIDE DEF past, calls, n
    <3> QED BY <1>6, <2>1, <2>2, <3>1 DEF CallsAdd
  <2>4. CASE code # "200"
    <3>1. m'.statusCounts["200"] = calls + 0 /\ Cardinality(Called)' <= n + 0
      BY <1>4, <1>5, <1>6, <2>4
    <3> HIDE DEF past, calls, n
    <3> QED BY <1>6, <2>1, <2>2, <3>1 DEF CallsAdd
  <2> QED BY <2>3, <2>4
<1>11. ExtremesBound'
  BY <1>1, <1>4 DEF ExtremesBound
<1> QED BY <1>7, <1>8, <1>9, <1>10, <1>11 DEF CountInv, CountsAdd

LEMMA WorkKeepsCounts ==
  ASSUME CountInv, AnswersName, TypeOK', NEW w \in Worker, Work(w)
  PROVE  CountInv'
<1>1. TypeOK /\ JobsDiffer /\ PlaceTells /\ CountsAdd /\ ExtremesBound /\ ReportIsLast
  BY DEF CountInv
<1>2. CASE Receive(w)
  <2>1. PICK body \in Body(job[w]), code \in Code, label \in Place :
          /\ recordStatus(code, body.status) /\ Step(w, label)
          /\ code = StatusCode(answer[job[w]].status)
          /\ label \in {"failed", "await", "ok"}
          /\ label = "failed" <=> code # "200"
          /\ label = "await" => awaitFinal
          /\ label = "ok" /\ awaitFinal => ~ConnectionsLast \/ answer[job[w]].order = NoOrder
    BY <1>2, ReceiveEffect
  <2>2. /\ Walks(w, label) /\ UNCHANGED <<flags, report, faults>> /\ step[w] = "wait"
        /\ pc[job[w]] = "answered" /\ job[w] \in Request
    BY <1>1, <1>2, <2>1 DEF Receive, Walks, frontVars, TypeOK
  <2>3. scenario = "checkout"
    BY <1>1, <2>2 DEF PlaceTells
  <2>4. code = "200" => answer[job[w]].order # NoOrder
    BY <2>1, <2>2 DEF AnswersName
  <2>5. label = "ok" /\ awaitFinal => ~ConnectionsLast
    BY <2>1, <2>4
  <2> QED BY <2>1, <2>2, <2>3, <2>5, AnswerKeepsCounts
<1>3. CASE TransportFails(w)
  <2>1. /\ recordStatus("0", "none") /\ Walks(w, "failed") /\ "0" \in Code
        /\ UNCHANGED <<flags, report, faults>> /\ step[w] \in {"send", "wait"}
        /\ scenario = "checkout"
    BY <1>3 DEF TransportFails, Code, Walks
  <2> QED BY <2>1, AnswerKeepsCounts
<1>4. CASE AwaitReaches(w)
  <2>1. /\ step[w] = "await" /\ Walks(w, "ok") /\ recordFinal(TRUE)
        /\ UNCHANGED <<flags, report, faults>>
    BY <1>4 DEF AwaitReaches, Walks, frontVars
  <2> QED BY <2>1, AwaitKeepsCounts
<1>5. CASE AwaitTimesOut(w)
  <2>1. /\ step[w] = "await" /\ Walks(w, "ok") /\ recordFinal(FALSE)
        /\ UNCHANGED <<flags, report, faults>>
    BY <1>5 DEF AwaitTimesOut, Walks, frontVars
  <2> QED BY <2>1, AwaitKeepsCounts
<1>6. CASE Exit(w)
  <2>1. /\ step[w] = "take" /\ tasks = {} /\ UNCHANGED <<tasks, job, op, m, report, scenario, awaitFinal>>
        /\ \A v \in Worker : step'[v] = IF v = w THEN "exited" ELSE step[v]
        /\ ConnectionsLast' = ConnectionsLast
    BY <1>1, <1>6 DEF Exit, Step, TypeOK, flags, frontVars, ConnectionsLast
  <2>2. JobsDiffer' /\ PlaceTells'
    BY <1>1, <2>1 DEF JobsDiffer, PlaceTells, Busy
  <2>3. ReportIsLast'
    <3>1. report' = NoReport
      BY <1>1, <2>1, NotReported
    <3> QED BY <3>1 DEF ReportIsLast
  <2>4. ASSUME NEW steps \in SUBSET Busy
        PROVE  Held(steps)' = Held(steps)
    <3>1. \A v \in Worker : step'[v] \in steps <=> step[v] \in steps
      BY <2>1 DEF Busy
    <3>2. {job'[v] : v \in {u \in Worker : step'[u] \in steps}}
            = {job[v] : v \in {u \in Worker : step[u] \in steps}}
      BY <2>1, <3>1
    <3>3. HeldAt(steps)' = HeldAt(steps)
      BY <3>2 DEF HeldAt
    <3> QED BY <3>3 DEF Held
  <2>5. /\ Held(Busy)' = Held(Busy)
        /\ Held({"failed"})' = Held({"failed"}) /\ Held({"ok"})' = Held({"ok"})
        /\ Held({"await", "ok", "failed"})' = Held({"await", "ok", "failed"})
        /\ Held({"await", "ok"})' = Held({"await", "ok"})
    BY <2>4 DEF Busy
  <2>6. Called' = Called
    BY <2>1 DEF Called
  <2>7. TransactionsAdd' /\ FinalsAdd' /\ AnswersAdd' /\ CallsAdd'
    BY <1>1, <2>1, <2>5, <2>6 DEF CountsAdd, TransactionsAdd, FinalsAdd, AnswersAdd, CallsAdd
  <2>8. ExtremesBound'
    BY <1>1, <2>1 DEF ExtremesBound
  <2> QED BY <2>2, <2>3, <2>7, <2>8 DEF CountInv, CountsAdd
<1> QED BY <1>2, <1>3, <1>4, <1>5, <1>6, TakeKeepsCounts, SendKeepsCounts, CallKeepsCounts,
           RecordKeepsCounts DEF Work

LEMMA ServerKeepsFaults ==
  ASSUME NEW r \in Request, Server(r)
  PROVE  faults' = faults
<1>1. CASE Serve(r)
  BY <1>1 DEF Serve, Lookup, InsertOrder, InsertKey, Commit, Relook, Settle, RunFails
<1> QED BY <1>1 DEF Server, ExpireCtx, Crash

LEMMA CountKept == CountInv /\ AnswersName /\ [Next]_benchAll => CountInv'
<1> SUFFICES ASSUME CountInv, AnswersName, [Next]_benchAll PROVE CountInv'
  OBVIOUS
<1>1. TypeOK'
  BY BenchTypes DEF CountInv
<1>2. ASSUME UNCHANGED <<faults, scenario, awaitFinal, tasks, step, job, op, m>>, ReportIsLast'
      PROVE  CountInv'
  <2>1. JobsDiffer' /\ PlaceTells' /\ ExtremesBound'
    BY <1>2 DEF CountInv, JobsDiffer, PlaceTells, ExtremesBound
  <2>2. CountsAdd'
    BY <1>2 DEF CountInv, CountsAdd, TransactionsAdd, FinalsAdd, AnswersAdd, CallsAdd, Held, HeldAt,
                Called, Errors, Codes, ConnectionsLast
  <2> QED BY <1>1, <1>2, <2>1, <2>2 DEF CountInv
<1>3. ASSUME UNCHANGED benchVars, faults' = faults
      PROVE  CountInv'
  <2>1. UNCHANGED <<scenario, awaitFinal, tasks, step, job, op, m, report>>
    BY <1>3 DEF benchVars
  <2>2. ReportIsLast'
    BY <2>1 DEF CountInv, ReportIsLast
  <2> QED BY <1>2, <1>3, <2>1, <2>2
<1>4. CASE Report
  <2>1. UNCHANGED <<faults, scenario, awaitFinal, tasks, step, job, op, m>>
    BY <1>4 DEF Report, flags, frontVars
  <2>2. /\ report'.metrics = m
        /\ report'.min = Milliseconds(m.min) /\ report'.max = Milliseconds(m.max)
        /\ report'.percentiles = [p \in Percents |-> percentile(Sorted(m.latencies), p)]
    <3>1. report' = Result
      BY <1>4 DEF Report
    <3>2. /\ Result.metrics = m
          /\ Result.min = Milliseconds(m.min) /\ Result.max = Milliseconds(m.max)
          /\ Result.percentiles = [p \in Percents |-> percentile(Sorted(m.latencies), p)]
      BY DEF Result
    <3> QED BY <3>1, <3>2
  <2>3. ReportIsLast'
    BY <1>4, <2>1, <2>2 DEF Report, ReportIsLast
  <2> QED BY <1>2, <2>1, <2>3
<1>5. CASE (\E r \in Request : Server(r)) \/ Done \/ UNCHANGED benchAll
  <2>1. faults' = faults
    BY <1>5, ServerKeepsFaults DEF Done, benchAll, frontVars
  <2> QED BY <1>3, <1>5, <2>1 DEF Server, Done, benchAll
<1> QED BY <1>1, <1>4, <1>5, WorkKeepsCounts DEF Next

-----------------------------------------------------------------------------
(* What the server stores and answers.                                     *)

(* A step of the server for request r, and what it leaves alone.           *)
OthersServed(r) ==
  /\ faults' = faults
  /\ \A s \in Request \ {r} :
       /\ pc'[s] = pc[s] /\ asked'[s] = asked[s] /\ ctx'[s] = ctx[s] /\ answer'[s] = answer[s]
       /\ status'[s] = status[s] /\ (s \in created' <=> s \in created)
  /\ \A o \in OrderId \ Request : status'[o] = status[o]

LEMMA ServerKept ==
  ASSUME ServerInv, NEW r \in Request, OthersServed(r), ServerTells(r)'
  PROVE  ServerInv'
<1>1. ASSUME NEW s \in Request \ {r}
      PROVE  ServerTells(s)'
  <2>1. ServerTells(s)
    BY DEF ServerInv
  <2>2. Quiet' <=> Quiet
    BY DEF Quiet, OthersServed
  <2> QED BY <2>1, <2>2 DEF ServerTells, OthersServed
<1> QED BY <1>1 DEF ServerInv, OthersServed

LEMMA ServerNames == ServerInv => AnswersName
<1> SUFFICES ASSUME ServerInv, NEW r \in Request, pc[r] = "answered",
                    StatusCode(answer[r].status) = "200"
             PROVE  answer[r].order # NoOrder
  BY DEF AnswersName
<1>1. answer[r].status # "FAILED"
  BY DEF StatusCode
<1>2. answer[r].order = r
  BY <1>1 DEF ServerInv, ServerTells
<1> QED BY <1>2, BenchAssumption, FrontAssumption

LEMMA AskedOwn ==
  ASSUME ServerInv, NEW r \in Request, pc[r] # "idle"
  PROVE  asked[r].id = r /\ asked[r].key = r /\ r \in OrderId /\ r \in Key
<1>1. asked[r] = [key |-> r, id |-> r]
  BY DEF ServerInv, ServerTells
<1>2. asked[r].id = r /\ asked[r].key = r
  BY <1>1
<1>3. r \in OrderId /\ r \in Key
  BY BenchAssumption
<1> QED BY <1>2, <1>3

LEMMA FailTells ==
  ASSUME FrontTypeOK, NEW r \in Request, Fail(r)
  PROVE  /\ pc'[r] = "answered" /\ answer'[r].status = "FAILED"
         /\ \A s \in Request \ {r} : pc'[s] = pc[s] /\ answer'[s] = answer[s]
  BY DEF Fail, Reply, FrontTypeOK

(* Nobody else uses the key of a transaction.                              *)
LEMMA NoReplay ==
  ASSUME TypeOK, ServerInv, NEW r \in Request, pc[r] \in {"lookup", "key", "relook"}
  PROVE  Keyed(r) = {}
<1>1. r \notin created /\ created \subseteq Request
  BY DEF ServerInv, ServerTells, TypeOK, FrontTypeOK
<1>2. ASSUME NEW s \in created PROVE pc[s] # "idle"
  BY <1>1 DEF ServerInv, ServerTells
<1>3. \A s \in created : asked[s].key = s
  BY <1>1, <1>2, AskedOwn
<1> QED BY <1>1, <1>3, AskedOwn DEF Keyed

LEMMA ServeEffect ==
  ASSUME TypeOK, ServerInv, NEW r \in Request, Serve(r)
  PROVE  /\ OthersServed(r) /\ ServerTells(r)' /\ ctx' = ctx /\ pc[r] # "answered"
         /\ status[r] = "CONFIRMED" => status'[r] = "CONFIRMED"
<1> USE DEF OthersServed, ServerTells
<1>1. FrontTypeOK /\ ServerTells(r)
  BY DEF TypeOK, ServerInv
<1>2. ASSUME UNCHANGED <<faults, asked, ctx, created, status>>,
             pc[r] \in {"lookup", "order", "key", "commit", "relook"},
             NEW label \in {"order", "key", "commit", "relook"}, Goto(r, label)
      PROVE  OthersServed(r) /\ ServerTells(r)'
  BY <1>1, <1>2, GotoEffect
<1>3. ASSUME UNCHANGED <<faults, asked, ctx, created, status>>,
             pc[r] \in {"lookup", "order", "key", "commit", "relook", "run"}, Fail(r)
      PROVE  OthersServed(r) /\ ServerTells(r)'
  <2>1. /\ pc'[r] = "answered" /\ answer'[r].status = "FAILED"
        /\ \A s \in Request \ {r} : pc'[s] = pc[s] /\ answer'[s] = answer[s]
    BY <1>1, <1>3, FailTells
  <2> QED BY <1>1, <1>3, <2>1 DEF Finals
<1>4. CASE Lookup(r)
  <2>1. pc[r] = "lookup" /\ Keyed(r) = {}
    BY <1>4, NoReplay DEF Lookup
  <2>2. Goto(r, "order") /\ UNCHANGED <<faults, asked, ctx, created, status>>
    BY <1>4, <2>1 DEF Lookup
  <2> QED BY <1>2, <2>1, <2>2
<1>5. CASE InsertOrder(r)
  <2>1. pc[r] = "order" /\ UNCHANGED <<faults, asked, ctx, created, status>>
    BY <1>5 DEF InsertOrder
  <2>2. Fail(r) \/ Goto(r, "commit") \/ Goto(r, "key")
    BY <1>5 DEF InsertOrder
  <2> QED BY <1>2, <1>3, <2>1, <2>2
<1>6. CASE InsertKey(r)
  <2>1. pc[r] = "key" /\ UNCHANGED <<faults, asked, ctx, created, status>>
    BY <1>6 DEF InsertKey
  <2>2. Fail(r) \/ Goto(r, "commit") \/ Goto(r, "relook")
    BY <1>6 DEF InsertKey
  <2> QED BY <1>2, <1>3, <2>1, <2>2
<1>7. CASE Commit(r)
  <2>1. PICK done \in {TRUE} \cup Works(r), acked \in Works(r) :
          /\ created' = IF done THEN created \cup {r} ELSE created
          /\ status' = IF done THEN [status EXCEPT ![asked[r].id] = "PROCESSING"] ELSE status
          /\ IF done /\ acked THEN Goto(r, "run") ELSE Fail(r)
    BY <1>7 DEF Commit
  <2>2. pc[r] = "commit" /\ UNCHANGED <<faults, asked, ctx>>
    BY <1>7 DEF Commit
  <2>3. asked[r].id = r /\ r \in OrderId /\ r \notin created /\ status[r] = "none"
    BY <1>1, <2>2, AskedOwn
  <2>4. CASE ~done
    <3>1. Fail(r) /\ UNCHANGED <<created, status>>
      BY <2>1, <2>4
    <3> QED BY <1>3, <2>2, <3>1
  <2>5. CASE done
    <3>1. /\ created' = created \cup {r}
          /\ \A o \in OrderId : status'[o] = IF o = r THEN "PROCESSING" ELSE status[o]
      BY <1>1, <2>1, <2>3, <2>5 DEF FrontTypeOK
    <3>2. \A s \in Request \ {r} : status'[s] = status[s]
      BY <3>1, BenchAssumption
    <3>3. /\ \A s \in Request \ {r} : pc'[s] = pc[s] /\ answer'[s] = answer[s]
          /\ pc'[r] = "run" \/ (pc'[r] = "answered" /\ answer'[r].status = "FAILED")
      <4>1. CASE acked
        BY <1>1, <2>1, <2>5, <4>1, GotoEffect
      <4>2. CASE ~acked
        <5>1. Fail(r)
          BY <2>1, <2>5, <4>2
        <5> QED BY <1>1, <5>1, FailTells
      <4> QED BY <4>1, <4>2
    <3> QED BY <1>1, <2>2, <2>3, <3>1, <3>2, <3>3 DEF Finals
  <2> QED BY <2>4, <2>5
<1>8. CASE Relook(r)
  <2>1. pc[r] = "relook" /\ Keyed(r) = {} /\ UNCHANGED <<faults, asked, ctx, created, status>>
    BY <1>8, NoReplay DEF Relook
  <2>2. Fail(r)
    BY <1>8, <2>1 DEF Relook
  <2> QED BY <1>3, <2>1, <2>2
<1>9. CASE Settle(r)
  <2>1. PICK outcome \in Outcomes, works \in Works(r) :
          /\ Reply(r, outcome[1], asked[r].id)
          /\ status' = IF works THEN [status EXCEPT ![asked[r].id] = outcome[2]] ELSE status
    BY <1>9 DEF Settle
  <2>2. pc[r] = "run" /\ UNCHANGED <<faults, asked, ctx, created>>
    BY <1>9 DEF Settle
  <2>3. asked[r].id = r /\ r \in OrderId /\ r \in created /\ status[r] = "PROCESSING"
    BY <1>1, <2>2, AskedOwn
  <2>4. outcome[1] \in Finals => outcome[2] = "CONFIRMED"
    BY <1>1, FrontAssumption DEF Outcomes, FrontTypeOK, Mode, Finals
  <2>5. Quiet /\ ctx[r] = "live" => works
    BY DEF Works, Quiet
  <2>6. \A o \in OrderId : status'[o] = IF o = r /\ works THEN outcome[2] ELSE status[o]
    BY <1>1, <2>1, <2>3 DEF FrontTypeOK
  <2>7. /\ pc'[r] = "answered" /\ answer'[r] = [status |-> outcome[1], order |-> r]
        /\ \A s \in Request \ {r} : pc'[s] = pc[s] /\ answer'[s] = answer[s]
    BY <1>1, <2>1, <2>3, ReplyEffect
  <2>8. \A s \in Request \ {r} : status'[s] = status[s]
    BY <2>6, BenchAssumption
  <2>9. OthersServed(r)
    BY <2>2, <2>6, <2>7, <2>8
  <2>10. Quiet' <=> Quiet
    BY <2>2 DEF Quiet
  <2>11. ServerTells(r)'
    <3>1. Quiet /\ ctx[r] = "live" /\ outcome[1] \in Finals => status'[r] = "CONFIRMED"
      BY <2>3, <2>4, <2>5, <2>6
    <3>2. asked'[r] = [key |-> r, id |-> r] /\ r \in created' /\ ctx'[r] = ctx[r]
      BY <1>1, <2>2, <2>3
    <3> QED BY <2>7, <2>10, <3>1, <3>2
  <2> QED BY <2>2, <2>3, <2>9, <2>11
<1>10. CASE RunFails(r)
  BY <1>3, <1>10 DEF RunFails
<1> QED BY <1>4, <1>5, <1>6, <1>7, <1>8, <1>9, <1>10 DEF Serve, Lookup, InsertOrder, InsertKey,
        Commit, Relook, Settle, RunFails

(* A step that leaves request r alone as well.                             *)
LEMMA FrontStays ==
  ASSUME ServerInv, NEW r \in Request, UNCHANGED frontVars
  PROVE  OthersServed(r) /\ ServerTells(r)' /\ ServerInv'
<1>1. UNCHANGED <<faults, mode, pc, asked, created, status, answer, ctx>>
  BY DEF frontVars
<1>2. OthersServed(r)
  BY <1>1 DEF OthersServed
<1>3. ServerTells(r)'
  BY <1>1 DEF ServerInv, ServerTells, Quiet
<1> QED BY <1>2, <1>3, ServerKept

LEMMA ServerEffect ==
  ASSUME TypeOK, ServerInv, NEW r \in Request, Server(r)
  PROVE  /\ OthersServed(r) /\ ServerInv' /\ pc[r] # "answered"
         /\ Quiet => ctx' = ctx
         /\ status[r] = "CONFIRMED" => status'[r] = "CONFIRMED"
<1>1. FrontTypeOK /\ ServerTells(r)
  BY DEF TypeOK, ServerInv
<1>2. CASE Serve(r)
  BY <1>2, ServeEffect, ServerKept
<1>3. CASE ExpireCtx(r)
  <2>1. /\ UNCHANGED <<faults, pc, asked, created, status, answer>>
        /\ pc[r] # "answered" /\ ~Quiet
        /\ \A s \in Request \ {r} : ctx'[s] = ctx[s]
    BY <1>1, <1>3 DEF ExpireCtx, Running, Quiet, FrontTypeOK
  <2>2. OthersServed(r)
    BY <2>1 DEF OthersServed
  <2>3. ServerTells(r)'
    BY <1>1, <2>1 DEF ServerTells
  <2> QED BY <2>1, <2>2, <2>3, ServerKept
<1>4. CASE Crash(r)
  <2>1. /\ UNCHANGED <<faults, asked, ctx, created, status, answer>>
        /\ pc[r] # "answered" /\ pc[r] # "idle" /\ pc'[r] = "crashed"
        /\ \A s \in Request \ {r} : pc'[s] = pc[s]
    BY <1>1, <1>4, GotoEffect DEF Crash, Running
  <2>2. OthersServed(r)
    BY <2>1 DEF OthersServed
  <2>3. ServerTells(r)'
    BY <1>1, <2>1 DEF ServerTells
  <2> QED BY <2>1, <2>2, <2>3, ServerKept
<1> QED BY <1>2, <1>3, <1>4 DEF Server

-----------------------------------------------------------------------------
(* The transactions counted as final.                                      *)

Open == {"send", "wait", "await"}

LEMMA UnsettledWalks ==
  ASSUME TypeOK, JobsDiffer, NEW w \in Worker, NEW label, step[w] \in Busy, Walks(w, label)
  PROVE  Unsettled' = IF label \in Open THEN Unsettled \cup {job[w]} ELSE Unsettled \ {job[w]}
<1>1. Open \in SUBSET Busy
  BY DEF Open, Busy
<1>2. HeldAt(Open)' = IF label \in Open THEN HeldAt(Open) \cup {job[w]} ELSE HeldAt(Open) \ {job[w]}
  BY <1>1, HeldMoves
<1>3. tasks' = tasks /\ job[w] \notin tasks
  BY DEF Walks, JobsDiffer
<1>4. Unsettled = tasks \cup HeldAt(Open) /\ Unsettled' = tasks' \cup HeldAt(Open)'
  BY DEF Unsettled, Open
<1>5. CASE label \in Open
  BY <1>2, <1>3, <1>4, <1>5
<1>6. CASE label \notin Open
  BY <1>2, <1>3, <1>4, <1>6
<1> QED BY <1>5, <1>6

LEMMA OpenUnsettled ==
  ASSUME TypeOK, JobsDiffer, NEW w \in Worker
  PROVE  step[w] \in Open => job[w] \in Unsettled
  BY DEF Unsettled, HeldAt, Open

LEMMA UnsettledType == TypeOK => Unsettled \subseteq Request
  BY HeldType DEF Unsettled, TypeOK

LEMMA ConfirmedFinite ==
  /\ Confirmed \subseteq Request
  /\ \A S : IsFiniteSet(Confirmed \ S) /\ Cardinality(Confirmed \ S) \in Nat
<1>1. Confirmed \subseteq Request
  BY DEF Confirmed
<1>2. ASSUME NEW S PROVE IsFiniteSet(Confirmed \ S)
  <2>1. (Confirmed \ S) \subseteq Request
    BY <1>1
  <2> QED BY <2>1, BenchAssumption, FS_Subset
<1> QED BY <1>1, <1>2, FS_CardinalityType

LEMMA FinalsKept ==
  ASSUME TypeOK, FinalsBacked, faults' = faults, m'.finals = m.finals,
         Confirmed \subseteq Confirmed', Unsettled' \subseteq Unsettled
  PROVE  FinalsBacked'
<1> SUFFICES ASSUME Quiet' PROVE m'.finals <= Cardinality(Confirmed' \ Unsettled')
  BY DEF FinalsBacked
<1>1. m.finals <= Cardinality(Confirmed \ Unsettled) /\ m.finals \in Nat
  BY DEF FinalsBacked, Quiet, TypeOK, Metrics
<1>2. IsFiniteSet(Confirmed' \ Unsettled')
  <2>1. (Confirmed' \ Unsettled') \subseteq Request
    BY DEF Confirmed
  <2> QED BY <2>1, BenchAssumption, FS_Subset
<1>3. (Confirmed \ Unsettled) \subseteq (Confirmed' \ Unsettled')
  OBVIOUS
<1> DEFINE before == Cardinality(Confirmed \ Unsettled)
           after == Cardinality(Confirmed' \ Unsettled')
<1>4. before \in Nat /\ after \in Nat /\ before <= after
  BY <1>2, <1>3, ConfirmedFinite, FS_CardinalityType, FS_Subset
<1> HIDE DEF before, after
<1>5. m.finals <= before
  BY <1>1 DEF before
<1>6. m'.finals <= after
  BY <1>1, <1>4, <1>5
<1> QED BY <1>6 DEF after

(* A worker goes on with its transaction.                                  *)
LEMMA WalkKeeps ==
  ASSUME TypeOK, JobsDiffer, WaitersTold, FinalsBacked,
         NEW w \in Worker, NEW label, step[w] \in Busy, Walks(w, label),
         OthersServed(job[w]),
         label \in Open => step[w] \in Open /\ ctx'[job[w]] = ctx[job[w]],
         label = "await" => /\ pc'[job[w]] = "answered"
                            /\ StatusCode(answer'[job[w]].status) = "200"
  PROVE  /\ WaitersTold' /\ Unsettled' \subseteq Unsettled
         /\ status'[job[w]] = status[job[w]] /\ m'.finals = m.finals => FinalsBacked'
<1>1. job[w] \in Request /\ job' = job
  BY DEF TypeOK, Walks
<1>2. Unsettled' = IF label \in Open THEN Unsettled \cup {job[w]} ELSE Unsettled \ {job[w]}
  BY UnsettledWalks
<1>3. Unsettled' \subseteq Unsettled
  BY <1>2, OpenUnsettled
<1>4. ASSUME NEW v \in Worker, step'[v] = "await"
      PROVE  pc'[job'[v]] = "answered" /\ StatusCode(answer'[job'[v]].status) = "200"
  <2>1. step'[v] = IF v = w THEN label ELSE step[v]
    BY DEF Walks, Step, TypeOK
  <2>2. CASE v = w
    BY <1>1, <1>4, <2>1, <2>2
  <2>3. CASE v # w
    <3>1. step[v] = "await" /\ job[v] \in Request
      BY <1>4, <2>1, <2>3 DEF TypeOK
    <3>2. job[v] # job[w]
      BY <2>3, <3>1 DEF JobsDiffer, Busy
    <3>3. pc[job[v]] = "answered" /\ StatusCode(answer[job[v]].status) = "200"
      BY <3>1 DEF WaitersTold
    <3>4. pc'[job[v]] = pc[job[v]] /\ answer'[job[v]] = answer[job[v]]
      BY <1>1, <3>1, <3>2 DEF OthersServed
    <3> QED BY <1>1, <3>3, <3>4
  <2> QED BY <2>2, <2>3
<1>5. ASSUME Quiet', NEW r \in Unsettled'
      PROVE  ctx'[r] = "live"
  <2>1. Quiet /\ r \in Unsettled /\ r \in Request
    BY <1>3, <1>5, UnsettledType DEF Quiet, OthersServed
  <2>2. ctx[r] = "live"
    BY <2>1 DEF WaitersTold
  <2>3. CASE r = job[w]
    <3>1. label \in Open
      BY <1>2, <1>5, <2>3
    <3> QED BY <2>2, <2>3, <3>1
  <2>4. CASE r # job[w]
    BY <1>1, <2>1, <2>2, <2>4 DEF OthersServed
  <2> QED BY <2>3, <2>4
<1>6. WaitersTold'
  BY <1>4, <1>5 DEF WaitersTold
<1>7. ASSUME status'[job[w]] = status[job[w]], m'.finals = m.finals
      PROVE  FinalsBacked'
  <2>1. \A r \in Request : status'[r] = status[r]
    BY <1>1, <1>7 DEF OthersServed
  <2>2. Confirmed \subseteq Confirmed' /\ faults' = faults
    BY <2>1 DEF Confirmed, OthersServed
  <2> QED BY <1>3, <1>7, <2>2, FinalsKept
<1> QED BY <1>3, <1>6, <1>7

(* The steps of a worker that leave the server alone.                      *)
LEMMA QuietWalkKeeps ==
  ASSUME TypeOK, JobsDiffer, ServerInv, WaitersTold, FinalsBacked,
         NEW w \in Worker, NEW label, step[w] \in Busy, Walks(w, label), UNCHANGED frontVars,
         label \in Open => step[w] \in Open,
         label = "await" => /\ pc[job[w]] = "answered"
                            /\ StatusCode(answer[job[w]].status) = "200"
  PROVE  /\ ServerInv' /\ WaitersTold' /\ Unsettled' \subseteq Unsettled
         /\ m'.finals = m.finals => FinalsBacked'
<1>1. job[w] \in Request
  BY DEF TypeOK
<1>2. OthersServed(job[w]) /\ ServerInv'
  BY <1>1, FrontStays
<1>3. UNCHANGED <<pc, answer, status, ctx>>
  BY DEF frontVars
<1> QED BY <1>2, <1>3, WalkKeeps

(* What a worker waited for with success is confirmed, and not counted yet. *)
LEMMA AwaitedIsConfirmed ==
  ASSUME TypeOK, ServerInv, WaitersTold, Quiet, NEW w \in Worker, AwaitReaches(w)
  PROVE  job[w] \in Confirmed /\ job[w] \in Unsettled
<1> DEFINE r == job[w]
<1>1. r \in Request /\ step[w] = "await" /\ r \in Unsettled
  BY DEF AwaitReaches, TypeOK, Unsettled, HeldAt
<1>2. pc[r] = "answered" /\ StatusCode(answer[r].status) = "200" /\ ctx[r] = "live"
  BY <1>1 DEF WaitersTold
<1>3. answer[r].order = r /\ (answer[r].status \in Finals => status[r] = "CONFIRMED")
  BY <1>1, <1>2 DEF ServerInv, ServerTells, StatusCode
<1>4. GetOrder(answer[r].order) = {status[r]}
  BY <1>3 DEF GetOrder, Quiet
<1>5. status[r] \in Finals \/ answer[r].status \in Finals
  BY <1>4 DEF AwaitReaches
<1>6. status[r] # "COMMITTED"
  BY <1>1, BenchAssumption DEF TypeOK, FrontTypeOK
<1>7. status[r] = "CONFIRMED"
  BY <1>3, <1>5, <1>6 DEF Finals
<1> QED BY <1>1, <1>7 DEF Confirmed

LEMMA ReachedKeeps ==
  ASSUME TypeOK, JobsDiffer, ServerInv, WaitersTold, FinalsBacked, NEW w \in Worker, AwaitReaches(w)
  PROVE  ServerInv' /\ WaitersTold' /\ FinalsBacked'
<1>1. /\ step[w] \in Busy /\ Walks(w, "ok") /\ UNCHANGED frontVars /\ recordFinal(TRUE)
      /\ "ok" \notin Open
  BY DEF AwaitReaches, Walks, Busy, Open
<1>2. ServerInv' /\ WaitersTold'
  BY <1>1, QuietWalkKeeps
<1>3. ASSUME Quiet'
      PROVE  m'.finals <= Cardinality(Confirmed' \ Unsettled')
  <2>1. Quiet /\ Confirmed' = Confirmed
    BY <1>1, <1>3 DEF Quiet, Confirmed, frontVars
  <2>2. Unsettled' = Unsettled \ {job[w]}
    BY <1>1, UnsettledWalks
  <2>3. job[w] \in Confirmed /\ job[w] \in Unsettled
    BY <2>1, AwaitedIsConfirmed
  <2>4. Confirmed' \ Unsettled' = (Confirmed \ Unsettled) \cup {job[w]}
    BY <2>1, <2>2, <2>3
  <2>5. Cardinality(Confirmed' \ Unsettled') = Cardinality(Confirmed \ Unsettled) + 1
    <3>1. job[w] \notin Confirmed \ Unsettled /\ IsFiniteSet(Confirmed \ Unsettled)
      BY <2>3, ConfirmedFinite
    <3> QED BY <2>4, <3>1, FS_AddElement
  <2>6. m'.finals = m.finals + 1 /\ m.finals \in Nat
    BY <1>1, FinalRecorded DEF TypeOK, Metrics
  <2>7. m.finals <= Cardinality(Confirmed \ Unsettled)
    BY <2>1 DEF FinalsBacked
  <2>8. Cardinality(Confirmed \ Unsettled) \in Nat
    BY ConfirmedFinite
  <2> QED BY <2>5, <2>6, <2>7, <2>8
<1> QED BY <1>2, <1>3 DEF FinalsBacked

LEMMA ArriveEffect ==
  ASSUME TypeOK, ServerInv, NEW w \in Worker, Send(w)
  PROVE  /\ OthersServed(job[w]) /\ ServerInv'
         /\ ctx' = ctx /\ status' = status
<1> PICK r \in Request : r = job[w]
  BY DEF TypeOK
<1>1. r \in Request /\ FrontTypeOK /\ ServerTells(r)
  BY DEF TypeOK, ServerInv
<1>2. /\ pc[r] = "idle" /\ asked' = [asked EXCEPT ![r] = [key |-> r, id |-> r]]
      /\ Goto(r, "lookup") /\ UNCHANGED <<faults, mode, ctx, created, status>>
  BY DEF Send, Arrive
<1>3. /\ pc'[r] = "lookup" /\ answer' = answer
      /\ \A s \in Request \ {r} : pc'[s] = pc[s]
  BY <1>1, <1>2, GotoEffect
<1>4. /\ asked'[r] = [key |-> r, id |-> r]
      /\ \A s \in Request \ {r} : asked'[s] = asked[s]
  BY <1>1, <1>2 DEF FrontTypeOK
<1>5. OthersServed(r)
  BY <1>2, <1>3, <1>4 DEF OthersServed
<1>6. ServerTells(r)'
  BY <1>1, <1>2, <1>3, <1>4 DEF ServerTells
<1>7. ServerInv'
  BY <1>5, <1>6, ServerKept
<1> QED BY <1>2, <1>5, <1>7

LEMMA FailureEffect ==
  ASSUME TypeOK, ServerInv, NEW w \in Worker, TransportFails(w)
  PROVE  OthersServed(job[w]) /\ ServerInv' /\ status' = status
<1> PICK r \in Request : r = job[w]
  BY DEF TypeOK
<1>1. r \in Request /\ FrontTypeOK /\ ServerTells(r)
  BY DEF TypeOK, ServerInv
<1>2. /\ UNCHANGED <<faults, pc, asked, created, status, answer>>
      /\ IF Running(r) THEN \E left \in {ctx[r], "dead"} : ctx' = [ctx EXCEPT ![r] = left]
                       ELSE UNCHANGED ctx
  BY DEF TransportFails
<1>3. \A s \in Request \ {r} : ctx'[s] = ctx[s]
  BY <1>1, <1>2 DEF FrontTypeOK
<1>4. pc[r] = "answered" => ctx'[r] = ctx[r]
  BY <1>2 DEF Running
<1>5. OthersServed(r)
  BY <1>2, <1>3 DEF OthersServed
<1>6. ServerTells(r)'
  BY <1>1, <1>2, <1>4 DEF ServerTells, Quiet
<1>7. ServerInv'
  BY <1>5, <1>6, ServerKept
<1> QED BY <1>2, <1>5, <1>7

(* A step that moves no worker between places where a wait is open.        *)
LEMMA IdleKeeps ==
  ASSUME TypeOK, ServerInv, WaitersTold, FinalsBacked, UNCHANGED frontVars, m'.finals = m.finals,
         Unsettled' = Unsettled,
         \A v \in Worker : step'[v] = "await" => step[v] = "await" /\ job'[v] = job[v]
  PROVE  ServerInv' /\ WaitersTold' /\ FinalsBacked'
<1>1. UNCHANGED <<faults, pc, asked, created, status, answer, ctx>>
  BY DEF frontVars
<1>2. ServerInv'
  <2>1. PICK r \in Request : TRUE
    BY BenchAssumption
  <2> QED BY <2>1, FrontStays
<1>3. WaitersTold'
  BY <1>1 DEF WaitersTold, Quiet
<1>4. Confirmed' = Confirmed
  BY <1>1 DEF Confirmed
<1> QED BY <1>1, <1>2, <1>3, <1>4, FinalsKept

LEMMA WorkKeepsFinals ==
  ASSUME FinalInv, NEW w \in Worker, Work(w)
  PROVE  ServerInv' /\ WaitersTold' /\ FinalsBacked'
<1>1. TypeOK /\ JobsDiffer /\ PlaceTells /\ ServerInv /\ WaitersTold /\ FinalsBacked
  BY DEF FinalInv, CountInv
<1>2. m \in Metrics /\ FrontTypeOK /\ job[w] \in Request
  BY <1>1 DEF TypeOK
<1>3. CASE Take(w)
  <2>1. /\ UNCHANGED <<frontVars, m>>
        /\ \A v \in Worker : step'[v] = "await" => step[v] = "await" /\ job'[v] = job[v]
    <3>1. PICK r : job' = [job EXCEPT ![w] = r]
      BY <1>3 DEF Take
    <3> QED BY <1>1, <1>3, <3>1 DEF Take, Step, TypeOK
  <2>2. Unsettled' = Unsettled
    <3>1. PICK r \in tasks :
            /\ tasks' = tasks \ {r}
            /\ \A steps \in SUBSET Busy :
                 HeldAt(steps)' = IF "send" \in steps THEN HeldAt(steps) \cup {r} ELSE HeldAt(steps)
      BY <1>1, <1>3, TakeEffect
    <3>2. HeldAt({"send", "wait", "await"})' = HeldAt({"send", "wait", "await"}) \cup {r}
      BY <3>1 DEF Busy
    <3> QED BY <3>1, <3>2 DEF Unsettled
  <2> QED BY <1>1, <2>1, <2>2, IdleKeeps
<1>4. CASE Send(w)
  <2>1. /\ step[w] \in Busy /\ Walks(w, "wait") /\ step[w] \in Open /\ m' = m
        /\ "wait" # "await"
    BY <1>4 DEF Send, Walks, Busy, Open
  <2>2. OthersServed(job[w]) /\ ServerInv' /\ ctx' = ctx /\ status' = status
    BY <1>1, <1>4, ArriveEffect
  <2> QED BY <1>1, <2>1, <2>2, WalkKeeps
<1>5. CASE Receive(w)
  <2> PICK body \in Body(job[w]), code \in Code, label \in Place :
             /\ recordStatus(code, body.status) /\ Step(w, label)
             /\ code = StatusCode(answer[job[w]].status)
             /\ label = "failed" <=> code # "200"
    BY <1>5, ReceiveEffect
  <2>1. step[w] = "wait" /\ pc[job[w]] = "answered" /\ Walks(w, label) /\ UNCHANGED frontVars
    BY <1>5 DEF Receive, Walks
  <2>2. step[w] \in Busy /\ step[w] \in Open
    BY <2>1 DEF Busy, Open
  <2>3. label = "await" => StatusCode(answer[job[w]].status) = "200"
    OBVIOUS
  <2>4. m'.finals = m.finals
    BY <1>2, StatusRecorded
  <2> QED BY <1>1, <2>1, <2>2, <2>3, <2>4, QuietWalkKeeps
<1>6. CASE TransportFails(w)
  <2>1. /\ step[w] \in Busy /\ Walks(w, "failed") /\ "failed" \notin Open /\ "failed" # "await"
        /\ recordStatus("0", "none") /\ "0" \in Code
    BY <1>6 DEF TransportFails, Walks, Busy, Open, Code
  <2>2. OthersServed(job[w]) /\ ServerInv' /\ status' = status
    BY <1>1, <1>6, FailureEffect
  <2>3. m'.finals = m.finals
    BY <1>2, <2>1, StatusRecorded
  <2> QED BY <1>1, <2>1, <2>2, <2>3, WalkKeeps
<1>7. CASE CallDirect(w)
  <2>1. PICK code \in Code :
          /\ recordStatus(code, "none")
          /\ Step(w, "failed") \/ Step(w, "ok") \/ step' = step
    BY <1>7 DEF CallDirect, Code
  <2>2. m'.finals = m.finals
    BY <1>2, <2>1, StatusRecorded
  <2>3. step[w] = "send" /\ UNCHANGED <<frontVars, tasks, job>>
    BY <1>7 DEF CallDirect
  <2>4. CASE step' = step
    <3>1. Unsettled' = Unsettled
      BY <2>3, <2>4 DEF Unsettled, HeldAt
    <3> QED BY <1>1, <2>2, <2>3, <2>4, <3>1, IdleKeeps
  <2>5. ASSUME NEW label \in {"failed", "ok"}, Step(w, label)
        PROVE  ServerInv' /\ WaitersTold' /\ FinalsBacked'
    <3>1. step[w] \in Busy /\ Walks(w, label) /\ label \notin Open /\ label # "await"
      BY <2>3, <2>5 DEF Busy, Walks, Open
    <3> QED BY <1>1, <2>2, <2>3, <3>1, QuietWalkKeeps
  <2> QED BY <2>1, <2>4, <2>5
<1>8. CASE AwaitReaches(w)
  BY <1>1, <1>8, ReachedKeeps
<1>9. CASE AwaitTimesOut(w)
  <2>1. /\ step[w] \in Busy /\ Walks(w, "ok") /\ "ok" \notin Open /\ "ok" # "await"
        /\ recordFinal(FALSE) /\ UNCHANGED frontVars
    BY <1>9 DEF AwaitTimesOut, Walks, Busy, Open
  <2>2. m'.finals = m.finals
    <3>1. m.finals \in Nat /\ m'.finals = m.finals + 0
      BY <1>2, <2>1, FinalRecorded DEF Metrics
    <3> QED BY <3>1
  <2> QED BY <1>1, <2>1, <2>2, QuietWalkKeeps
<1>10. CASE Record(w)
  <2>1. /\ step[w] \in Busy /\ Walks(w, "take") /\ "take" \notin Open /\ "take" # "await"
        /\ UNCHANGED frontVars
    BY <1>10 DEF Record, Walks, Busy, Open
  <2>2. m'.finals = m.finals
    <3>1. PICK latency \in Latency : recordTransaction(latency, step[w] = "failed")
      BY <1>10 DEF Record
    <3>2. (step[w] = "failed") \in BOOLEAN
      OBVIOUS
    <3> QED BY <1>2, <3>1, <3>2, TransactionRecorded
  <2> QED BY <1>1, <2>1, <2>2, QuietWalkKeeps
<1>11. CASE Exit(w)
  <2>1. /\ UNCHANGED <<frontVars, tasks, job, m>>
        /\ \A v \in Worker : step'[v] \in Open <=> step[v] \in Open
        /\ \A v \in Worker : step'[v] = "await" => step[v] = "await"
    BY <1>1, <1>11 DEF Exit, Step, TypeOK, Open
  <2>2. {v \in Worker : step'[v] \in Open} = {v \in Worker : step[v] \in Open}
    BY <2>1
  <2>3. Unsettled' = Unsettled
    BY <2>1, <2>2 DEF Unsettled, HeldAt, Open
  <2> QED BY <1>1, <2>1, <2>3, IdleKeeps
<1> QED BY <1>3, <1>4, <1>5, <1>6, <1>7, <1>8, <1>9, <1>10, <1>11 DEF Work

LEMMA FinalKept == FinalInv /\ [Next]_benchAll => FinalInv'
<1> SUFFICES ASSUME FinalInv, [Next]_benchAll PROVE FinalInv'
  OBVIOUS
<1>1. CountInv'
  BY CountKept, ServerNames DEF FinalInv
<1>2. TypeOK /\ JobsDiffer /\ ServerInv /\ WaitersTold /\ FinalsBacked
  BY DEF FinalInv, CountInv
<1>3. ASSUME UNCHANGED <<frontVars, tasks, step, job, m>>
      PROVE  ServerInv' /\ WaitersTold' /\ FinalsBacked'
  <2>1. Unsettled' = Unsettled
    BY <1>3 DEF Unsettled, HeldAt
  <2> QED BY <1>2, <1>3, <2>1, IdleKeeps
<1>4. ASSUME NEW r \in Request, Server(r)
      PROVE  ServerInv' /\ WaitersTold' /\ FinalsBacked'
  <2>1. /\ OthersServed(r) /\ ServerInv' /\ pc[r] # "answered"
        /\ Quiet => ctx' = ctx
        /\ status[r] = "CONFIRMED" => status'[r] = "CONFIRMED"
    BY <1>2, <1>4, ServerEffect
  <2>2. UNCHANGED <<tasks, step, job, m>>
    BY <1>4 DEF Server, benchVars
  <2>3. Unsettled' = Unsettled
    BY <2>2 DEF Unsettled, HeldAt
  <2>4. WaitersTold'
    <3>1. ASSUME NEW v \in Worker, step[v] = "await"
          PROVE  pc'[job[v]] = "answered" /\ StatusCode(answer'[job[v]].status) = "200"
      <4>1. pc[job[v]] = "answered" /\ StatusCode(answer[job[v]].status) = "200"
        BY <1>2, <3>1 DEF WaitersTold
      <4>2. job[v] \in Request \ {r}
        BY <1>2, <2>1, <4>1 DEF TypeOK
      <4> QED BY <2>1, <4>1, <4>2 DEF OthersServed
    <3>2. Quiet' => \A s \in Unsettled' : ctx'[s] = "live"
      BY <1>2, <2>1, <2>3 DEF WaitersTold, Quiet, OthersServed
    <3> QED BY <2>2, <3>1, <3>2 DEF WaitersTold
  <2>5. Confirmed \subseteq Confirmed'
    BY <2>1 DEF Confirmed, OthersServed
  <2>6. FinalsBacked'
    BY <1>2, <2>1, <2>2, <2>3, <2>5, FinalsKept DEF OthersServed
  <2> QED BY <2>1, <2>4, <2>6
<1>5. CASE Report \/ Done \/ UNCHANGED benchAll
  <2>1. UNCHANGED <<frontVars, tasks, step, job, m>>
    BY <1>5 DEF Report, Done, benchAll, benchVars
  <2> QED BY <1>1, <1>3, <2>1 DEF FinalInv
<1> QED BY <1>1, <1>4, <1>5, WorkKeepsFinals DEF Next, FinalInv

LEMMA FinalInit == Init => FinalInv
<1> SUFFICES ASSUME Init PROVE FinalInv
  OBVIOUS
<1>1. CountInv
  BY CountInit
<1>2. ServerInv
  BY BenchAssumption DEF Init, FrontInit, ServerInv, ServerTells
<1>3. WaitersTold
  <2>1. \A r \in Request : ctx[r] = "live"
    BY DEF Init, FrontInit
  <2>2. Unsettled \subseteq Request
    BY <1>1, UnsettledType DEF CountInv
  <2>3. \A w \in Worker : step[w] # "await"
    BY DEF Init
  <2> QED BY <2>1, <2>2, <2>3 DEF WaitersTold
<1>4. FinalsBacked
  <2>1. m.finals = 0
    BY DEF Init, newMetrics
  <2>2. Cardinality(Confirmed \ Unsettled) \in Nat
    BY ConfirmedFinite
  <2> QED BY <2>1, <2>2 DEF FinalsBacked
<1> QED BY <1>1, <1>2, <1>3, <1>4 DEF FinalInv

-----------------------------------------------------------------------------
(* What follows.                                                           *)

LEMMA FinalInvariance == Spec => []FinalInv
<1> QED BY FinalInit, FinalKept, PTL DEF Spec, benchAll

LEMMA CountInvariance == Spec => []CountInv
<1>1. FinalInv => CountInv
  BY DEF FinalInv
<1> QED BY <1>1, FinalInvariance, PTL

(* Every variable has values of its type, however many workers and         *)
(* transactions there are and whatever fails.                              *)
THEOREM BenchTypeCorrect == Spec => []TypeOK
<1>1. CountInv => TypeOK
  BY DEF CountInv
<1> QED BY <1>1, CountInvariance, PTL

(* The report accounts for every transaction once, although concurrent     *)
(* workers record it piece by piece: by outcome, latency, code, class and  *)
(* wait, for any number of workers, transactions and operations.           *)
THEOREM ReportAddsUpHolds == Spec => []ReportAddsUp
<1>1. CountInv => ReportAddsUp
  <2> SUFFICES ASSUME CountInv, report # NoReport PROVE ReportAddsUp
    BY DEF ReportAddsUp
  <2>1. TypeOK /\ PlaceTells /\ CountsAdd /\ ReportIsLast
    BY DEF CountInv
  <2>2. \A w \in Worker : step[w] = "exited"
    BY <2>1 DEF ReportIsLast
  <2>3. report.metrics = m
    BY <2>1 DEF ReportIsLast
  <2>4. tasks = {}
    BY <2>1, <2>2, BenchAssumption DEF PlaceTells
  <2>5. ASSUME NEW steps \in SUBSET Busy
        PROVE  Held(steps) = 0
    <3>1. HeldAt(steps) = {}
      BY <2>2 DEF HeldAt, Busy
    <3> QED BY <3>1, FS_EmptySet DEF Held
  <2>6. /\ Held(Busy) = 0 /\ Held({"failed"}) = 0 /\ Held({"ok"}) = 0
        /\ Held({"await", "ok", "failed"}) = 0 /\ Held({"await", "ok"}) = 0
    BY <2>5 DEF Busy
  <2>7. Called = {} /\ Cardinality(Called) = 0
    <3>1. Called = {}
      BY <2>2 DEF Called
    <3> QED BY <3>1, FS_EmptySet
  <2>8. Cardinality(tasks) = 0
    BY <2>4, FS_EmptySet
  <2>9. /\ m.success \in Nat /\ m.errors \in Nat /\ Errors(m) \in Nat /\ Codes(m) \in Nat
        /\ m.statusCounts["200"] \in Nat /\ DirectOps \in Nat
        /\ scenario \in {"checkout", "direct"}
    BY <2>1, CountTypes DEF TypeOK
  <2>10. m.success + m.errors = Cardinality(Request) /\ Len(m.latencies) = m.success
         /\ Errors(m) = m.errors
    BY <2>1, <2>6, <2>8, <2>9 DEF CountsAdd, TransactionsAdd
  <2>11. LET waits == m.finals + m.finalTimeout IN
           IF awaitFinal /\ scenario = "checkout"
           THEN waits <= m.success /\ (ConnectionsLast => waits = m.success)
           ELSE waits = 0
    BY <2>1, <2>6, <2>9 DEF CountsAdd, FinalsAdd
  <2>12. scenario = "checkout" => /\ Codes(m) = Cardinality(Request)
                                  /\ m.statusCounts["200"] >= m.success * 1
    BY <2>1, <2>6, <2>9, <2>10 DEF CountsAdd, AnswersAdd
  <2>13. scenario = "direct" => m.statusCounts["200"] >= m.success * DirectOps
    <3>1. m.success * DirectOps = DirectOps * m.success /\ DirectOps * m.success \in Nat
      BY <2>9
    <3> DEFINE past == DirectOps * m.success
    <3>2. scenario = "direct" => m.statusCounts["200"] >= past + 0
      BY <2>1, <2>7 DEF CountsAdd, CallsAdd
    <3> HIDE DEF past
    <3>3. scenario = "direct" => m.statusCounts["200"] >= past
      BY <2>9, <3>1, <3>2 DEF past
    <3> QED BY <3>1, <3>3 DEF past
  <2>14. m.statusCounts["200"] >= m.success * IF scenario = "checkout" THEN 1 ELSE DirectOps
    BY <2>9, <2>12, <2>13
  <2> QED BY <2>3, <2>10, <2>11, <2>12, <2>14 DEF ReportAddsUp
<1> QED BY <1>1, CountInvariance, PTL

(* As long as statements work and contexts live, the runner counts no more *)
(* waits as successful than there are confirmed orders, for any number of  *)
(* workers, also when clients give up and replicas die: a wait that ends   *)
(* well is for an order of its own, and confirmed.                         *)
THEOREM FinalizedIsSettledHolds == Spec => []FinalizedIsSettled
<1>1. FinalInv => FinalizedIsSettled
  <2> SUFFICES ASSUME FinalInv, Quiet
               PROVE  m.finals <= Cardinality({o \in OrderId : status[o] = "CONFIRMED"})
    BY DEF FinalizedIsSettled, Quiet
  <2>1. TypeOK /\ ServerInv /\ m.finals <= Cardinality(Confirmed \ Unsettled) /\ m.finals \in Nat
    BY DEF FinalInv, CountInv, FinalsBacked, TypeOK, Metrics
  <2>2. {o \in OrderId : status[o] = "CONFIRMED"} = Confirmed
    BY <2>1, BenchAssumption DEF Confirmed, ServerInv
  <2> DEFINE settled == Cardinality(Confirmed \ Unsettled)
             confirmed == Cardinality(Confirmed)
  <2>3. IsFiniteSet(Confirmed) /\ (Confirmed \ Unsettled) \subseteq Confirmed
    BY ConfirmedFinite, BenchAssumption, FS_Subset
  <2>4. settled \in Nat /\ confirmed \in Nat /\ settled <= confirmed
    BY <2>3, ConfirmedFinite, FS_CardinalityType, FS_Subset
  <2>5. m.finals <= settled
    BY <2>1
  <2> HIDE DEF settled, confirmed
  <2>6. m.finals <= confirmed
    BY <2>1, <2>4, <2>5
  <2> QED BY <2>2, <2>6 DEF confirmed
<1> QED BY <1>1, FinalInvariance, PTL

-----------------------------------------------------------------------------
(* Sorting, and the percentiles.                                           *)

(* Where a value belongs: equal values keep their order.                   *)
Before(s, i) == {j \in DOMAIN s : s[j] < s[i] \/ (s[j] = s[i] /\ j <= i)}
Position(s) == [i \in DOMAIN s |-> Cardinality(Before(s, i))]

LEMMA PlacesDiffer ==
  ASSUME NEW s \in Seq(Nat)
  PROVE  /\ DOMAIN s = 1..Len(s) /\ IsFiniteSet(DOMAIN s) /\ Cardinality(DOMAIN s) = Len(s)
         /\ Position(s) \in [DOMAIN s -> DOMAIN s]
         /\ \A i, j \in DOMAIN s : s[i] < s[j] \/ (s[i] = s[j] /\ i < j) => Position(s)[i] < Position(s)[j]
<1> DEFINE n == Len(s)
           D == DOMAIN s
<1>1. n \in Nat /\ D = 1..n /\ \A i \in D : s[i] \in Nat /\ i \in Int
  OBVIOUS
<1>2. IsFiniteSet(D) /\ Cardinality(D) = n
  <2>1. IF 1 > n THEN n = 0 ELSE n - 1 + 1 = n
    BY <1>1
  <2> QED BY <1>1, <2>1, FS_Interval
<1>3. ASSUME NEW i \in D
      PROVE  /\ Before(s, i) \subseteq D /\ IsFiniteSet(Before(s, i)) /\ i \in Before(s, i)
             /\ Cardinality(Before(s, i)) \in D
  <2>1. Before(s, i) \subseteq D /\ i \in Before(s, i)
    BY <1>1 DEF Before
  <2>2. IsFiniteSet(Before(s, i)) /\ Cardinality(Before(s, i)) <= n
    BY <1>2, <2>1, FS_Subset
  <2>3. Cardinality(Before(s, i)) \in Nat /\ Cardinality(Before(s, i)) # 0
    BY <2>1, <2>2, FS_CardinalityType, FS_EmptySet
  <2> QED BY <1>1, <2>1, <2>2, <2>3
<1>4. ASSUME NEW i \in D, NEW j \in D, s[i] < s[j] \/ (s[i] = s[j] /\ i < j)
      PROVE  Cardinality(Before(s, i)) < Cardinality(Before(s, j))
  <2>1. Before(s, i) \subseteq Before(s, j) /\ j \notin Before(s, i)
    BY <1>1, <1>4 DEF Before
  <2>2. Before(s, i) # Before(s, j)
    BY <1>3, <2>1
  <2>3. /\ Cardinality(Before(s, i)) <= Cardinality(Before(s, j))
        /\ Cardinality(Before(s, i)) # Cardinality(Before(s, j))
    BY <1>3, <2>1, <2>2, FS_Subset
  <2> QED BY <1>1, <1>3, <2>3
<1> HIDE DEF n
<1> QED BY <1>1, <1>2, <1>3, <1>4 DEF Position, n

(* Sorting permutes: a sorted permutation of a sample exists.              *)
LEMMA SortedPermutes ==
  ASSUME NEW s \in Seq(Nat)
  PROVE  /\ \A i, j \in DOMAIN s : i <= j => Sorted(s)[i] <= Sorted(s)[j]
         /\ \E p \in Bijection(DOMAIN s, DOMAIN s) : Sorted(s) = [i \in DOMAIN s |-> s[p[i]]]
<1> DEFINE D == DOMAIN s
           place == Position(s)
           order == [k \in D |-> CHOOSE i \in D : place[i] = k]
           t == [k \in D |-> s[order[k]]]
<1>1. /\ IsFiniteSet(D) /\ place \in [D -> D] /\ D = 1..Len(s)
      /\ \A i, j \in D : s[i] < s[j] \/ (s[i] = s[j] /\ i < j) => place[i] < place[j]
      /\ \A i \in D : s[i] \in Nat /\ i \in Nat
  BY PlacesDiffer
<1> HIDE DEF place, D
<1>2. \A i, j \in D : place[i] = place[j] => i = j
  <2> SUFFICES ASSUME NEW i \in D, NEW j \in D, i # j PROVE place[i] # place[j]
    OBVIOUS
  <2>1. place[i] \in Nat /\ place[j] \in Nat
    BY <1>1
  <2>2. s[i] < s[j] \/ s[j] < s[i] \/ (s[i] = s[j] /\ (i < j \/ j < i))
    <3>1. s[i] \in Nat /\ s[j] \in Nat /\ i \in Nat /\ j \in Nat
      BY <1>1
    <3> QED BY <3>1
  <2>3. place[i] < place[j] \/ place[j] < place[i]
    BY <1>1, <2>2
  <2> QED BY <2>1, <2>3
<1>3. place \in Injection(D, D)
  BY <1>1, <1>2 DEF Injection, IsInjective
<1>4. \A k \in D : \E i \in D : place[i] = k
  <2>1. place \in Surjection(D, D)
    BY <1>1, <1>3, FS_Injection
  <2> QED BY <2>1 DEF Surjection
<1>5. \A k \in D : order[k] \in D /\ place[order[k]] = k
  BY <1>4
<1>6. order \in Bijection(D, D)
  <2>1. order \in [D -> D]
    BY <1>5
  <2>2. \A k, l \in D : order[k] = order[l] => k = l
    BY <1>5
  <2>3. \A i \in D : order[place[i]] = i
    BY <1>1, <1>2, <1>5
  <2>4. \A i \in D : \E k \in D : order[k] = i
    BY <1>1, <2>3
  <2> HIDE DEF order
  <2> QED BY <2>1, <2>2, <2>4 DEF Bijection, Injection, Surjection, IsInjective
<1>7. \A k, l \in D : k <= l => t[k] <= t[l]
  <2> SUFFICES ASSUME NEW k \in D, NEW l \in D, k <= l, ~(t[k] <= t[l]) PROVE FALSE
    OBVIOUS
  <2>1. t[k] = s[order[k]] /\ t[l] = s[order[l]]
    OBVIOUS
  <2> HIDE DEF t, order
  <2>2. s[order[l]] < s[order[k]]
    BY <1>1, <1>5, <2>1
  <2>3. l < k
    BY <1>1, <1>5, <2>2
  <2> QED BY <1>1, <2>3
<1>8. t \in {[i \in D |-> s[p[i]]] : p \in Bijection(D, D)}
  <2> HIDE DEF order
  <2> QED BY <1>6
<1> HIDE DEF t, order
<1> DEFINE IsSorted(x) == \A i, j \in D : i <= j => x[i] <= x[j]
           All == {[i \in D |-> s[p[i]]] : p \in Bijection(D, D)}
<1>9. Sorted(s) = CHOOSE x \in All : IsSorted(x)
  BY DEF Sorted, D
<1>10. IsSorted(t) /\ t \in All
  BY <1>7, <1>8
<1> HIDE DEF IsSorted, All
<1>11. Sorted(s) \in All /\ IsSorted(Sorted(s))
  BY <1>9, <1>10
<1> QED BY <1>11 DEF IsSorted, All, D

(* What a permutation leaves as it was.                                    *)
LEMMA PermutationKeeps ==
  ASSUME NEW s \in Seq(Nat), NEW p \in Bijection(DOMAIN s, DOMAIN s)
  PROVE  LET t == [i \in DOMAIN s |-> s[p[i]]] IN
         /\ t \in Seq(Nat) /\ Len(t) = Len(s)
         /\ Range(t) = Range(s)
         /\ \A v \in Nat : Cardinality(UpTo(t, v)) = Cardinality({i \in DOMAIN s : s[i] <= v})
<1> DEFINE D == DOMAIN s
           t == [i \in D |-> s[p[i]]]
<1>1. /\ D = 1..Len(s) /\ Len(s) \in Nat /\ IsFiniteSet(D)
      /\ \A i \in D : s[i] \in Nat
  BY PlacesDiffer
<1> HIDE DEF D
<1>2. /\ p \in [D -> D] /\ \A i, j \in D : p[i] = p[j] => i = j
      /\ \A k \in D : \E i \in D : p[i] = k
  BY DEF Bijection, Injection, Surjection, IsInjective, D
<1>3. /\ t \in Seq(Nat) /\ Len(t) = Len(s) /\ DOMAIN t = D
      /\ \A i \in D : t[i] = s[p[i]]
  <2>1. t \in [1..Len(s) -> Nat]
    BY <1>1, <1>2
  <2>2. t \in Seq(Nat) /\ Len(t) = Len(s)
    BY <1>1, <2>1
  <2> QED BY <1>1, <2>2
<1> HIDE DEF t
<1>4. Range(t) = Range(s)
  <2>1. \A i \in D : p[i] \in D
    BY <1>2
  <2>2. Range(t) = {s[p[i]] : i \in D} /\ Range(s) = {s[i] : i \in D}
    BY <1>3 DEF Range, D
  <2> QED BY <1>2, <2>1, <2>2
<1>5. ASSUME NEW v \in Nat
      PROVE  Cardinality(UpTo(t, v)) = Cardinality({i \in D : s[i] <= v})
  <2> DEFINE A == UpTo(t, v)
             B == {i \in D : s[i] <= v}
             f == [i \in A |-> p[i]]
  <2>1. A = {i \in D : s[p[i]] <= v}
    BY <1>1, <1>3 DEF UpTo
  <2>2. IsFiniteSet(A)
    <3>1. A \subseteq D
      BY <2>1
    <3> QED BY <1>1, <3>1, FS_Subset
  <2>3. f \in Bijection(A, B)
    <3>1. f \in [A -> B]
      BY <1>2, <2>1
    <3>2. \A i, j \in A : f[i] = f[j] => i = j
      BY <1>2, <2>1
    <3>3. \A k \in B : \E i \in A : f[i] = k
      BY <1>2, <2>1
    <3> HIDE DEF f, A, B
    <3> QED BY <3>1, <3>2, <3>3 DEF Bijection, Injection, Surjection, IsInjective
  <2>4. ExistsBijection(A, B)
    BY <2>3 DEF ExistsBijection
  <2> HIDE DEF A, B
  <2>5. Cardinality(A) = Cardinality(B)
    BY <2>2, <2>4, FS_Bijection
  <2> QED BY <2>5 DEF A, B
<1> QED BY <1>3, <1>4, <1>5 DEF D, t

(* The reported extremes are those of the reported sample, for any number  *)
(* of latencies, those below a millisecond included.                       *)
THEOREM ExtremesAgreeHolds == Spec => []ExtremesAgree
<1>1. CountInv => ExtremesAgree
  <2> DEFINE sample == report.metrics.latencies
  <2> SUFFICES ASSUME CountInv, report # NoReport, Range(sample) # {}
               PROVE  /\ {report.min, report.max} \subseteq Range(sample)
                      /\ \A v \in Range(sample) : report.min <= v /\ v <= report.max
    BY DEF ExtremesAgree
  <2>1. /\ sample = m.latencies /\ sample \in Seq(Nat) /\ ExtremesBound
        /\ report.min = Milliseconds(m.min) /\ report.max = Milliseconds(m.max)
    BY DEF CountInv, ReportIsLast, TypeOK, Metrics
  <2>2. DOMAIN sample = 1..Len(sample)
    BY <2>1
  <2> HIDE DEF sample
  <2>3. Range(sample) = {sample[i] : i \in 1..Len(sample)}
    BY <2>2 DEF Range
  <2>4. sample # <<>>
    BY <2>1, <2>3
  <2> QED BY <2>1, <2>3, <2>4 DEF ExtremesBound, AreExtremes
<1> QED BY <1>1, CountInvariance, PTL

(* Every reported percentile is the nearest rank of the measured sample,   *)
(* for any number of latencies.                                            *)
THEOREM NearestRankHolds == Spec => []NearestRank
<1>1. CountInv => NearestRank
  <2> DEFINE sample == report.metrics.latencies
             Count(v) == Cardinality({i \in DOMAIN sample : sample[i] <= v})
  <2> SUFFICES ASSUME CountInv, report # NoReport, sample # <<>>, NEW p \in Percents
               PROVE  LET v == report.percentiles[p] IN
                        /\ v \in Range(sample)
                        /\ 100 * Count(v) >= p * Len(sample)
                        /\ \A u \in Range(sample) : u < v => 100 * Count(u) < p * Len(sample)
    BY DEF NearestRank
  <2> DEFINE v == report.percentiles[p]
             t == Sorted(sample)
  <2>1. sample \in Seq(Nat) /\ v = percentile(t, p)
    BY DEF CountInv, ReportIsLast, TypeOK, Metrics
  <2> HIDE DEF v, sample
  <2>2. /\ \A i, j \in DOMAIN sample : i <= j => t[i] <= t[j]
        /\ \E q \in Bijection(DOMAIN sample, DOMAIN sample) : t = [i \in DOMAIN sample |-> sample[q[i]]]
    BY <2>1, SortedPermutes
  <2>3. /\ t \in Seq(Nat) /\ Len(t) = Len(sample) /\ Range(t) = Range(sample)
        /\ \A x \in Nat : Cardinality(UpTo(t, x)) = Count(x)
    <3>1. PICK q \in Bijection(DOMAIN sample, DOMAIN sample) :
            t = [i \in DOMAIN sample |-> sample[q[i]]]
      BY <2>2
    <3> DEFINE s == [i \in DOMAIN sample |-> sample[q[i]]]
    <3>2. /\ s \in Seq(Nat) /\ Len(s) = Len(sample) /\ Range(s) = Range(sample)
          /\ \A x \in Nat : Cardinality(UpTo(s, x)) = Cardinality({i \in DOMAIN sample : sample[i] <= x})
      BY <2>1, PermutationKeeps
    <3>3. t = s
      BY <3>1
    <3> HIDE DEF s, t
    <3> QED BY <3>2, <3>3 DEF Count
  <2> HIDE DEF t, Count
  <2>4. DOMAIN sample = 1..Len(sample) /\ DOMAIN t = 1..Len(sample) /\ Len(sample) # 0
    BY <2>1, <2>3
  <2>5. /\ \E i \in 1..Len(t) : v = t[i]
        /\ 100 * Cardinality(UpTo(t, v)) >= p * Len(t)
        /\ \A u \in Int : u < v => 100 * Cardinality(UpTo(t, u)) < p * Len(t)
    <3>1. t \in Seq(Int) /\ t # <<>>
      BY <2>3, <2>4
    <3>2. \A i, j \in 1..Len(t) : i <= j => t[i] <= t[j]
      BY <2>2, <2>3, <2>4
    <3> QED BY <2>1, <3>1, <3>2, PercentileIsNearestRank
  <2>6. v \in Range(sample)
    <3>1. v \in Range(t)
      BY <2>3, <2>4, <2>5 DEF Range
    <3> QED BY <2>3, <3>1
  <2>7. \A u \in Range(sample) : u \in Nat
    BY <2>1, <2>4 DEF Range
  <2>8. 100 * Count(v) >= p * Len(sample)
    BY <2>3, <2>5, <2>6, <2>7
  <2>9. \A u \in Range(sample) : u < v => 100 * Count(u) < p * Len(sample)
    BY <2>3, <2>5, <2>7
  <2> QED BY <2>6, <2>8, <2>9 DEF v
<1> QED BY <1>1, CountInvariance, PTL
==============================================================================
