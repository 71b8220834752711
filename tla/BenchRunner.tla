----------------------------- MODULE BenchRunner -----------------------------
(***************************************************************************)
(* The benchmark runner, and the front of order-service that it drives.    *)
(* Workers take transactions from a channel until it is closed and empty,  *)
(* call their operations one after the other, may wait for the final status*)
(* of the order, and record everything in one set of metrics; the main     *)
(* goroutine reports when all workers are gone.                            *)
(*                                                                         *)
(* In scenario "checkout" a transaction is one POST /checkout, with a key  *)
(* and an order id of its own, both named by the request: Request is the   *)
(* set of transactions.  "direct" stands for the scenarios 2pc, tcc and    *)
(* all, which call the endpoints of the participants themselves.           *)
(*                                                                         *)
(* A worker w stands at step[w]:                                           *)
(*   take -> send -> wait -> await -> ok -> take -> ... -> exited          *)
(* with "failed" instead of "ok" after an error.                           *)
(***************************************************************************)
EXTENDS CheckoutFront, Percentile, FiniteSets, Functions

CONSTANTS
  Worker,     \* -concurrency
  Latency,    \* measured durations, in nanoseconds
  DirectOps   \* operations of a transaction in scenario "direct"

(* main refuses a run without transactions or without workers.  No exchange*)
(* over HTTP is over in no time at all, but many in less than a            *)
(* millisecond.                                                            *)
ASSUME BenchAssumption ==
  /\ Request \subseteq Key \cap OrderId
  /\ IsFiniteSet(Request) /\ Request # {}
  /\ Worker # {}
  /\ Latency \subseteq Nat \ {0}
  /\ DirectOps \in Nat \ {0}

VARIABLES
  scenario, awaitFinal,  \* the flags
  tasks,                 \* the transactions not taken yet
  step, job, op,         \* where a worker stands, its transaction, its operation
  m,                     \* the metrics
  report                 \* what main prints at the end

benchVars == <<scenario, awaitFinal, tasks, step, job, op, m, report>>
flags == <<scenario, awaitFinal>>

Code == {"0", "200", "409", "500"}
Class == {"transport", "business_rejected", "http_4xx", "http_5xx"}
Metrics == [success : Nat, errors : Nat, min : Nat, max : Nat, latencies : Seq(Nat),
            finals : Nat, finalTimeout : Nat,
            statusCounts : [Code -> Nat], errorClasses : [Class -> Nat]]
NoReport == [metrics |-> "none"]

newMetrics == [success |-> 0, errors |-> 0, min |-> 0, max |-> 0, latencies |-> <<>>,
               finals |-> 0, finalTimeout |-> 0,
               statusCounts |-> [c \in Code |-> 0], errorClasses |-> [c \in Class |-> 0]]

Init ==
  /\ FrontInit
  /\ scenario \in {"checkout", "direct"}
  /\ awaitFinal \in BOOLEAN
  /\ tasks = Request
  /\ step = [w \in Worker |-> "take"]
  /\ job = [w \in Worker |-> CHOOSE r \in Request : TRUE]
  /\ op = [w \in Worker |-> 1]
  /\ m = newMetrics
  /\ report = NoReport

(* Every variable has values of its type.                                  *)
TypeOK ==
  /\ FrontTypeOK
  /\ scenario \in {"checkout", "direct"}
  /\ awaitFinal \in BOOLEAN
  /\ tasks \subseteq Request
  /\ step \in [Worker -> {"take", "send", "wait", "await", "ok", "failed", "exited"}]
  /\ job \in [Worker -> Request]
  /\ op \in [Worker -> 1..DirectOps]
  /\ m \in Metrics
  /\ report = NoReport \/ report.metrics \in Metrics

Step(w, label) == step' = [step EXCEPT ![w] = label]

-----------------------------------------------------------------------------
(* The metrics, each operation under their lock.                           *)

classifyError(code, said) ==
  CASE code = "0" -> "transport"
    [] said \in {"REJECTED", "ABORTED"} -> "business_rejected"
    [] OTHER -> IF code = "500" THEN "http_5xx" ELSE "http_4xx"

recordStatus(code, said) ==
  m' = IF code = "200" THEN [m EXCEPT !.statusCounts[code] = @ + 1]
       ELSE [m EXCEPT !.statusCounts[code] = @ + 1,
                      !.errorClasses[classifyError(code, said)] = @ + 1]

recordFinal(reached) ==
  m' = IF reached THEN [m EXCEPT !.finals = @ + 1] ELSE [m EXCEPT !.finalTimeout = @ + 1]

Milliseconds(d) == d \div 1000000

(* Mutant: the minimum is taken for empty when it is below a millisecond.  *)
recordTransactionInMs(latency, failed) ==
  m' = IF failed THEN [m EXCEPT !.errors = @ + 1]
       ELSE [m EXCEPT !.success = @ + 1,
                      !.min = IF Milliseconds(@) = 0 \/ latency < @ THEN latency ELSE @,
                      !.max = IF latency > @ THEN latency ELSE @,
                      !.latencies = Append(@, Milliseconds(latency))]

(* The sample is in whole milliseconds, the extremes are in nanoseconds,   *)
(* and the first latency replaces the zero of an empty minimum.            *)
recordTransaction(latency, failed) ==
  m' = IF failed THEN [m EXCEPT !.errors = @ + 1]
       ELSE [m EXCEPT !.success = @ + 1,
                      !.min = IF @ = 0 \/ latency < @ THEN latency ELSE @,
                      !.max = IF latency > @ THEN latency ELSE @,
                      !.latencies = Append(@, Milliseconds(latency))]

-----------------------------------------------------------------------------
(* The workers.                                                            *)

(* Transactions are interchangeable until they are sent.                   *)
Take(w) ==
  /\ step[w] = "take" /\ tasks # {}
  /\ LET r == CHOOSE r \in tasks : TRUE IN
       /\ tasks' = tasks \ {r}
       /\ job' = [job EXCEPT ![w] = r]
  /\ op' = [op EXCEPT ![w] = 1]
  /\ Step(w, "send")
  /\ UNCHANGED <<frontVars, flags, m, report>>

(* The POST reaches the server.                                            *)
Send(w) ==
  /\ step[w] = "send" /\ scenario = "checkout"
  /\ Arrive(job[w], [key |-> job[w], id |-> job[w]])
  /\ Step(w, "wait")
  /\ UNCHANGED <<flags, tasks, job, op, m, report>>

StatusCode(said) == CASE said = "FAILED" -> "500"
                      [] said \in {"REJECTED", "ABORTED"} -> "409"
                      [] OTHER -> "200"

(* The connection of a POST lasts until its body has been read.            *)
ConnectionsLast == {"call", "crash"} \cap faults = {}

(* What a worker reads of the body.  The error of reading is dropped, and  *)
(* nothing can be parsed of a body that is cut.                            *)
Body(r) == {answer[r]} \cup (IF ConnectionsLast THEN {} ELSE {Nothing})

(* Its answer comes back: the status line, and then the body.  Without an  *)
(* order there is nothing to wait for.                                     *)
Receive(w) ==
  /\ step[w] = "wait"
  /\ pc[job[w]] = "answered"
  /\ LET code == StatusCode(answer[job[w]].status) IN
       \E body \in Body(job[w]) :
         /\ recordStatus(code, body.status)
         /\ Step(w, IF code # "200" THEN "failed"
                    ELSE IF awaitFinal /\ body.order # NoOrder THEN "await" ELSE "ok")
  /\ UNCHANGED <<frontVars, flags, tasks, job, op, report>>

(* The call is lost, times out or has its connection closed.  The server   *)
(* may notice that its client has gone.                                    *)
TransportFails(w) ==
  /\ step[w] \in {"send", "wait"} /\ scenario = "checkout"
  /\ "call" \in faults \/ pc[job[w]] = "crashed"
  /\ recordStatus("0", "none")
  /\ Step(w, "failed")
  /\ IF Running(job[w]) THEN \E left \in {ctx[job[w]], "dead"} : ctx' = [ctx EXCEPT ![job[w]] = left]
                        ELSE UNCHANGED ctx
  /\ UNCHANGED <<faults, mode, pc, asked, created, status, answer, flags, tasks, job, op, report>>

(* Mutant: one operation too many.                                         *)
CallDirectOneMore(w) ==
  /\ step[w] = "send" /\ scenario = "direct"
  /\ recordStatus("200", "none")
  /\ IF op[w] > DirectOps THEN Step(w, "ok") /\ UNCHANGED op
     ELSE op' = [op EXCEPT ![w] = @ + 1] /\ UNCHANGED step
  /\ UNCHANGED <<frontVars, flags, tasks, job, report>>

(* One operation on a participant: only a prepare that fails answers 409.  *)
CallDirect(w) ==
  /\ step[w] = "send" /\ scenario = "direct"
  /\ \E code \in {"200"} \cup (IF "db" \in faults THEN {"409"} ELSE {})
                         \cup (IF "call" \in faults THEN {"0"} ELSE {}) :
       /\ recordStatus(code, "none")
       /\ IF code # "200" THEN Step(w, "failed") /\ UNCHANGED op
          ELSE IF op[w] = DirectOps THEN Step(w, "ok") /\ UNCHANGED op
          ELSE op' = [op EXCEPT ![w] = @ + 1] /\ UNCHANGED step
  /\ UNCHANGED <<frontVars, flags, tasks, job, report>>

Finals == {"CONFIRMED", "COMMITTED"}

(* Mutant: any answer is final.                                            *)
AwaitAnything(w) ==
  /\ step[w] = "await"
  /\ recordFinal(TRUE)
  /\ Step(w, "ok")
  /\ UNCHANGED <<frontVars, flags, tasks, job, op, report>>

(* The answer, or a later GET, has a final status.                         *)
AwaitReaches(w) ==
  /\ step[w] = "await"
  /\ (GetOrder(answer[job[w]].order) \cup {answer[job[w]].status}) \cap Finals # {}
  /\ recordFinal(TRUE)
  /\ Step(w, "ok")
  /\ UNCHANGED <<frontVars, flags, tasks, job, op, report>>

(* Mutant: polling goes on for ever.                                       *)
AwaitsForEver(w) == FALSE /\ UNCHANGED <<frontVars, benchVars>>

(* The answer was not final, and polls have seen nothing until the         *)
(* deadline.                                                               *)
AwaitTimesOut(w) ==
  /\ step[w] = "await"
  /\ answer[job[w]].status \notin Finals
  /\ recordFinal(FALSE)
  /\ Step(w, "ok")
  /\ UNCHANGED <<frontVars, flags, tasks, job, op, report>>

Record(w) ==
  /\ step[w] \in {"ok", "failed"}
  /\ \E latency \in Latency : recordTransaction(latency, step[w] = "failed")
  /\ Step(w, "take")
  /\ UNCHANGED <<frontVars, flags, tasks, job, op, report>>

Exit(w) ==
  /\ step[w] = "take" /\ tasks = {}
  /\ Step(w, "exited")
  /\ UNCHANGED <<frontVars, flags, tasks, job, op, m, report>>

(* sort.Float64s                                                           *)
Sorted(s) ==
  CHOOSE t \in {[i \in DOMAIN s |-> s[p[i]]] : p \in Bijection(DOMAIN s, DOMAIN s)} :
    \A i, j \in DOMAIN s : i <= j => t[i] <= t[j]

Result == [metrics |-> m,
           min |-> Milliseconds(m.min), max |-> Milliseconds(m.max),
           percentiles |-> [p \in Percents |-> percentile(Sorted(m.latencies), p)]]

(* Mutant: main does not wait for the workers.                             *)
ReportAtOnce ==
  /\ tasks = {} /\ report = NoReport
  /\ report' = Result
  /\ UNCHANGED <<frontVars, flags, tasks, step, job, op, m>>

(* wg.Wait, then the result.                                               *)
Report ==
  /\ \A w \in Worker : step[w] = "exited"
  /\ report = NoReport
  /\ report' = Result
  /\ UNCHANGED <<frontVars, flags, tasks, step, job, op, m>>

Work(w) ==
  \/ Take(w) \/ Send(w) \/ Receive(w) \/ TransportFails(w) \/ CallDirect(w)
  \/ AwaitReaches(w) \/ AwaitTimesOut(w) \/ Record(w) \/ Exit(w)

Server(r) == (Serve(r) \/ ExpireCtx(r) \/ Crash(r)) /\ UNCHANGED benchVars

Done == report # NoReport /\ UNCHANGED <<frontVars, benchVars>>

Next == (\E w \in Worker : Work(w)) \/ (\E r \in Request : Server(r)) \/ Report \/ Done

(* Goroutines are scheduled, on both sides, and timeouts end every wait.   *)
Spec ==
  /\ Init /\ [][Next]_<<frontVars, benchVars>>
  /\ \A w \in Worker : WF_<<frontVars, benchVars>>(Work(w))
  /\ \A r \in Request : WF_<<frontVars, benchVars>>(Serve(r) /\ UNCHANGED benchVars)
  /\ WF_<<frontVars, benchVars>>(Report)

-----------------------------------------------------------------------------
(* How many errors, and how many calls, a report tells of by class and code*)
Errors(r) == LET e == r.errorClasses
             IN  e["transport"] + e["business_rejected"] + e["http_4xx"] + e["http_5xx"]
Codes(r) == LET c == r.statusCounts IN c["0"] + c["200"] + c["409"] + c["500"]

(* The report accounts for every transaction once, although workers record *)
(* it piece by piece: outcomes, latencies, codes, classes and waits agree. *)
(* A checkout that succeeds is waited for once, at most, and without fail  *)
(* when its answer comes whole.                                            *)
ReportAddsUp ==
  report # NoReport =>
    LET r == report.metrics IN
      /\ r.success + r.errors = Cardinality(Request)
      /\ Len(r.latencies) = r.success
      /\ Errors(r) = r.errors
      /\ r.statusCounts["200"] >= r.success * IF scenario = "checkout" THEN 1 ELSE DirectOps
      /\ scenario = "checkout" => Codes(r) = Cardinality(Request)
      /\ LET waits == r.finals + r.finalTimeout IN
           IF awaitFinal /\ scenario = "checkout"
           THEN waits <= r.success /\ (ConnectionsLast => waits = r.success)
           ELSE waits = 0

(* A reported percentile is the least measured latency that p percent of   *)
(* the sample do not exceed.                                               *)
NearestRank ==
  report # NoReport =>
    LET sample == report.metrics.latencies
        UpTo(v) == Cardinality({i \in DOMAIN sample : sample[i] <= v})
    IN  sample # <<>> =>
          \A p \in Percents : LET v == report.percentiles[p] IN
            /\ v \in Range(sample)
            /\ 100 * UpTo(v) >= p * Len(sample)
            /\ \A u \in Range(sample) : u < v => 100 * UpTo(u) < p * Len(sample)

(* The reported extremes are the extremes of the reported sample, although *)
(* they are kept in another unit, with zero for none, and samples of zero  *)
(* milliseconds are common.                                                *)
ExtremesAgree ==
  report # NoReport =>
    LET sample == Range(report.metrics.latencies)
    IN  sample # {} =>
          /\ {report.min, report.max} \subseteq sample
          /\ \A v \in sample : report.min <= v /\ v <= report.max

(* What the runner counts as final is CONFIRMED in the database, as long as*)
(* statements work and contexts live, also when calls are lost and servers *)
(* die.  When the last status update of an order fails, its answer, which  *)
(* the runner believes, does not tell.                                     *)
FinalizedIsSettled ==
  {"db", "ctx"} \cap faults = {} =>
    m.finals <= Cardinality({o \in OrderId : status[o] = "CONFIRMED"})

(* Every run ends with a report, also when orders stay PENDING, as those of*)
(* saga-chor do, and when servers crash or calls are lost.                 *)
Finishes == <>(report # NoReport)
==============================================================================
