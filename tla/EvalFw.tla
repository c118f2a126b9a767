-------------------------------- MODULE EvalFw --------------------------------
(***************************************************************************)
(* internal/evalfw without its state: what a case may return, what         *)
(* RunSuite makes of the results, and the event ReportWriter.Write makes   *)
(* of those.  A case is the set of the results its function may return;    *)
(* a nil function has none.                                                *)
(***************************************************************************)
EXTENDS Integers, Sequences, FiniteSets, FiniteSetsExt, SequencesExt

\* A metric's name: a word, and how many times "_avg" is appended to it.
Name(word) == <<word, 0>>
IsName(name) == name = <<name[1], name[2]>> /\ name[2] \in Nat
Avg(name) == <<name[1], name[2] + 1>>
Stem(name) == <<name[1], name[2] - 1>>

\* A metric's value, a fraction; anything over zero is no finite number.
Value(n) == <<n, 1>>
NaN == <<0, 0>>
IsFinite(v) == v[2] # 0
Plus(v, w) == <<v[1] * w[2] + w[1] * v[2], v[2] * w[2]>>
Over(v, n) == <<v[1], v[2] * n>>

\* metrics[k] = v
With(metrics, k, v) ==
    [j \in DOMAIN metrics \cup {k} |-> IF j = k THEN v ELSE metrics[j]]

NoMetrics == [k \in {} |-> NaN]
Metric(word, v) == With(NoMetrics, Name(word), v)

\* A CaseResult's Metrics, a map[string]float64.
IsMetrics(m) ==
    /\ IsFiniteSet(DOMAIN m)
    /\ \A k \in DOMAIN m : IsName(k) /\ m[k] \in Int \X Nat

CaseResult(verdict, error, metrics) ==
    [verdict |-> verdict, error |-> error, metrics |-> metrics]

Pass(metrics) == CaseResult("PASS", "", metrics)
Fail(error) == CaseResult("FAIL", error, NoMetrics)

\* What a function that panics comes to, in place of a result.
Panic == CaseResult("panic", "", NoMetrics)

\* One turn of RunSuite's loop: the results once the case has returned.
RunCase(case, results) ==
    {Append(results, r) : r \in
        (IF case = {} THEN {Fail("nil case function")} ELSE case) \ {Panic}}

\* Passed, Failed and Warned; an unset verdict is counted nowhere.
Count(results, verdict) ==
    Cardinality({i \in DOMAIN results : results[i].verdict = verdict})

aggregateVerdict(results) ==
    IF Count(results, "FAIL") > 0 THEN "FAIL"
    ELSE IF Count(results, "WARN") > 0 THEN "WARN"
    ELSE "PASS"
-----------------------------------------------------------------------------
Emitted(results) == UNION {DOMAIN results[i].metrics : i \in DOMAIN results}
Emitters(results, k) == {i \in DOMAIN results : k \in DOMAIN results[i].metrics}

Sum(results, k) ==
    FoldSet(LAMBDA i, v : Plus(results[i].metrics[k], v), Value(0), Emitters(results, k))

\* Mutant: averages over all the cases, not over those that emit the metric.
AveragesOverAll(results) ==
    {[k \in Emitted(results) \cup {Avg(j) : j \in Emitted(results)} |->
         IF k \in Emitted(results) THEN Sum(results, k)
         ELSE Over(Sum(results, Stem(k)), Len(results))]}

\* aggregateMetrics: sums by name, and then, in any order of the map, each
\* name's average from what its sum is by then, which a name that ends in
\* "_avg" may have lost to another name's average.  The order matters for
\* such names only.
AggregateMetrics(results) ==
    LET emitted == Emitted(results)
        entangled == {k \in emitted : \E j \in emitted : k = Avg(j) \/ j = Avg(k)}
        average(sum, k) == Over(sum, Cardinality(Emitters(results, k)))
        before == [k \in emitted \cup {Avg(j) : j \in emitted \ entangled} |->
                      IF k \in emitted THEN Sum(results, k)
                      ELSE average(Sum(results, Stem(k)), Stem(k))]
    IN  {FoldLeft(LAMBDA agg, k : With(agg, Avg(k), average(agg[k], k)), before, order) :
            order \in SetToSeqs(entangled)}

\* The ReportEvent of a suite's results.
Events(suite, results) ==
    {[suite |-> suite, verdict |-> aggregateVerdict(results), total |-> Len(results),
      passed |-> Count(results, "PASS"), failed |-> Count(results, "FAIL"),
      warned |-> Count(results, "WARN"), metrics |-> m] : m \in AggregateMetrics(results)}

\* json.Marshal refuses a number that is not finite.
CanMarshal(event) == \A k \in DOMAIN event.metrics : IsFinite(event.metrics[k])
=============================================================================
