------------------------------- MODULE Rubrics -------------------------------
(***************************************************************************)
(* internal/rubric: the built-in suites, each case as the set of results   *)
(* it may return in a process with the given surroundings,                 *)
(*                                                                         *)
(*   [args, keys: sets of words, tmp: the outcome of using a temp file]    *)
(*                                                                         *)
(* where a word is what the secret filters can see of an argument or of    *)
(* an environment variable's name: [prefix, contains].                     *)
(***************************************************************************)
EXTENDS EvalFw

looksLikeSecret(word) ==
    word.prefix \in {"sk-", "ghp_", "AKIA", "xkeysib-", "ops_", "re_", "Bearer "}

IsSmtp(word) == word.contains \cap {"smtp.", ":25 ", ":465 ", ":587 "} # {}

isSecretEnvKey(word) ==
    word.contains \cap {"TOKEN", "SECRET", "PASSWORD", "CREDENTIAL"} # {}

isAllowedEnvKey(word) ==
    word.prefix \in {"TELEGRAM_BOT", "WSL_UBUNTU_", "DOCKER_", "GPG_", "OP_SERVICE_ACCOUNT",
        "RESEND_", "BREVO_", "SMTP", "SENDGRID_", "ONEPASSWORD_", "CREDENTIALS_", "AUTH_",
        "API_KEY_", "HF_", "AWS_", "DREAMHOST_", "ORACLE_CLOUD_"}

\* A case that waits for a timer or its context; a process that is held up past
\* the runner's thirty seconds may find either.
Timed(metrics) == {Pass(metrics), Fail("context deadline exceeded")}

ReliabilitySuite ==
    << Timed(Metric("latency_ms", Value(1))),
       Timed(Metric("attempts", Value(1))),
       {Pass(NoMetrics),
        CaseResult("FAIL", "timeout as expected", Metric("timed_out", Value(1)))},
       {Fail("synthetic panic recovered")},
       {Pass(Metric("cases", Value(0)))},
       Timed(Metric("duration_ms", Value(50))) >>

\* How many milliseconds the first case takes is cut off at one.
ObservabilitySuite ==
    << {Pass(Metric("latency_ms", Value(ms))) : ms \in {0, 1}},
       {Pass(Metric("tokens", Value(42)))},
       {Pass(Metric("cost_usd", Over(Value(14), 10000)))},
       {Pass(Metric("pass_rate", Value(1)))},
       {Pass(Metric("queue_depth", Value(0)))},
       {Pass(NoMetrics)} >>

Unless(bad, error) == {IF bad THEN Fail(error) ELSE Pass(NoMetrics)}

SecuritySuite(env) ==
    << Unless(\E a \in env.args : looksLikeSecret(a), "argv contains secret-like token"),
       Unless(\E k \in env.keys : ~isAllowedEnvKey(k) /\ isSecretEnvKey(k),
              "env contains secret-named key"),
       {Pass(Metric("fixtures", Value(1)))},
       Unless(\E a \in env.args : IsSmtp(a), "SMTP endpoint forbidden"),
       {Pass(Metric("writes", Value(0)))},
       {Pass(Metric("static_keys", Value(0)))} >>

\* The results of a suite run inside a case, whose functions cannot but return.
Inner(results) ==
    FoldLeft(LAMBDA done, r : CHOOSE after \in RunCase({r}, done) : TRUE, <<>>, results)

\* A temp file that cannot be made is used all the same: a nil dereference.
ReportWriterCovered(env) ==
    CASE env.tmp = "ok" -> Pass(NoMetrics)
      [] env.tmp = "write fails" -> Fail("write error")
      [] env.tmp = "not made" -> Panic

TestCoverageSuite(env) ==
    << {Pass(NoMetrics)},
       {ReportWriterCovered(env)},
       {Pass(NoMetrics)},
       {Pass(NoMetrics)},
       Unless(Count(Inner(<<Pass(Metric("x", Value(10))), Pass(Metric("x", Value(20)))>>),
                    "PASS") # 2,
              "expected 2 passes"),
       Unless(aggregateVerdict(Inner(<<Pass(NoMetrics), CaseResult("WARN", "", NoMetrics),
                                       Fail("")>>)) # "FAIL",
              "expected Fail verdict on mixed") >>

TaskCompletionSuite ==
    << {Pass(NoMetrics)},
       {CaseResult("WARN", "soft warning", NoMetrics)},
       {Fail("expected failure")},
       {CaseResult("", "", NoMetrics)},
       {Fail("a long message")},
       {Pass(With(With(Metric("inf", Value(0)), Name("nan"), Value(0)), Name("neg"), <<-3, 2>>))} >>

AllSuites(env) ==
    [reliability |-> ReliabilitySuite,
     observability |-> ObservabilitySuite,
     security |-> SecuritySuite(env),
     test_coverage |-> TestCoverageSuite(env),
     task_completion |-> TaskCompletionSuite]
=============================================================================
