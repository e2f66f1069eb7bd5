---------------------------- MODULE MCMetricPath -----------------------------
EXTENDS MetricPath

letters == {"service", "name", "namespace", "instance", "id", "host", "job",
            "a", "b", "key", "le", "quantile", "__name__"}
digits == {"1"}
promoted == {SERVICE_NAME, SERVICE_NAMESPACE, SERVICE_INSTANCE}

Attr(k, v) == [key |-> k, value |-> <<v>>]

\* A service in a namespace; one with a job of its own; a host with two keys
\* of one normalized name.
res1 == <<Attr(SERVICE_NAME, "u"), Attr(SERVICE_NAMESPACE, "v")>>
res2 == <<Attr(<<"job">>, "v"), Attr(SERVICE_NAME, "u"), Attr(<<"_", "a">>, "u")>>
res3 == <<Attr(HOST_NAME, "u"), Attr(SERVICE_INSTANCE, "v"), Attr(<<"a", ".", "b">>, "u"), Attr(<<"a", "_", "b">>, "v")>>

\* Datapoints without attributes, with an override, with an empty override.
dp1 == <<>>
dp2 == <<Attr(<<"job">>, "u"), Attr(<<"1">>, "v")>>
dp3 == <<[key |-> <<"a", ".", "b">>, value |-> <<>>], Attr(<<"instance">>, "v")>>

Metric(type, base, bounds, hasSum, quantiles, res, dps) ==
  [type |-> type, base |-> base, bounds |-> bounds, hasSum |-> hasSum,
   quantiles |-> quantiles, res |-> res, dps |-> dps]

SomeMetrics ==
  {Metric("histogram", <<"x">>, {<<"1">>}, TRUE, {}, res1, {dp1, dp2}),
   Metric("histogram", <<"y">>, {}, FALSE, {}, res3, {dp1, dp3}),
   Metric("summary", <<"y">>, {}, FALSE, {<<"0.5">>}, res2, {dp1, dp2}),
   Metric("summary", <<"y", "_count">>, {}, FALSE, {}, res2, {dp1}),
   Metric("gauge", <<"x">>, {}, FALSE, {}, res2, {dp1, dp3}),
   Metric("gauge", <<"x", "_sum">>, {}, FALSE, {}, res3, {dp2, dp3}),
   Metric("sum", <<"y", "_total">>, {}, FALSE, {}, res1, {dp1, dp3})}

\* Of expressions on names: starting with x, ending in _count; on values:
\* nothing or u.
Words(first) == {first} \cup {Append(first, s) : s \in FamilySuffixes \cup {"_total"}}
SomeLang ==
  [r \in {<<"x.*">>, <<".*_count">>, <<"|u">>} |->
     CASE r = <<"x.*">> -> Words(<<"x">>)
       [] r = <<".*_count">> ->
            {Append(n, "_count") : n \in {<<"x">>, <<"y">>, <<"y", "_count">>}}
       [] OTHER -> {<<>>, <<"u">>}]

M(name, op, value) == [name |-> name, op |-> op, value |-> value]
Sel(ms) == [parses |-> TRUE, ms |-> ms]

SomeSelectors ==
  {[parses |-> FALSE, ms |-> <<>>],
   Sel(<<M(NAME, "=", <<"x", "_bucket">>), M(LE, "=", <<"1">>)>>),
   Sel(<<M(NAME, "=", <<"y">>), M(<<"job">>, "=", <<"u">>)>>),
   Sel(<<M(NAME, "=", <<"x", "_sum">>), M(NAME, "=~", <<".*_count">>)>>),
   Sel(<<M(NAME, "=~", <<"x.*">>), M(<<"job">>, "!=", <<"v">>)>>),
   Sel(<<M(NAME, "!~", <<"x.*">>), M(<<"a", "_", "b">>, "=~", <<"|u">>)>>),
   Sel(<<M(<<"job">>, "=", <<"v", "/", "u">>)>>),
   Sel(<<M(NAME, "=~", <<".*_count">>), M(<<"instance">>, "!=", <<>>),
         M(<<"key", "_", "1">>, "=", <<>>)>>)}

SomeNames ==
  {<<"x">>, <<"x", "_sum">>, <<"y", "_count">>, <<"y", "_sum">>, <<"y", "_total">>}

UpToTwo(S) == {{}} \cup {{a, b} : a, b \in S}
SomeDemands ==
  {[names |-> n, selectors |-> {}] : n \in UpToTwo(SomeNames)}
    \cup {[names |-> {<<"x">>}, selectors |-> s] : s \in UpToTwo(SomeSelectors)}

=============================================================================
