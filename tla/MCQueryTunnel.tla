---------------------------- MODULE MCQueryTunnel ----------------------------
EXTENDS QueryTunnel

\* A query the agent runs, one it does not allow, one for a target without URL.
Inputs ==
  {[target |-> "", method |-> "", path |-> <<"api", "v1", "query">>],
   [target |-> "vm", method |-> "POST", path |-> <<"api", "v1", "import">>],
   [target |-> "loki", method |-> "GET", path |-> <<"loki", "api", "v1", "query">>]}

=============================================================================
