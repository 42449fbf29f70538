------------------------------ MODULE MCConsole ------------------------------
(* Console with the Docker plugin and one that was dropped in before it and  *)
(* offers a command and a metric of Docker's, a built-in metric and an ec2   *)
(* command.                                                                  *)
EXTENDS Console

Dropped == "aws_plugin"
Modules == <<Dropped, Docker>>
Offers ==
    (Dropped :> [commands |-> {<<"docker", "ps">>, <<"ec2", "list">>},
                 metrics |-> {"cpu.util", DockerMetric}, actions |-> {"page"}])
    @@ (Docker :> [commands |-> {<<"docker", r>> : r \in Report \ {"count"}},
                   metrics |-> {DockerMetric}, actions |-> {}])
BuiltInMetrics == {"cpu.util"}
Shares == [k \in 1..3 |-> k % 3]
==============================================================================
