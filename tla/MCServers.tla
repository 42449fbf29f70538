------------------------------ MODULE MCServers ------------------------------
(* Receivers on the ports 1, the default, and 2; web dashboards on 3 and 4. *)
EXTENDS Servers

As(program, receiverAt, webFrom) ==
    [program |-> program, receiver |-> receiverAt, web |-> webFrom]

MCLaunch ==
    {As("dashboard", NoPort, 3), As("daemon", NoPort, NoPort), As("agent", NoPort, NoPort),
     As("cli", 1, NoPort), As("cli", 2, 3),
     As("web", NoPort, 3), As("web", 1, 3),
     As("receiver", 1, NoPort), As("receiver", 2, NoPort)}
=============================================================================
