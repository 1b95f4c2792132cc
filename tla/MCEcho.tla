---- MODULE MCEcho ----
EXTENDS Echo
CONSTANTS c1
MCClients == {c1}
MCConns == MCClients \X (1 .. Addresses)
MCTasks == MCClients \cup MCConns
====
