------------------------------ MODULE MCGateway ------------------------------
(***************************************************************************)
(* Gateway for TLC: a request of every route, and requests without a key,  *)
(* a valid token or a valid body.                                          *)
(***************************************************************************)
EXTENDS Gateway

Ask(route, key, token, valid) ==
    [route |-> route, target |-> <<"k1">>, key |-> key, token |-> token, valid |-> valid]

MCRequest ==
    {Ask(route, TRUE, TRUE, TRUE) : route \in Route} \cup
    {Ask("order", FALSE, TRUE, TRUE), Ask("faucet", FALSE, TRUE, TRUE),
     Ask("register", TRUE, FALSE, TRUE)} \cup
    {Ask(route, TRUE, TRUE, FALSE) : route \in {"order", "withdraw", "faucet"}}

\* Rows of two tables, and attempts at requests that use them, do not depend on each other.
MCOneTable ==
    /\ \A a, b \in 1 .. sent : Table(attempt[a].req.route) = Table(attempt[b].req.route)
    /\ \A t \in Targets, a \in 1 .. sent :
           t[1] = "orders" /\ rows[t] # "NONE" => Table(attempt[a].req.route) = "orders"
=============================================================================
