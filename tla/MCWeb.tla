------------------------------- MODULE MCWeb -------------------------------
(* Two clients that ask for different things; every kind of request occurs. *)
EXTENDS WebServer, TLC

CONSTANTS c1, c2

Get(u) == [method |-> "GET", url |-> u]
Mixed == {c1 :> Get("dir") @@ c2 :> Get("missing")}
=============================================================================
