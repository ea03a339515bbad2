-------------------------- MODULE MCSubscriptions --------------------------
(* Connection c1 follows one topic, c2 all of them with a token that may   *)
(* read only one.                                                          *)
EXTENDS Subscriptions, TLC

CONSTANTS c1, c2, news, audit

Patterns    == [c \in Conns |-> IF c = c1 THEN {news} ELSE {news, audit}]
TokenScopes == [c \in Conns |-> IF c = c1 THEN {news, audit} ELSE {news}]
============================================================================
