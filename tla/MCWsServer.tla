----------------------------- MODULE MCWsServer -----------------------------
EXTENDS WsServer, TLC

CONSTANTS c1, c2, c3, u1, u2, p1, p2, m1, m2

(* Two connections on one replica, two rooms, u2 may only enter m1.        *)
OneReplica   == [c \in Conns |-> p1]
TwoUsers     == [c \in Conns |-> IF c = c1 THEN u1 ELSE u2]
PartialAccess == {<<u1, m1>>, <<u1, m2>>, <<u2, m1>>}

(* c1 and c2 share a replica, c3 (a second tab of u1) uses the other.      *)
TwoReplicas == [c \in Conns |-> IF c = c3 THEN p2 ELSE p1]
SecondTab   == [c \in Conns |-> IF c = c2 THEN u2 ELSE u1]
FullAccess  == Users \X Models
=============================================================================
