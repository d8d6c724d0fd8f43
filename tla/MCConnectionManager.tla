------------------------ MODULE MCConnectionManager ------------------------
(***************************************************************************)
(* Instances of ConnectionManager for TLC.                                 *)
(***************************************************************************)
EXTENDS ConnectionManager

CONSTANTS p1, p2, p3, a1, a2, c1, c2

\* All fingerprints hash to the same shard, so that a guard on one peer's
\* handle keeps the other peers' tasks out as well.
OneShard == [p \in Peers |-> 1]

\* Calls and peers are interchangeable, so the first call may as well be the
\* one to p1.
FirstToP1 == [c \in Calls |-> IF c = c1 THEN {p1} ELSE {p1, p2}]

\* Two discovery tasks, one of which reports a peer nobody connects to: three
\* fingerprints for a table of one.
TwoSources == [a \in Adders |-> IF a = a1 THEN {p1, p2} ELSE {p3}]
=============================================================================
