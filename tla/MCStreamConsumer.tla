--------------------------- MODULE MCStreamConsumer ----------------------------
(* StreamConsumer with two tasks, on one instance or on an instance each.     *)
EXTENDS StreamConsumer

CONSTANTS c1, c2, p1, p2

OneInstance == [c \in Tasks |-> p1]
InstanceEach == [c \in Tasks |-> IF c = c1 THEN p1 ELSE p2]

Either == {OneInstance, InstanceEach}
Apart == {InstanceEach}
================================================================================
