--------------------------- MODULE MCResourceLock ---------------------------
EXTENDS ResourceLock

CONSTANTS c1, c2, c3, p1, p2, p3

\* Every caller runs in a process of its own.
OwnProcess == [c \in Caller |-> IF c = c1 THEN p1 ELSE IF c = c2 THEN p2 ELSE p3]

=============================================================================
