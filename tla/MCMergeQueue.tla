---------------------------- MODULE MCMergeQueue ----------------------------
EXTENDS MergeQueue

OneRepo == [i \in Issue |-> "owner/repo"]

OneEpic == [i \in Issue |-> 1]

OwnEpic == [i \in Issue |-> i]

\* No issue waits on another, or one waits on issue 2.
EvenGraph == [i \in Issue |-> 0]

SecondUnblocks == [i \in Issue |-> IF i = 2 THEN 1 ELSE 0]
=============================================================================
