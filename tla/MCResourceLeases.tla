--------------------------- MODULE MCResourceLeases ---------------------------
EXTENDS ResourceLeases, TLC

CONSTANTS i1, i2, j1, h1, h2, e1, t1, t2

\* Both issues are of one epic; a host has room for one agent.
OneEpic == [i \in Issues |-> e1]
OneEach == [h \in Hosts |-> 1]

\* Bound: the runner of jobs works while one issue has a history. Without one,
\* another issue's launch looks at the list of leases and frees those of the
\* dead, in every state of the first and of its rebase; and without a rebase
\* either, the other issue has a history too, short of a worktree. Two issues
\* meet in the list of leases only.
Started(i) == record[i] # NewRecord \/ cmd[i] # None

Looks(i) == record[i] = NewRecord /\ lease[i] = None

Early(i) == record[i].stage \in {"", "starting"} /\ ~tree[i]

Bound ==
  \/ Cardinality({i \in Issues : Started(i)}) <= 1
  \/ /\ \A j \in Jobs : job[j] = NoJob
     /\ \/ \E i \in Issues : Looks(i)
        \/ /\ \A i \in Issues : rebase[i] = NoRebase
           /\ \E i \in Issues : Early(i)

Symmetry == Permutations(Issues) \cup Permutations(Hosts) \cup Permutations(Tokens)

=============================================================================
