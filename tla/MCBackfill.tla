------------------------------- MODULE MCBackfill -------------------------------
(* Instances of Backfill for TLC. *)
EXTENDS Backfill, TLC

CONSTANTS j1, j2

Dep(u, d, t) == [up |-> u, down |-> d, type |-> t]
Make(n, f, deps) == [steps |-> 1..n, job |-> [k \in 1..n |-> IF k \in f THEN j2 ELSE j1], deps |-> deps]

\* A diamond that branches on the result of its root and joins whatever happened.
Branching == Make(4, {3}, {Dep(1, 2, "success"), Dep(1, 3, "failed"),
                           Dep(2, 4, "success"), Dep(3, 4, "always")})
\* A chain, listed against its order, with a step that runs on any result.
Chain == Make(3, {1}, {Dep(3, 2, "success"), Dep(2, 1, "finished")})
Fork == Make(3, {3}, {Dep(1, 2, "success"), Dep(1, 3, "failed")})
\* A step alone, whose run succeeds or fails, and a pair, whose run may end in part.
Single == Make(1, {}, {})
Pair == Make(2, {2}, {Dep(1, 2, "success")})

Graphs == {Branching, Chain, Fork, Single}
Pairs == {Single, Pair}
=============================================================================
