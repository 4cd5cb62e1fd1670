----------------------------- MODULE MCCommands -----------------------------
EXTENDS Commands

\* A release and the next one, and a build in which the later migrations were edited.
SomeVersions == 1 .. 3
SomeBuilds ==
  {[v \in 1 .. 2 |-> "a"], [v \in SomeVersions |-> "a"],
   [v \in SomeVersions |-> IF v = 1 THEN "a" ELSE "b"]}
=============================================================================
