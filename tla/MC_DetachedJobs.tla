---------------------------- MODULE MC_DetachedJobs ----------------------------
(* Instances of DetachedJobs for TLC. *)
EXTENDS DetachedJobs

\* One job, and two calls of the same second and label.
Alone == <<"first">>
SameSecond == <<"suite", "suite">>

\* No name is part of another's path.
Distinct == {<<d, d>> : d \in Dirs}
=============================================================================
