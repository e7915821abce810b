---------------------------- MODULE MCScheduler ----------------------------
(* Two CPUs, the root thread and two more user threads. *)
EXTENDS Scheduler, TLC

CONSTANTS r, t1, t2, i0, i1

MC_Threads == {r, t1, t2}
MC_Idle == (0 :> i0) @@ (1 :> i1)
MC_CPUs == 0 .. 1
MC_NO_AFF == -1

\* Affinities a well-behaved program passes: none, or a valid CPU.
MC_AffValid == {-1, 0, 1}
\* Affinities any program may pass: one past the last CPU, and a negative
\* value other than NO_AFF.
MC_AffAny == {-2, -1, 0, 1, 2}

Sym == Permutations({t1, t2})
=============================================================================
