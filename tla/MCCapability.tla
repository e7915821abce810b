---------------------------- MODULE MCCapability ----------------------------
EXTENDS Capability, TLC

CONSTANTS p0, p1, p2, t0, t1, t2, pmo

MC_Procs == {p0, p1, p2}
MC_Thrs == {t0, t1, t2}
MC_NoFail == {}
MC_FailObjAlloc == {"obj_alloc"}
MC_FailCapAlloc == {"cap_alloc"}
====
