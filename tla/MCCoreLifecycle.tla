-------------------------- MODULE MCCoreLifecycle ---------------------------
(* CoreManager on one platform with a few operations; callers are          *)
(* interchangeable, and so are sidecar processes.                           *)
EXTENDS CoreLifecycle, TLC

ActorSymmetry == Permutations(Tasks) \cup Permutations(Pids)
=============================================================================
