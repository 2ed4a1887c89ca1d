----------------------------- MODULE MCSysProxy -----------------------------
(* Sysopt on one platform per configuration; every domain is finite, so no *)
(* bound is needed.                                                        *)
EXTENDS SysProxy
=============================================================================
