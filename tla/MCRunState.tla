----------------------------- MODULE MCRunState -----------------------------
(* Small instances of RunState for TLC.                                    *)
EXTENDS RunState

CONSTANTS op1, op2, startup, r1, r2

OpTasks == {op1, op2}
StartupTask == {startup}
ReaderTasks == {r1, r2}
OneReader == {r1}
NoTasks == {}
Actions == {"Install", "Uninstall"}
=============================================================================
