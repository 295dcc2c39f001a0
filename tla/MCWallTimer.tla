---------------------------- MODULE MCWallTimer ----------------------------
(* Registers that the kernel changes in handlers and in context switches, and *)
(* the instructions that not every CPU has.                                   *)
EXTENDS WallTimer

MCLive     == {"TS", "CR3", "DR7"}
MCSteps    == {-1, 2}
MCFaulting == {"RDTSCP", "RDMSR", "RDPMC", "WRMSR"}
=============================================================================
