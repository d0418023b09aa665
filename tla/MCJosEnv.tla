------------------------------- MODULE MCJosEnv -------------------------------
(***************************************************************************)
(* Instances of JosEnv for TLC: what i386_init starts after the idle       *)
(* environments, a test program alone or with the two servers.             *)
(***************************************************************************)
EXTENDS JosEnv, TLC

MCBoot1 == <<"USER">>
MCBoot3 == <<"FS", "NS", "USER">>

===============================================================================
