-------------------------------- MODULE MCCli --------------------------------
(***************************************************************************)
(* Small sessions: a diagnostic command, or two benchmarks into one file.  *)
(***************************************************************************)
EXTENDS Cli

Both == <<"cold", "warm">>
=============================================================================
