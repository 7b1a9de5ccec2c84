---------------------------- MODULE MCOllamaStream ----------------------------
(***************************************************************************)
(* Streams of up to MaxLines lines of every kind.                          *)
(***************************************************************************)
EXTENDS OllamaStream

\* An empty line, a hidden chunk, a shown one and the final one.
FourLines == 4
=============================================================================
