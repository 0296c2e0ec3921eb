--------------------------- MODULE MCCommandLine ---------------------------
(* Every command line of up to four words: long enough for an option that  *)
(* is the value of another, a repeated one, and a file among them.         *)
EXTENDS CommandLine

MCOtherWords == {"song.mp3", Blank}
=============================================================================
