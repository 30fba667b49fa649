--------------------------- MODULE MCTestProgram ---------------------------
(* The instance of the test program for TLC: each self test in the table,   *)
(* and files from an empty one to the five seconds the file's name promises.*)
EXTENDS TestProgram
=============================================================================
