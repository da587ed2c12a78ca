---------------------------- MODULE MCLineEditor ----------------------------
(***************************************************************************)
(* Lines of at most 3 characters, a history of 2 commands cut down to 1    *)
(* (2 in MCLineLost), and commands that complete at once, in part, or not. *)
(* Rows of 2 cells, and prompts that end in the middle or at the end of a  *)
(* row, so that every longer line goes on in the next one.                 *)
(***************************************************************************)
EXTENDS LineEditor

MCChar == {"l", " "}
MCCommands == <<<<"l", "l">>, <<"l">>>>
=============================================================================
