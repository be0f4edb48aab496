--------------------------- MODULE MCKeyboardLine ---------------------------
(***************************************************************************)
(* KeyboardLine on a small buffer.  The echo is left to Console.           *)
(***************************************************************************)
EXTENDS KeyboardLine

MCConsole == {"echoed"}
MCEcho(con_, c) == "echoed"
=============================================================================
