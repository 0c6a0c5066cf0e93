-------------------------------- MODULE MCMain --------------------------------
(***************************************************************************)
(* Instance of Main for TLC: three files to print, one of them with a long *)
(* name, and one file that is none; three presses of the button.           *)
(***************************************************************************)
EXTENDS Main

Folder  == <<"a.gcode", "notes.txt", "long.gcode", "z.gco">>
Gcodes  == {"a.gcode", "long.gcode", "z.gco"}
LongOne == {"long.gcode"}
Presses == {"p", "q", "r"}

=============================================================================
