--------------------------- MODULE MCKeyboardScan ---------------------------
(* A two-row, three-column corner of the matrix for TLC.                             *)
EXTENDS KeyboardScan

(* actual_key_masks[0]: every row of every column is a key.               *)
AllKeys == [c \in Cols |-> Rows]
=============================================================================
