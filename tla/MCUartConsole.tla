--------------------------- MODULE MCUartConsole ---------------------------
(* Small instances of UartConsole for TLC.                                *)
EXTENDS UartConsole

(* Line editing and the console task, without history keys.              *)
EditKeys == {"a", "b", "LF", "CR", "BS", "^A", "^E", "^K", "^L"}

(* History browsing with Ctrl-P / Ctrl-N, one data byte, and lines       *)
(* completed with CR, LF or CR LF.                                        *)
HistDispatchKeys == {"a", "CR", "LF", "^P", "^N"}

(* History browsing alone, for the history-space run.                    *)
HistKeys == {"a", "LF", "^P", "^N"}

(* Typing ahead: one data byte and Enter.                               *)
TypeAheadKeys == {"a", "LF"}

(* Escape sequences for arrows, Home, End and Delete.                    *)
EscKeys == {"a", "ESC", "[", "O", "1", "3", "~", "C", "D", "F"}
(* The command table: names of two or three letters, as console.c's      *)
(* commands share first letters (codeset, comxtest, ctrlram; pmu,         *)
(* powermock): "a" is ambiguous, "aa" and "b" are unique prefixes.       *)
ConsoleCommands == << <<"a", "b">>, <<"a", "a", "b">>, <<"b", "a">> >>

(* input_buf contents: up to four bytes of letters of both cases, blanks  *)
(* and '#', with or without the newline uart_gets stops after.           *)
DispatchSamples ==
  LET body == BoundedSeq({"a", "B", " ", "#"}, 4)
  IN body \cup {l \o <<"LF">> : l \in {b \in body : Len(b) < 4}}

=============================================================================
