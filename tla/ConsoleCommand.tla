--------------------------- MODULE ConsoleCommand ---------------------------
(***************************************************************************)
(* What the console task does with a line once uart_gets has copied it    *)
(* into input_buf: handle_command of src/common/console.c splits it into  *)
(* words (split_words), looks the first word up in the command table      *)
(* (find_command) and calls that command's handler, together with the     *)
(* string helpers of src/common/util.c they use.                           *)
(*                                                                         *)
(* A line is a sequence of the model's byte names ("a", "B", " ", "#",    *)
(* "LF", ...); its end is the '\0' uart_gets writes after it.  The         *)
(* command table, which the linker gathers from DECLARE_CONSOLE_COMMAND    *)
(* between __cmds and __cmds_end, is a sequence of names in that order.   *)
(* Which handler runs is the result; what the handler does is not         *)
(* modelled.                                                               *)
(***************************************************************************)
EXTENDS Integers, Sequences, FiniteSets

CONSTANT
  CommandTable    \* the names of the console commands, in __cmds order

NoCommand == << >>    \* find_command's NULL (no name is empty); nothing runs

MAX_ARGS_PER_COMMAND == 10

(* util.c's isspace and tolower on the model's bytes; the upper-case      *)
(* letters of the model are mapped to their lower-case names.             *)
isspace(c) == c \in {" ", "TAB", "CR", "LF"}

LowerOf == [c \in {"A", "B", "C", "D", "F", "O"} |->
              CASE c = "A" -> "a" [] c = "B" -> "b" [] c = "C" -> "c"
                [] c = "D" -> "d" [] c = "F" -> "f" [] c = "O" -> "o"]

tolower(c) == IF c \in DOMAIN LowerOf THEN LowerOf[c] ELSE c

(* The byte at 1-based index i of a string, '\0' past its end.           *)
At(s, i) == IF i <= Len(s) THEN s[i] ELSE "NUL"

(* strncasecmp(s1, s2, size) = 0: the first size bytes agree but for     *)
(* case, where the comparison stops after the first '\0' of either       *)
(* string.  Callers only test the result against 0, so its sign is left  *)
(* out: the operator is TRUE when strncasecmp returns 0.                 *)
strncasecmp_eq(s1, s2, size) ==
  \A i \in 1 .. size :
    (\A j \in 1 .. i - 1 : At(s1, j) # "NUL" /\ At(s2, j) # "NUL")
      => tolower(At(s1, i)) = tolower(At(s2, i))

(* split_words: a word starts at a byte that is neither whitespace nor   *)
(* '#' and is counted when whitespace ends it (the byte is overwritten   *)
(* by '\0'); '#' ends the scan, as does a word beyond max_argc, which     *)
(* returns EC_ERROR_OVERFLOW.  st[i] is the scan after i bytes: argc, the *)
(* words started so far (argv, as their text), in_word and whether the   *)
(* scan has stopped.                                                       *)
split_words(input, max_argc) ==
  LET n == Len(input)
      st[i \in 0 .. n] ==
        IF i = 0 THEN [argc |-> 0, argv |-> << >>, in_word |-> FALSE,
                       stop |-> FALSE, rv |-> "EC_SUCCESS"]
        ELSE LET p == st[i - 1]
                 c == input[i]
             IN CASE p.stop \/ c = "NUL" -> [p EXCEPT !.stop = TRUE]
                  [] isspace(c) ->
                       IF p.in_word THEN [p EXCEPT !.argc = @ + 1, !.in_word = FALSE]
                       ELSE p
                  [] c = "#" -> [p EXCEPT !.stop = TRUE]
                  [] ~p.in_word /\ p.argc >= max_argc ->
                       [p EXCEPT !.stop = TRUE, !.rv = "EC_ERROR_OVERFLOW"]
                  [] ~p.in_word -> [p EXCEPT !.argv = Append(@, <<c>>), !.in_word = TRUE]
                  [] OTHER -> [p EXCEPT !.argv[Len(p.argv)] = Append(@, c)]
  IN [rv |-> st[n].rv, argc |-> st[n].argc, argv |-> SubSeq(st[n].argv, 1, st[n].argc)]

(* Slip: the loop keeps the first match instead of giving up on a second. *)
find_commandFirstMatch(name) ==
  LET hits == {k \in 1 .. Len(CommandTable) :
                 strncasecmp_eq(name, CommandTable[k], Len(name))}
  IN IF hits = {} THEN NoCommand
     ELSE CommandTable[CHOOSE k \in hits : \A j \in hits : k <= j]

(* find_command: scan the table for names that name is a prefix of, up   *)
(* to strlen(name) bytes and whatever the case; a second match returns   *)
(* NULL (ambiguous), as does none.                                        *)
find_command(name) ==
  LET hits == {k \in 1 .. Len(CommandTable) :
                 strncasecmp_eq(name, CommandTable[k], Len(name))}
  IN IF Cardinality(hits) = 1 THEN CommandTable[CHOOSE k \in hits : TRUE]
     ELSE NoCommand

(* handle_command: the command whose handler runs for the line, or       *)
(* NoCommand when the line has no counted word or find_command fails.    *)
handle_command(input) ==
  LET w == split_words(input, MAX_ARGS_PER_COMMAND)
  IN IF w.argc = 0 THEN NoCommand ELSE find_command(w.argv[1])

-----------------------------------------------------------------------------
(* What console.c's comment and the spec (section 6) say the dispatch    *)
(* does: the first whitespace-separated word before a '#' names the      *)
(* command, by a prefix of its name that no other name shares, whatever  *)
(* the case.                                                               *)
CommentFree(l) ==
  LET h == {i \in 1 .. Len(l) : l[i] \in {"#", "NUL"}}
  IN IF h = {} THEN l ELSE SubSeq(l, 1, (CHOOSE i \in h : \A j \in h : i <= j) - 1)

FirstWord(l) ==
  LET t == CommentFree(l)
      starts == {i \in 1 .. Len(t) : ~isspace(t[i]) /\ (i = 1 \/ isspace(t[i - 1]))}
      b == CHOOSE i \in starts : \A j \in starts : i <= j
      ends == {i \in b .. Len(t) : isspace(t[i])}
  IN IF starts = {} THEN << >>
     ELSE IF ends = {} THEN SubSeq(t, b, Len(t))
     ELSE SubSeq(t, b, (CHOOSE i \in ends : \A j \in ends : i <= j) - 1)

(* The commands word names: its lower-case form is a prefix of the name. *)
Named(word) ==
  {c \in {CommandTable[k] : k \in 1 .. Len(CommandTable)} :
     /\ Len(word) <= Len(c)
     /\ \A i \in 1 .. Len(word) : tolower(word[i]) = tolower(c[i])}

(* A command handle_command runs for line l is the one the line's first  *)
(* word names, and the word names no other: a prefix shared by two       *)
(* commands, or a word that is not a prefix, runs nothing.               *)
DispatchSound(l) ==
  handle_command(l) # NoCommand => Named(FirstWord(l)) = {handle_command(l)}

=============================================================================
