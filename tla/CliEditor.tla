------------------------------ MODULE CliEditor ------------------------------
(***************************************************************************)
(* The line editor of the shell (applications/services/cli/cli.c) and the  *)
(* row of the terminal on which it is shown.  The editor never reads the   *)
(* terminal back: it prints the change it has made to its line.            *)
(*                                                                         *)
(* A terminal wide enough for the line is assumed, and one that knows the  *)
(* escape sequences for moving, for deleting and for inserting.            *)
(***************************************************************************)
EXTENDS Naturals, FiniteSetsExt, SequencesExt

CONSTANTS
  Characters,  \* what is printable, the blank included
  Blank,
  LineLimit,   \* CLI_INPUT_LEN_LIMIT
  Commands,    \* the names in the command tree
  Stale        \* the row does not show the line

ASSUME EditorAssumption ==
  /\ Blank \in Characters /\ LineLimit \in Nat
  /\ Commands \subseteq Seq(Characters \ {Blank}) \ {<< >>}
  /\ \A name \in Commands : Len(name) =< LineLimit

VARIABLES
  editor,  \* line, last_line and cursor_position of the Cli
  row      \* what the row shows after the prompt, and where its cursor is

editorVars == <<editor, row>>

EditorInit ==
  /\ editor = [line |-> << >>, last |-> << >>, cursor |-> 0]
  /\ row = Stale

(* cli_prompt: the line on a new row, with the cursor behind it. *)
Prompted(e) == IF e.cursor = Len(e.line) THEN [text |-> e.line, cursor |-> e.cursor] ELSE Stale

(* The row after a change, unless it showed something else before. *)
Shows(r) == row' = IF row = Stale THEN Stale ELSE r

(* cli_reset *)
Reset(e) == [line |-> << >>, last |-> e.line, cursor |-> 0]

(* cli_normalize_line: no blanks before and behind. *)
Normalized(e) ==
  LET written == {i \in DOMAIN e.line : e.line[i] # Blank}
      line == IF written = {} THEN << >> ELSE SubSeq(e.line, Min(written), Max(written))
  IN  [e EXCEPT !.line = line, !.cursor = Len(line)]

(* A printable character goes to the end, or in between. *)
TypeCharacter(c) ==
  /\ Len(editor.line) < LineLimit
  /\ editor' = [editor EXCEPT !.line = InsertAt(@, editor.cursor + 1, c), !.cursor = @ + 1]
  /\ Shows([text |-> InsertAt(row.text, row.cursor + 1, c), cursor |-> row.cursor + 1])

(* cli_handle_backspace *)
Backspace ==
  /\ editor.cursor > 0
  /\ editor' = [editor EXCEPT !.line = RemoveAt(@, editor.cursor), !.cursor = @ - 1]
  /\ Shows([text |-> RemoveAt(row.text, row.cursor), cursor |-> row.cursor - 1])

(* cli_handle_enter; the command runs in between, and writes what it likes *)
(* above the prompt.  An empty line stays the line.                        *)
Enter ==
  LET e == Normalized(editor)
      f == IF e.line = << >> THEN e ELSE Reset(e)
  IN  editor' = f /\ row' = Prompted(f)

(* cli_handle_autocomplete: what all names that begin with the line have   *)
(* in common.  Of blanks only the line is cleared, and nothing is shown.   *)
Autocomplete ==
  LET e == Normalized(editor)
      names == {name \in Commands : IsPrefix(e.line, name)}
      common == IF names = {} THEN << >> ELSE LongestCommonPrefix(names)
      f == IF Len(common) > Len(e.line) THEN [e EXCEPT !.line = common, !.cursor = Len(common)] ELSE e
  IN  IF e.line = << >>
      THEN editor' = e /\ row' = (IF e = editor THEN row ELSE Stale)
      ELSE editor' = f /\ row' = Prompted(f)

(* Mutant: the cursor stays where it was. *)
LineBeforeStays ==
  /\ editor.line = << >> /\ editor.last # << >>
  /\ editor' = [editor EXCEPT !.line = editor.last]
  /\ Shows([text |-> row.text \o editor.last, cursor |-> row.cursor + Len(editor.last)])

(* cli_handle_escape: up shows the line before, if this one is empty. *)
LineBefore ==
  /\ editor.line = << >> /\ editor.last # << >>
  /\ editor' = [editor EXCEPT !.line = editor.last, !.cursor = Len(editor.last)]
  /\ Shows([text |-> row.text \o editor.last, cursor |-> row.cursor + Len(editor.last)])

CursorRight ==
  /\ editor.cursor < Len(editor.line)
  /\ editor' = [editor EXCEPT !.cursor = @ + 1]
  /\ Shows([row EXCEPT !.cursor = @ + 1])

CursorLeft ==
  /\ editor.cursor > 0
  /\ editor' = [editor EXCEPT !.cursor = @ - 1]
  /\ Shows([row EXCEPT !.cursor = @ - 1])

(* SOH, with which a session begins: the line is shown again, but not the  *)
(* place of the cursor in it.                                              *)
SessionBegins == row' = Prompted(editor) /\ UNCHANGED editor

(* ETX: the line is given up. *)
Interrupt == editor' = Reset(editor) /\ row' = Prompted(editor')

(* EOT, with which a session ends, or which is typed: the row stays. *)
SessionEnds == editor' = Reset(editor) /\ row' = IF editor.line = << >> THEN row ELSE Stale

EditorNext ==
  \/ \E c \in Characters : TypeCharacter(c)
  \/ Backspace \/ Enter \/ Autocomplete
  \/ LineBefore \/ CursorRight \/ CursorLeft
  \/ SessionBegins \/ Interrupt \/ SessionEnds

EditorSpec == EditorInit /\ [][EditorNext]_editorVars

-----------------------------------------------------------------------------
EditorTypeOK ==
  /\ editor \in [line : Seq(Characters), last : Seq(Characters), cursor : Nat]
  /\ Len(editor.line) =< LineLimit /\ Len(editor.last) =< LineLimit
  /\ editor.cursor =< Len(editor.line)

(* The user edits what they see: through any sequence of keys the row and  *)
(* its cursor are those of the line, although every key prints only what   *)
(* it changes (cli_process_input).  Three things leave another picture     *)
(* until the next prompt: SOH while the cursor is inside the line, EOT,    *)
(* and Tab on a line of blanks.                                            *)
ShownIsEdited ==
  row # Stale => row = [text |-> editor.line, cursor |-> editor.cursor]
=============================================================================
