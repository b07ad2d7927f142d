------------------------------ MODULE InputLine ------------------------------
(***************************************************************************)
(* console: the line editor behind input_line.  The line scrolls in a      *)
(* field of Width characters: strPos is the first character shown,         *)
(* cursorPos the cursor in the field.  Beside it runs the editor a user    *)
(* has in mind, a text before and a text after the cursor, without a field.*)
(***************************************************************************)
EXTENDS Naturals, Sequences, SequencesExt

CONSTANTS
    Chars,          \* printable characters
    FieldWidth,     \* max_size_
    MaxText,        \* bound: characters in the line
    MaxHistory,     \* bound: lines in the history
    MaxKeys         \* bound: keys pressed

ASSUME FieldAssumption == FieldWidth \in Nat \ {0}

VARIABLES
    str, strPos, cursorPos, insertMode,
    history, historyPos, \* 0: not browsing
    tempStr,
    mind,           \* <<before, after>>
    keys            \* keys pressed

lineVars == <<str, strPos, cursorPos, insertMode, history, historyPos, tempStr, mind, keys>>
historyVars == <<history, historyPos, tempStr>>

\* input_handler of an input_line, which gives it no text.
LineInit ==
    /\ str = <<>> /\ strPos = 0 /\ cursorPos = 0 /\ insertMode = TRUE
    /\ history = <<>> /\ historyPos = 0 /\ tempStr = <<>> /\ mind = <<<<>>, <<>>>> /\ keys = 0

Cursor == strPos + cursorPos
Pressed == keys < MaxKeys /\ keys' = keys + 1

\* The cursor goes behind the last character, and the end of the line is shown.
tail_position(s) ==
    /\ strPos' = (IF Len(s) >= FieldWidth THEN Len(s) - FieldWidth + 1 ELSE 0)
    /\ cursorPos' = (IF Len(s) >= FieldWidth THEN FieldWidth - 1 ELSE Len(s))

set_string(s) == str' = s /\ tail_position(s) /\ mind' = <<s, <<>>>>

process_char(c) ==
    /\ Pressed /\ (Len(str) < MaxText \/ (Cursor < Len(str) /\ ~insertMode))
    /\ str' = (IF Cursor >= Len(str) THEN Append(str, c)
               ELSE IF insertMode THEN InsertAt(str, Cursor + 1, c) ELSE ReplaceAt(str, Cursor + 1, c))
    /\ IF cursorPos + 1 >= FieldWidth THEN strPos' = strPos + 1 /\ cursorPos' = FieldWidth - 1
       ELSE cursorPos' = cursorPos + 1 /\ UNCHANGED strPos
    /\ mind' = <<Append(mind[1], c), IF insertMode \/ mind[2] = <<>> THEN mind[2] ELSE Tail(mind[2])>>
    /\ UNCHANGED <<insertMode, historyVars>>

backspace_Cursor ==
    /\ Pressed
    /\ IF cursorPos > 0 THEN /\ cursorPos' = cursorPos - 1 /\ UNCHANGED strPos
                             /\ str' = RemoveAt(str, strPos + cursorPos' + 1)
       ELSE IF strPos > 0 THEN /\ str' = RemoveAt(str, strPos) /\ UNCHANGED <<strPos, cursorPos>>
       ELSE UNCHANGED <<str, strPos, cursorPos>>
    /\ mind' = <<IF mind[1] = <<>> THEN <<>> ELSE Front(mind[1]), mind[2]>>
    /\ UNCHANGED <<insertMode, historyVars>>

\* At the left edge of the field the line scrolls instead.
backspace ==
    /\ Pressed
    /\ IF cursorPos > 0 THEN /\ cursorPos' = cursorPos - 1 /\ UNCHANGED strPos
                             /\ str' = RemoveAt(str, strPos + cursorPos' + 1)
       ELSE IF strPos > 0 THEN strPos' = strPos - 1 /\ str' = RemoveAt(str, strPos' + 1) /\ UNCHANGED cursorPos
       ELSE UNCHANGED <<str, strPos, cursorPos>>
    /\ mind' = <<IF mind[1] = <<>> THEN <<>> ELSE Front(mind[1]), mind[2]>>
    /\ UNCHANGED <<insertMode, historyVars>>

del ==
    /\ Pressed
    /\ str' = (IF Cursor < Len(str) THEN RemoveAt(str, Cursor + 1) ELSE str)
    /\ mind' = <<mind[1], IF mind[2] = <<>> THEN <<>> ELSE Tail(mind[2])>>
    /\ UNCHANGED <<strPos, cursorPos, insertMode, historyVars>>

left_arrow ==
    /\ Pressed
    /\ IF cursorPos > 0 THEN cursorPos' = cursorPos - 1 /\ UNCHANGED strPos
       ELSE strPos' = (IF strPos > 0 THEN strPos - 1 ELSE 0) /\ UNCHANGED cursorPos
    /\ mind' = (IF mind[1] = <<>> THEN mind ELSE <<Front(mind[1]), <<Last(mind[1])>> \o mind[2]>>)
    /\ UNCHANGED <<str, insertMode, historyVars>>

right_arrow ==
    /\ Pressed
    /\ IF Cursor >= Len(str) THEN UNCHANGED <<strPos, cursorPos>>
       ELSE IF cursorPos + 1 < FieldWidth THEN cursorPos' = cursorPos + 1 /\ UNCHANGED strPos
       ELSE strPos' = strPos + 1 /\ UNCHANGED cursorPos
    /\ mind' = (IF mind[2] = <<>> THEN mind ELSE <<Append(mind[1], Head(mind[2])), Tail(mind[2])>>)
    /\ UNCHANGED <<str, insertMode, historyVars>>

up_arrow ==
    /\ Pressed
    /\ \/ /\ historyPos > 1 /\ historyPos' = historyPos - 1 /\ set_string(history[historyPos'])
          /\ UNCHANGED tempStr
       \/ /\ historyPos = 0 /\ history # <<>> /\ tempStr' = str /\ historyPos' = Len(history)
          /\ set_string(history[historyPos'])
    /\ UNCHANGED <<insertMode, history>>

down_arrow ==
    /\ Pressed /\ historyPos # 0
    /\ \/ /\ historyPos = Len(history) /\ historyPos' = 0 /\ set_string(tempStr) /\ tempStr' = <<>>
       \/ /\ historyPos < Len(history) /\ historyPos' = historyPos + 1
          /\ set_string(history[historyPos']) /\ UNCHANGED tempStr
    /\ UNCHANGED <<insertMode, history>>

home ==
    /\ Pressed /\ strPos' = 0 /\ cursorPos' = 0 /\ mind' = <<<<>>, mind[1] \o mind[2]>>
    /\ UNCHANGED <<str, insertMode, historyVars>>

end ==
    /\ Pressed /\ tail_position(str) /\ mind' = <<mind[1] \o mind[2], <<>>>>
    /\ UNCHANGED <<str, insertMode, historyVars>>

insert == Pressed /\ insertMode' = ~insertMode /\ UNCHANGED <<str, strPos, cursorPos, historyVars, mind>>

\* input_line::key_event of the enter key: commit, which does not end the browsing.
commit ==
    /\ Pressed /\ Len(history) < MaxHistory
    /\ history' = Append(history, str)
    /\ str' = <<>> /\ tempStr' = <<>> /\ strPos' = 0 /\ cursorPos' = 0 /\ mind' = <<<<>>, <<>>>>
    /\ UNCHANGED <<insertMode, historyPos>>

LineNext ==
    \/ \E c \in Chars : process_char(c)
    \/ backspace \/ del \/ left_arrow \/ right_arrow \/ up_arrow \/ down_arrow
    \/ home \/ end \/ insert \/ commit

-----------------------------------------------------------------------------
\* However the field scrolls, the line is the one a user has in mind and the cursor is where it
\* is in it, inside the text (the assertion at input_handler.cpp:143) and inside the field; and
\* browsing stays within the history.
EditsAsMeant ==
    /\ str = mind[1] \o mind[2] /\ Cursor = Len(mind[1]) /\ cursorPos < FieldWidth
    /\ historyPos <= Len(history)
=============================================================================
