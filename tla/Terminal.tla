------------------------------ MODULE Terminal ------------------------------
(***************************************************************************)
(* What a user of the terminals sees: the keyboard driver with its one     *)
(* line buffer (kernel/src/drivers/keyboard/keyboard.cpp), the screen and  *)
(* its cursor (drivers/screen/screen.cpp), the list of processes blocked   *)
(* in read_line and the switch between terminals (processes/scheduler.cpp),*)
(* and the system calls that print, clear, read and set the cursor.        *)
(*                                                                         *)
(* The cursor is counted in cells, the code's offset / 2.  A handler runs  *)
(* with interrupts off and is one step.  The shells run throughout, pids   *)
(* 1, 2, ... theirs (Scheduler has what happens without them); any other   *)
(* process stands for every program its terminal runs, one at a time.      *)
(***************************************************************************)
EXTENDS Lists

CONSTANTS
  Terminal,        \* 1..NUMBER_OF_TERMINALS
  Process,
  Shells,          \* the processes Ctrl+C does not kill
  shell_id,        \* the terminal of a process
  Key,             \* keys with a letter
  key_map,         \* the letter of a key
  key_map_shifted, \* and with Shift
  digit,           \* the letter in the shortcut of a terminal
  BuffSize,        \* KEYBOARD_BUFF_SIZE
  Rows, Cols,      \* MAX_ROWS, MAX_COLS
  Register,        \* 2^16, the cursor has two bytes in the VGA controller
  Texts            \* bound: what programs print, and stdout files hold

Symbol == {key_map[k] : k \in Key} \union {key_map_shifted[k] : k \in Key}
Cell == 0..(Register - 1)
Screen == 0..(Rows * Cols - 1)

ASSUME TerminalAssumption ==
  /\ Terminal \subseteq Nat /\ 1 \in Terminal
  /\ Shells \subseteq Process /\ shell_id \in [Process -> Terminal]
  /\ DOMAIN key_map = Key /\ DOMAIN key_map_shifted = Key
  /\ Rows \in Nat /\ Cols \in Nat \ {0} /\ BuffSize \in Nat \ {0}
  /\ BuffSize <= (Rows - 1) * Cols
  /\ Register \in Nat /\ (Rows + 1) * Cols <= Register
  /\ Texts \subseteq Seq({"char", "newline", "return"})

VARIABLES
  ctrl_on, shift_on,
  line,       \* keyboard_buffer up to keyboard_buff_pos
  readers,    \* blocked_on_keyboard_processes
  focused,    \* focused_terminal
  cursor,
  \* History, which no step of the code reads:
  delivered,  \* the process and the line of a delivery, if the step was one
  fresh,      \* how many letters were typed since the last Enter or Ctrl+C
  late,       \* a process of another terminal has read since the last switch
  disturbed   \* the screen was cleared or the cursor set within a line

keyboard == <<ctrl_on, shift_on>>
history == <<fresh, late>>
vars == <<ctrl_on, shift_on, line, readers, focused, cursor,
          delivered, fresh, late, disturbed>>

Nothing == <<>>

-----------------------------------------------------------------------------
(* screen.cpp *)

RowStart(o) == o - (o % Cols)

\* Mutant: the screen scrolls a cell too late.
AdvanceLate(o, c) ==
  LET at == IF o > Rows * Cols THEN o - Cols ELSE o
  IN  CASE c = "char"    -> at + 1
        [] c = "newline" -> at + Cols
        [] c = "return"  -> RowStart(at)

\* print_string, one character: the test for the end of the screen comes before
\* the character, whatever it is.
Advance(o, c) ==
  LET at == IF o >= Rows * Cols THEN o - Cols ELSE o
  IN  CASE c = "char"    -> at + 1
        [] c = "newline" -> at + Cols
        [] c = "return"  -> RowStart(at)

set_cursor(o) == o % Register
print_string(o, text) ==
  LET offset[i \in 0..Len(text)] == IF i = 0 THEN o ELSE Advance(offset[i - 1], text[i])
  IN  set_cursor(offset[Len(text)])

\* The subtraction wraps; of the result the register keeps two bytes.
print_backspace(o) == set_cursor(o + Register - 1)

NewLine == <<"newline", "return">>
CtrlC == <<"char", "char", "newline", "return">>

-----------------------------------------------------------------------------
(* keyboard.cpp: the line buffer *)

\* Mutant: abort_current_cmd leaves the buffer alone.
NotEmptied(l) == l

Emptied(l) == <<>>

Erased(l) == IF l = <<>> THEN l ELSE Front(l)

\* Mutant: the position is compared with the size a letter later.
WithLetterLate(l, c) == IF Len(l) = BuffSize THEN <<>> ELSE Append(l, c)

\* A full buffer starts again from its beginning.
WithLetter(l, c) == IF Len(l) + 1 = BuffSize THEN <<>> ELSE Append(l, c)

\* What process_key does with KEY_CODE_BACK_SPACE, the cursor being at o.
CursorErased(o) == IF line = <<>> THEN o ELSE print_backspace(o)

-----------------------------------------------------------------------------
(* scheduler.cpp: the readers *)

Of(t, p) == shell_id[p] = t
Those(t) == {p \in Process : Of(t, p)}

\* Mutant: the second loop walks the copy from its first node.
ReschedulingReversed(q, t) ==
  Reverse(Only(q, Those(t))) \o Only(q, Process \ Those(t))

\* Mutant: the processes are put back at the end.
ReschedulingLast(q, t) ==
  Only(q, Process \ Those(t)) \o Only(q, Those(t))

\* Those of the terminal come first; both parts keep their order.
reschedule_process(q, t) ==
  Only(q, Those(t)) \o Only(q, Process \ Those(t))

-----------------------------------------------------------------------------
\* Boot: shell 1 is the last that becomes ready, the screen holds the messages.
Init ==
  /\ ctrl_on = FALSE /\ shift_on = FALSE
  /\ line = <<>> /\ readers = <<>> /\ focused = 1
  /\ cursor \in {Cols, Rows * Cols}
  /\ delivered = Nothing
  /\ fresh = 0
  /\ late = FALSE /\ disturbed = FALSE

\* The history of the letters; BuffSize of them bound the count.
Types == fresh' = IF fresh < BuffSize THEN fresh + 1 ELSE fresh

LineEnds == fresh' = 0

\* The screen was cleared or the cursor moved back by something that is no key of
\* the line; only an empty line loses nothing.
Disturbs == disturbed' = (line # <<>>)

(* Keys.  A letter, Enter and Backspace count when they are released. *)

Ctrl == /\ ctrl_on' = ~ctrl_on /\ delivered' = Nothing
        /\ UNCHANGED <<shift_on, line, readers, focused, cursor, history, disturbed>>

Shift == /\ shift_on' = ~shift_on /\ delivered' = Nothing
         /\ UNCHANGED <<ctrl_on, line, readers, focused, cursor, history, disturbed>>

\* convert_scan_code takes a key for a shortcut.
Shortcut == ctrl_on /\ ~shift_on

Letter(k) ==
  /\ ~Shortcut
  /\ LET c == IF shift_on THEN key_map_shifted[k] ELSE key_map[k]
     IN  line' = WithLetter(line, c)
  /\ Types
  /\ cursor' = print_string(cursor, <<"char">>)
  /\ delivered' = Nothing
  /\ UNCHANGED <<keyboard, readers, focused, late, disturbed>>

Backspace ==
  /\ line' = Erased(line) /\ cursor' = CursorErased(cursor)
  /\ delivered' = Nothing
  /\ UNCHANGED <<keyboard, readers, focused, history, disturbed>>

\* wake_process_waiting_for_keyboard: the first reader, if it is of the terminal
\* in focus.  The line is given up in any case.
IsServed == readers # <<>> /\ Of(focused, Head(readers))

Enter ==
  /\ IF IsServed
     THEN /\ delivered' = <<Head(readers), line>>
          /\ readers' = Tail(readers)
     ELSE delivered' = Nothing /\ UNCHANGED readers
  /\ cursor' = print_string(cursor, NewLine)
  /\ line' = Emptied(line) /\ LineEnds
  /\ UNCHANGED <<keyboard, focused, late, disturbed>>

\* A shortcut's handler is followed by a backspace, "so the letter doesn't get
\* displayed"; nothing was displayed, so a letter of the line goes.
ShortcutErases(o) ==
  /\ line' = Erased(line) /\ cursor' = CursorErased(o)

CtrlL(k) ==
  /\ Shortcut /\ key_map[k] = "l"
  /\ ShortcutErases(set_cursor(0)) /\ Disturbs
  /\ delivered' = Nothing
  /\ UNCHANGED <<keyboard, readers, focused, history>>

\* abort_current_cmd: a program of the terminal dies, a shell or idle does not.
CtrlAbort(k) ==
  /\ Shortcut /\ key_map[k] = "c"
  /\ \/ UNCHANGED readers
     \/ \E p \in Process \ Shells :
          Of(focused, p) /\ readers' = Only(readers, Process \ {p})
  /\ cursor' = print_string(cursor, CtrlC)
  /\ line' = Emptied(line) /\ LineEnds
  /\ delivered' = Nothing
  /\ UNCHANGED <<keyboard, focused, late, disturbed>>

\* switch_to_terminal: the screen is cleared, the terminal's stdout file printed.
\* The line that was begun goes along to the other terminal.
switch_to_terminal(k, t, text) ==
  /\ Shortcut /\ key_map[k] = digit[t]
  /\ focused' = t
  /\ readers' = reschedule_process(readers, t)
  /\ ShortcutErases(print_string(0, text)) /\ Disturbs
  /\ late' = FALSE
  /\ delivered' = Nothing
  /\ UNCHANGED <<keyboard, fresh>>

CtrlOther(k) ==
  /\ Shortcut
  /\ key_map[k] \notin {"l", "c"} \union {digit[t] : t \in Terminal}
  /\ ShortcutErases(cursor)
  /\ delivered' = Nothing
  /\ UNCHANGED <<keyboard, readers, focused, history, disturbed>>

(* System calls of a process that is not blocked in read_line. *)

\* block_process_on_keyboard: a new reader goes first.
ReadLine(p) ==
  /\ p \notin Range(readers)
  /\ readers' = <<p>> \o readers
  /\ late' = (late \/ ~Of(focused, p))
  /\ delivered' = Nothing
  /\ UNCHANGED <<keyboard, line, focused, cursor, fresh, disturbed>>

\* ls, cat, ps and lp print on the screen, and not into the terminal's file,
\* whichever terminal is in focus.
Prints(p, text) ==
  /\ p \notin Range(readers)
  /\ cursor' = print_string(cursor, text)
  /\ disturbed' = (disturbed \/ ("return" \in Range(text) /\ line # <<>>))
  /\ delivered' = Nothing
  /\ UNCHANGED <<keyboard, line, readers, focused, history>>

\* Of a process in the background printf writes into the file only.
Printf(p, text) == Of(focused, p) /\ Prints(p, text)

\* sys_call_clear does not ask which terminal is in focus.
Clear(p) ==
  /\ p \notin Range(readers)
  /\ cursor' = set_cursor(0) /\ Disturbs
  /\ delivered' = Nothing
  /\ UNCHANGED <<keyboard, line, readers, focused, history>>

SetCursor(p, o) ==
  /\ p \notin Range(readers) /\ Of(focused, p)
  /\ o \in Screen   \* otherwise it returns 1
  /\ cursor' = set_cursor(o) /\ Disturbs
  /\ delivered' = Nothing
  /\ UNCHANGED <<keyboard, line, readers, focused, history>>

(* The mouse interrupts whatever runs, and a reader as well. *)

\* print_mouse_state, for the click that disables the mouse.
print_mouse_state ==
  /\ cursor' = print_string(cursor, <<"char", "newline", "return">>)
  /\ disturbed' = (disturbed \/ line # <<>>)
  /\ delivered' = Nothing
  /\ UNCHANGED <<keyboard, line, readers, focused, history>>

KeyStep ==
  \/ Ctrl \/ Shift \/ Backspace \/ Enter
  \/ \E k \in Key : Letter(k) \/ CtrlL(k) \/ CtrlAbort(k) \/ CtrlOther(k)
  \/ \E k \in Key, t \in Terminal, x \in Texts : switch_to_terminal(k, t, x)

CallStep ==
  \E p \in Process :
    \/ ReadLine(p) \/ Clear(p)
    \/ \E x \in Texts : Printf(p, x) \/ Prints(p, x)
    \/ \E o \in Screen : SetCursor(p, o)

Next == KeyStep \/ CallStep \/ print_mouse_state

Spec == Init /\ [][Next]_vars

-----------------------------------------------------------------------------
(* Properties *)

\* The type invariant; the buffer never holds KEYBOARD_BUFF_SIZE letters, the
\* terminator of the line has a place (keyboard.cpp:109).
TypeOK ==
  /\ ctrl_on \in BOOLEAN /\ shift_on \in BOOLEAN
  /\ line \in Seq(Symbol) /\ Len(line) < BuffSize
  /\ readers \in Seq(Process) /\ IsInjective(readers)
  /\ focused \in Terminal /\ cursor \in Cell
  /\ fresh \in 0..BuffSize
  /\ late \in BOOLEAN /\ disturbed \in BOOLEAN

\* The cursor stays within video memory or on the row below it, which the next
\* character scrolls into view, and has the line in front of it, so that no
\* backspace takes it before the first cell: unless the screen was cleared or
\* the cursor set while a line was being typed, when a backspace, also the one of
\* the shortcut itself, takes it to the cell before (screen.cpp:134-138).
CursorOnScreen ==
  ~disturbed => cursor \in Len(line)..((Rows + 1) * Cols - 1)

\* Enter asks only the first reader (scheduler.cpp:120-126).  That one is of the
\* terminal in focus whenever a reader is, unless a process of another terminal
\* has called read_line since the last switch: then the line would be lost.
FocusedReadersFirst ==
  ~late => \A i, j \in DOMAIN readers :
             Of(focused, readers[i]) /\ ~Of(focused, readers[j]) => i < j

\* Of two processes of a terminal that both wait for a line, the one that asked
\* last stays before the other, whatever other terminals, switches and deaths do
\* to the list (reschedule_process, scheduler.cpp:150-169).
TerminalOrderKept ==
  [][\A i, j \in DOMAIN readers :
       i < j /\ shell_id[readers[i]] = shell_id[readers[j]] =>
         \A k, m \in DOMAIN readers' :
           readers'[k] = readers[i] /\ readers'[m] = readers[j] => k < m]_vars

\* What is read was typed after the last Enter and the last Ctrl+C, on whichever
\* terminal: also a line that nobody was there to read, or that Ctrl+C gave up, is
\* gone and does not turn up in a later one, so that a reader never gets more
\* letters than have been typed since (keyboard.cpp:22, 104-116).
NothingOldIsRead ==
  [][delivered' # Nothing => Len(delivered'[2]) <= fresh]_vars
=============================================================================
