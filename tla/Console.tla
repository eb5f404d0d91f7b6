------------------------------ MODULE Console ------------------------------
(***************************************************************************)
(* Keyboard interrupt (keyboard.c), text screen (framebuffer.c) and the    *)
(* shell's input loop (main in user-shell.c).                              *)
(*                                                                         *)
(* The interrupt may come between any two system calls of the shell; it    *)
(* puts the key into a buffer of one character and echoes it at the cursor *)
(* of the VGA registers.  The shell polls the buffer and collects a line,  *)
(* and prints at a cursor of its own, kept in memory.                      *)
(*                                                                         *)
(* A position is row * COLS + col, as in the registers.  Video memory goes *)
(* on below the rows the screen shows.                                     *)
(***************************************************************************)
EXTENDS Integers, Sequences, SequencesExt

CONSTANTS COLS, ROWS,            \* 80, 25
          VideoRows,             \* bound: rows of video memory modelled
          KEYBOARD_BUFFER_SIZE,  \* 256; bound on the length of a line
          Letters, Signs,        \* keys with and without a capital
          Prompt, Outputs,       \* what the shell prints: the parts of the
                                 \* prompt, the strings commands put
          ClockWidth,            \* cells the clock draws, at the screen's end
          MaxHasty               \* bound on keys pressed while the shell is busy

ASSUME SizeAssumption ==
  /\ COLS \in Nat \ {0} /\ ROWS \in Nat /\ ROWS > 2
  /\ VideoRows \in Nat /\ VideoRows > ROWS
  /\ ClockWidth \in 0 .. COLS
  /\ KEYBOARD_BUFFER_SIZE \in Nat \ {0} /\ MaxHasty \in Nat

VARIABLES screen,             \* video memory: a character at each position
          cursor,             \* framebuffer.c's cursor
          vga,                \* the cursor in the VGA registers
          keyboard_state,     \* keyboard_input_on, keyboard_buffer
          isShift, isCapsLock,
          line,               \* buf[0 .. i-1] of the shell
          keyboard_input,     \* the character the shell got
          calls,              \* system calls the shell makes before it goes on
          pc,                 \* where the shell is
          calm,               \* history: every key of this line was pressed
                              \* while the shell waited for it
          fresh,              \* history: the buffered key was not handed over
          hasty               \* history: keys pressed while it did not

vars == <<screen, cursor, vga, keyboard_state, isShift, isCapsLock, line,
          keyboard_input, calls, pc, calm, fresh, hasty>>
display == <<screen, cursor, vga>>
keyboard == <<keyboard_state, isShift, isCapsLock>>
shell == <<line, keyboard_input, calls, pc>>

\* A character is the key that makes it, and whether it is the shifted one.
Plain(key) == <<key, FALSE>>
Null == Plain("nul")
Newline == Plain("enter")
Backspace == Plain("backspace")
Time == Plain("time")

Keys == Letters \cup Signs
Modifiers == {"capslock", "shift", "shift_release"}
\* "silent": arrows and all keys the maps have no character for
Scancodes == Keys \cup Modifiers \cup {"backspace", "enter", "silent", "release"}

\* The keys' names are their own.
ASSUME KeysAssumption ==
  Keys \cap (Modifiers \cup {"backspace", "enter", "silent", "release", "nul", "time"}) = {}

\* What is printed is strings, and there is a prompt.
Printed == UNION {ToSet(str) : str \in Outputs \cup ToSet(Prompt)}
ASSUME PrintedAssumption ==
  /\ Prompt \in Seq(Seq(Printed)) /\ Prompt # <<>>
  /\ Outputs \subseteq Seq(Printed)

keyboard_scancode_1_to_ascii_map == [k \in Keys |-> <<k, FALSE>>]
keyboard_scancode_shift_to_ascii_map == [k \in Keys |-> <<k, TRUE>>]
keyboard_scancode_capslock_to_ascii_map == [k \in Keys |-> <<k, k \in Letters>>]
keyboard_scancode_shift_capslock_to_ascii_map == [k \in Keys |-> <<k, k \notin Letters>>]

VideoCells == 0 .. VideoRows * COLS - 1
ScreenCells == 0 .. ROWS * COLS - 1
ClockCells == ROWS * COLS - ClockWidth .. ROWS * COLS - 1

-----------------------------------------------------------------------------
(* The screen: display is a record while a string is put on it *)

Position(c) == c.row * COLS + c.col

Cleared(s) == [c \in VideoCells |-> IF c \in ScreenCells THEN Null ELSE s[c]]

\* Mutant: the screen is cleared one row too late.
NextRowLate(d) ==
  IF d.cursor.row + 1 = ROWS
  THEN [screen |-> Cleared(d.screen), cursor |-> [row |-> 0, col |-> 0]]
  ELSE [d EXCEPT !.cursor = [row |-> d.cursor.row + 1, col |-> 0]]

NextRow(d) ==
  IF d.cursor.row + 1 = ROWS - 1
  THEN [screen |-> Cleared(d.screen), cursor |-> [row |-> 0, col |-> 0]]
  ELSE [d EXCEPT !.cursor = [row |-> d.cursor.row + 1, col |-> 0]]

PutOne(d, ch) ==
  IF ch = Newline THEN NextRow(d)
  ELSE LET e == IF d.cursor.col = COLS THEN NextRow(d) ELSE d
       IN  [screen |-> [e.screen EXCEPT ![Position(e.cursor)] = ch],
            cursor |-> [e.cursor EXCEPT !.col = @ + 1]]

\* framebuffer_puts' loop over the string
PutAll(d, str) ==
  LET put[k \in 0 .. Len(str)] ==
        IF k = 0 THEN d ELSE PutOne(put[k - 1], str[k])
  IN  put[Len(str)]

puts(str) ==
  LET d == PutAll([screen |-> screen, cursor |-> cursor], str) IN
  /\ screen' = [d.screen EXCEPT ![Position(d.cursor)] = Null]
  /\ cursor' = d.cursor
  /\ vga' = Position(d.cursor)

framebuffer_clear ==
  /\ screen' = Cleared(screen)
  /\ cursor' = [row |-> 0, col |-> 0]
  /\ UNCHANGED vga

-----------------------------------------------------------------------------
(* Keyboard interrupt *)

Buffer(ch) == keyboard_state' = [keyboard_state EXCEPT !.keyboard_buffer = ch]

ToggleCapsLock ==
  /\ isCapsLock' = ~isCapsLock
  /\ UNCHANGED <<keyboard_state, isShift, screen, vga>>

TrackShift(held) ==
  /\ isShift' = held
  /\ UNCHANGED <<keyboard_state, isCapsLock, screen, vga>>

\* The key is echoed at the VGA cursor.
EraseKey ==
  /\ Buffer(Backspace)
  /\ vga' = IF vga > 0 THEN vga - 1 ELSE 0
  /\ screen' = [screen EXCEPT ![vga'] = Null]
  /\ UNCHANGED <<isShift, isCapsLock>>

EnterKey ==
  /\ Buffer(Newline)
  /\ vga' = (vga \div COLS + 1) * COLS
  /\ screen' = [screen EXCEPT ![vga'] = Null]
  /\ UNCHANGED <<isShift, isCapsLock>>

Ascii(key) ==
  CASE isShift /\ ~isCapsLock -> keyboard_scancode_shift_to_ascii_map[key]
    [] ~isShift /\ isCapsLock -> keyboard_scancode_capslock_to_ascii_map[key]
    [] isShift /\ isCapsLock  -> keyboard_scancode_shift_capslock_to_ascii_map[key]
    [] OTHER                  -> keyboard_scancode_1_to_ascii_map[key]

CharacterKey(key) ==
  /\ Buffer(Ascii(key))
  /\ vga' = vga + 1
  /\ screen' = [screen EXCEPT ![vga] = Ascii(key), ![vga + 1] = Null]
  /\ UNCHANGED <<isShift, isCapsLock>>

\* An arrow, or a key without a character (a shift key held down repeats as
\* one): what the buffer held is lost.
SilentKey ==
  /\ Buffer(Null)
  /\ UNCHANGED <<isShift, isCapsLock, screen, vga>>

InputKey(scancode) ==
  IF ~keyboard_state.keyboard_input_on \/ scancode \in {"release", "shift_release"}
  THEN UNCHANGED <<keyboard, screen, vga>>
  ELSE CASE scancode = "backspace"          -> EraseKey
         [] scancode = "enter"              -> EnterKey
         [] scancode \in Keys               -> CharacterKey(scancode)
         [] scancode \in {"silent", "shift"} -> SilentKey

keyboard_isr(scancode) ==
  /\ CASE scancode = "capslock" -> ToggleCapsLock
       [] scancode = "shift" /\ ~isShift -> TrackShift(TRUE)
       [] scancode = "shift_release" /\ isShift -> TrackShift(FALSE)
       [] OTHER -> InputKey(scancode)
  /\ UNCHANGED cursor

\* The shell has nothing else to do and has taken every key.
Waiting ==
  pc = "poll" /\ calls = <<>> /\ keyboard_state.keyboard_buffer = Null

KeyPress(scancode) ==
  /\ vga < (VideoRows - 1) * COLS
  /\ Len(line) + 2 < KEYBOARD_BUFFER_SIZE
       \/ scancode \in Modifiers \cup {"backspace", "enter"}
  /\ Waiting \/ hasty < MaxHasty
  /\ keyboard_isr(scancode)
  /\ calm' = (calm /\ Waiting)
  /\ fresh' = /\ keyboard_state'.keyboard_buffer # Null
              /\ fresh \/ scancode \notin Modifiers \cup {"release"}
  /\ hasty' = IF Waiting THEN hasty ELSE hasty + 1
  /\ UNCHANGED shell

-----------------------------------------------------------------------------
(* The shell *)

Puts(str) == [op |-> "puts", str |-> str]
Clear == [op |-> "clear", str |-> <<>>]
Activate == [op |-> "activate", str |-> <<>>]

\* one system call for each part of the prompt
print_terminal_text == [k \in 1 .. Len(Prompt) |-> Puts(Prompt[k])]

Init ==
  /\ screen = [c \in VideoCells |-> Null]
  /\ cursor = [row |-> 0, col |-> 0]
  /\ vga = 0
  /\ keyboard_state = [keyboard_input_on |-> FALSE, keyboard_buffer |-> Null]
  /\ isShift = FALSE /\ isCapsLock = FALSE
  /\ line = <<>>
  /\ keyboard_input = Null
  /\ calls = <<Activate>> \o print_terminal_text \o <<Clear>> \o print_terminal_text
  /\ pc = "poll"
  /\ calm = TRUE /\ fresh = FALSE /\ hasty = 0

syscall ==
  /\ calls # <<>>
  /\ CASE Head(calls).op = "puts" -> puts(Head(calls).str) /\ UNCHANGED keyboard_state
       [] Head(calls).op = "clear" -> framebuffer_clear /\ UNCHANGED keyboard_state
       [] Head(calls).op = "activate" ->
            /\ keyboard_state' = [keyboard_state EXCEPT !.keyboard_input_on = TRUE]
            /\ UNCHANGED display
  /\ calls' = Tail(calls)
  /\ UNCHANGED <<isShift, isCapsLock, line, keyboard_input, pc, calm, fresh, hasty>>

\* Mutant: the buffer is not flushed.
KeepKeyboardBuffer ==
  /\ pc = "poll" /\ calls = <<>> /\ keyboard_state.keyboard_buffer # Null
  /\ keyboard_input' = keyboard_state.keyboard_buffer
  /\ pc' = "input"
  /\ fresh' = FALSE
  /\ UNCHANGED <<display, keyboard, line, calls, calm, hasty>>

\* An empty buffer is polled again.
get_keyboard_buffer ==
  /\ pc = "poll" /\ calls = <<>> /\ keyboard_state.keyboard_buffer # Null
  /\ keyboard_input' = keyboard_state.keyboard_buffer
  /\ Buffer(Null)
  /\ pc' = "input"
  /\ fresh' = FALSE
  /\ UNCHANGED <<display, isShift, isCapsLock, line, calls, calm, hasty>>

\* Mutant: backspace on an empty line is not answered.
EraseCharacterOnly ==
  /\ keyboard_input = Backspace
  /\ line' = IF line = <<>> THEN <<>> ELSE Front(line)
  /\ UNCHANGED calls
  /\ pc' = "poll"

EraseCharacter ==
  /\ keyboard_input = Backspace
  /\ IF line # <<>>
     THEN line' = Front(line) /\ UNCHANGED calls
     ELSE calls' = <<Puts(<<>>)>> /\ UNCHANGED line
  /\ pc' = "poll"

EndLine ==
  /\ keyboard_input = Newline
  /\ calls' = <<Puts(<<Newline>>)>>
  /\ pc' = "execute"
  /\ UNCHANGED line

AddCharacter ==
  /\ keyboard_input \notin {Backspace, Newline}
  /\ line' = Append(line, keyboard_input)
  /\ pc' = "poll"
  /\ UNCHANGED calls

\* The next poll overwrites keyboard_input before it is read again.
HandleInput ==
  /\ pc = "input"
  /\ EraseCharacter \/ EndLine \/ AddCharacter
  /\ keyboard_input' = Null
  /\ UNCHANGED <<display, keyboard, calm, fresh, hasty>>

\* A command prints whatever it does, or clears the screen.
executeCommand ==
  /\ pc = "execute" /\ calls = <<>>
  /\ calls' \in {<<Puts(str)>> : str \in Outputs} \cup {<<Clear>>}
  /\ UNCHANGED <<display, keyboard, line, keyboard_input, pc, calm, fresh, hasty>>

FinishCommand ==
  /\ pc = "execute" /\ calls = <<>>
  /\ line' = <<>>
  /\ calls' = print_terminal_text
  /\ pc' = "poll"
  /\ calm' = (keyboard_state.keyboard_buffer = Null)
  /\ UNCHANGED <<display, keyboard, keyboard_input, fresh, hasty>>

-----------------------------------------------------------------------------
\* The clock program draws the time at the end of the screen.
ClockDraws ==
  /\ screen' = [c \in VideoCells |-> IF c \in ClockCells THEN Time ELSE screen[c]]
  /\ UNCHANGED <<cursor, vga, keyboard, shell, calm, fresh, hasty>>

Next ==
  \/ \E scancode \in Scancodes : KeyPress(scancode)
  \/ syscall \/ get_keyboard_buffer \/ HandleInput \/ executeCommand \/ FinishCommand
  \/ ClockDraws

Spec == Init /\ [][Next]_vars

-----------------------------------------------------------------------------
(* Properties *)

Characters == (Keys \X BOOLEAN) \cup {Null, Newline, Backspace, Time}

\* The cursor in memory never reaches the last row.
TypeOK ==
  /\ screen \in [VideoCells -> Characters \cup Printed]
  /\ cursor \in [row : 0 .. ROWS - 2, col : 0 .. COLS]
  /\ vga \in VideoCells
  /\ keyboard_state \in [keyboard_input_on : BOOLEAN, keyboard_buffer : Characters]
  /\ isShift \in BOOLEAN /\ isCapsLock \in BOOLEAN
  /\ line \in Seq(Characters) /\ Len(line) < KEYBOARD_BUFFER_SIZE
  /\ keyboard_input \in Characters
  /\ pc \in {"poll", "input", "execute"}

(***************************************************************************)
(* The user sees the line the shell has: if every key of it was pressed    *)
(* while the shell waited, then between the prompt and the visible cursor  *)
(* stands the line, although interrupt and shell each keep a cursor and    *)
(* the line wraps, is erased, or follows output that cleared the screen or *)
(* lines that were disturbed (keyboard.c:122-191, framebuffer.c:50-75,     *)
(* user-shell.c:1414-1442).  The cells of the clock are excepted.          *)
(***************************************************************************)
EchoMatchesLine ==
  Waiting /\ calm =>
    LET start == Position(cursor) IN
    /\ vga = start + Len(line)
    /\ \A k \in 1 .. Len(line) :
         start + k - 1 \notin ClockCells => screen[start + k - 1] = line[k]

(***************************************************************************)
(* No key reaches the shell twice, however interrupts and polls interleave *)
(* (keyboard.c:209-213).                                                   *)
(***************************************************************************)
EachKeyOnce == keyboard_state.keyboard_buffer # Null => fresh
=============================================================================
