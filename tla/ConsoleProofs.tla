--------------------------- MODULE ConsoleProofs ---------------------------
(***************************************************************************)
(* Proofs about the console (module Console): keyboard interrupt, text     *)
(* screen and the shell's input loop.                                      *)
(***************************************************************************)
EXTENDS Console, TLAPS, SequenceTheorems, WellFoundedInduction

-----------------------------------------------------------------------------
(* Induction up to a bound, and the loop of puts *)

(***************************************************************************)
(* Counting up from 0 within a set of numbers reaches every number.        *)
(***************************************************************************)
LEMMA CountingUp ==
  ASSUME NEW n \in Nat, NEW S,
         0 \in S,
         \A k \in 0 .. n : k < n /\ k \in S => k + 1 \in S
  PROVE  \A k \in 0 .. n : k \in S
<1> DEFINE Less == {ss \in Nat \X Nat : ss[1] < ss[2]}
           Missed == {k \in 0 .. n : k \notin S}
<1>1. IsWellFoundedOn(Less, Nat)
  BY NatLessThanWellFounded DEF OpToRel
<1> SUFFICES ASSUME Missed # {}
             PROVE  FALSE
  OBVIOUS
<1>2. Missed \subseteq Nat
  OBVIOUS
<1>3. \E x \in Missed : \A y \in Missed : ~(<<y, x>> \in Less)
  <2> HIDE DEF Less, Missed
  <2> QED
    BY <1>1, <1>2, WFMin
<1>4. PICK x \in Missed : \A y \in Missed : ~(<<y, x>> \in Less)
  BY <1>3
<1>5. x \in 0 .. n /\ x \notin S
  OBVIOUS
<1>6. x # 0
  BY <1>5
<1>7. x - 1 \in 0 .. n /\ x - 1 < n /\ x - 1 + 1 = x
  BY <1>5, <1>6
<1>8. x - 1 \in S
  <2>1. <<x - 1, x>> \in Less
    BY <1>5, <1>7
  <2>2. x - 1 \notin Missed
    BY <2>1, <1>4
  <2> QED
    BY <2>2, <1>7
<1> QED
  BY <1>8, <1>7, <1>5

PutStep(f, d, str) ==
  [k \in 0 .. Len(str) |-> IF k = 0 THEN d ELSE PutOne(f[k - 1], str[k])]

(***************************************************************************)
(* The loop of puts has a display after each character.                    *)
(***************************************************************************)
LEMMA PutExists ==
  ASSUME NEW d, NEW str, NEW n \in Nat, n = Len(str)
  PROVE  \E f : f = PutStep(f, d, str)
<1> DEFINE Upto(f, m) ==
             \A k \in 0 .. m : f[k] = IF k = 0 THEN d ELSE PutOne(f[k - 1], str[k])
           S == {m \in 0 .. n : \E f : Upto(f, m)}
<1>1. 0 \in S
  <2>1. Upto([k \in {0} |-> d], 0)
    OBVIOUS
  <2>2. \E f : Upto(f, 0)
    BY <2>1
  <2> HIDE DEF Upto
  <2> QED
    BY <2>2
<1>2. ASSUME NEW m \in 0 .. n, m < n, m \in S
      PROVE  m + 1 \in S
  <2>1. PICK f : Upto(f, m)
    BY <1>2
  <2> DEFINE g == [k \in 0 .. m + 1 |-> IF k <= m THEN f[k] ELSE PutOne(f[m], str[m + 1])]
  <2>2. \A k \in 0 .. m : g[k] = f[k]
    OBVIOUS
  <2>3. g[m + 1] = PutOne(f[m], str[m + 1])
    OBVIOUS
  <2>4. ASSUME NEW k \in 0 .. m + 1
        PROVE  g[k] = IF k = 0 THEN d ELSE PutOne(g[k - 1], str[k])
    <3>1. CASE k = m + 1
      <4>1. k # 0 /\ k - 1 = m /\ m \in 0 .. m
        BY <3>1
      <4>2. g[k - 1] = f[m]
        BY <4>1, <2>2
      <4> HIDE DEF g
      <4> QED
        BY <4>1, <4>2, <2>3, <3>1
    <3>2. CASE k # m + 1
      <4>1. k \in 0 .. m /\ (k # 0 => k - 1 \in 0 .. m)
        BY <3>2
      <4>2. g[k] = f[k] /\ (k # 0 => g[k - 1] = f[k - 1])
        BY <4>1, <2>2
      <4>3. f[k] = IF k = 0 THEN d ELSE PutOne(f[k - 1], str[k])
        BY <2>1, <4>1
      <4> HIDE DEF g
      <4> QED
        BY <4>2, <4>3
    <3> QED
      BY <3>1, <3>2
  <2>5. Upto(g, m + 1)
    BY <2>4
  <2>6. m + 1 \in 0 .. n
    BY <1>2
  <2> HIDE DEF g
  <2> QED
    BY <2>5, <2>6
<1>3. \A m \in 0 .. n : m \in S
  <2> HIDE DEF S
  <2> QED
    BY <1>1, <1>2, CountingUp
<1>4. PICK f : Upto(f, n)
  <2>1. n \in 0 .. n
    OBVIOUS
  <2> QED
    BY <2>1, <1>3
<1> DEFINE h == [k \in 0 .. n |-> f[k]]
<1>5. h = PutStep(h, d, str)
  <2>1. ASSUME NEW k \in 0 .. n
        PROVE  h[k] = IF k = 0 THEN d ELSE PutOne(h[k - 1], str[k])
    <3>1. k # 0 => k - 1 \in 0 .. n
      OBVIOUS
    <3>2. h[k] = f[k] /\ (k # 0 => h[k - 1] = f[k - 1])
      BY <3>1
    <3>3. f[k] = IF k = 0 THEN d ELSE PutOne(f[k - 1], str[k])
      BY <1>4
    <3> HIDE DEF h
    <3> QED
      BY <3>2, <3>3
  <2>2. h = [k \in 0 .. n |-> IF k = 0 THEN d ELSE PutOne(h[k - 1], str[k])]
    BY <2>1
  <2> QED
    BY <2>2 DEF PutStep
<1> QED
  BY <1>5

Glyphs == Characters \cup Printed
Cursors == [row : 0 .. ROWS - 2, col : 0 .. COLS]
Displays == [screen : [VideoCells -> Glyphs], cursor : Cursors]

(***************************************************************************)
(* A cursor is at a place of video memory, above its last row.             *)
(***************************************************************************)
LEMMA CursorInVideo ==
  ASSUME NEW c \in Cursors
  PROVE  /\ Position(c) \in VideoCells
         /\ Position(c) \in 0 .. (ROWS - 1) * COLS
         /\ (ROWS - 1) * COLS < VideoRows * COLS
<1> DEFINE r == c.row
           k == c.col
<1>1. r \in 0 .. ROWS - 2 /\ k \in 0 .. COLS
  BY DEF Cursors
<1>2. /\ ROWS \in Int /\ COLS \in Int /\ VideoRows \in Int /\ r \in Int /\ k \in Int
      /\ 0 < COLS /\ ROWS - 1 <= VideoRows - 2 /\ 0 <= r /\ r <= ROWS - 2 /\ 0 <= k /\ k <= COLS
  BY <1>1, SizeAssumption
<1>3. 0 <= r * COLS /\ r * COLS <= (ROWS - 2) * COLS
  <2> HIDE DEF r
  <2> QED
    BY <1>2
<1>4. (ROWS - 2) * COLS + COLS = (ROWS - 1) * COLS
  BY <1>2
<1>5. (ROWS - 1) * COLS <= (VideoRows - 2) * COLS
  BY <1>2
<1>6. (VideoRows - 2) * COLS + 2 * COLS = VideoRows * COLS
  BY <1>2
<1>7. /\ r * COLS \in Int /\ (ROWS - 2) * COLS \in Int /\ (ROWS - 1) * COLS \in Int
      /\ VideoRows * COLS \in Int /\ (VideoRows - 2) * COLS \in Int
  BY <1>2
<1>8. /\ 0 <= r * COLS + k /\ r * COLS + k <= (ROWS - 1) * COLS
      /\ (ROWS - 1) * COLS < VideoRows * COLS
  <2> DEFINE a == r * COLS
             b == (ROWS - 2) * COLS
             e == (ROWS - 1) * COLS
             g == (VideoRows - 2) * COLS
             v == VideoRows * COLS
  <2>1. /\ a \in Int /\ b \in Int /\ e \in Int /\ g \in Int /\ v \in Int
        /\ 0 <= a /\ a <= b /\ b + COLS = e /\ e <= g /\ g + 2 * COLS = v
    BY <1>3, <1>4, <1>5, <1>6, <1>7
  <2> HIDE DEF a, b, e, g, v
  <2>2. 0 <= a + k /\ a + k <= e /\ e < v
    BY <2>1, <1>2
  <2> QED
    BY <2>2 DEF a, b, e, g, v
<1>9. Position(c) = r * COLS + k
  BY DEF Position
<1> DEFINE p == Position(c)
<1>10. p \in Int /\ 0 <= p /\ p <= (ROWS - 1) * COLS /\ (ROWS - 1) * COLS < VideoRows * COLS
  BY <1>7, <1>8, <1>9, <1>2
<1> HIDE DEF p, r, k
<1>11. p \in 0 .. VideoRows * COLS - 1 /\ p \in 0 .. (ROWS - 1) * COLS
  BY <1>10, <1>7
<1> QED
  BY <1>11, <1>10 DEF p, VideoCells

(***************************************************************************)
(* A row further down, or the first row of a cleared screen.               *)
(***************************************************************************)
LEMMA NextRowTyped ==
  ASSUME NEW d \in Displays
  PROVE  NextRow(d) \in Displays /\ NextRow(d).cursor.col = 0
<1>1. d.screen \in [VideoCells -> Glyphs] /\ d.cursor.row \in 0 .. ROWS - 2
  BY DEF Displays, Cursors
<1>2. Null \in Glyphs
  BY DEF Glyphs, Characters
<1>3. Cleared(d.screen) \in [VideoCells -> Glyphs]
  BY <1>1, <1>2 DEF Cleared
<1>4. ROWS \in Nat /\ ROWS > 2 /\ COLS \in Nat
  BY SizeAssumption
<1>5. CASE d.cursor.row + 1 = ROWS - 1
  <2>1. [row |-> 0, col |-> 0] \in Cursors
    BY <1>4 DEF Cursors
  <2> QED
    BY <1>3, <1>5, <2>1 DEF NextRow, Displays
<1>6. CASE d.cursor.row + 1 # ROWS - 1
  <2>1. d.cursor.row + 1 \in 0 .. ROWS - 2
    BY <1>1, <1>4, <1>6
  <2>2. [row |-> d.cursor.row + 1, col |-> 0] \in Cursors
    BY <2>1, <1>4 DEF Cursors
  <2> QED
    BY <1>6, <2>2 DEF NextRow, Displays
<1> QED
  BY <1>5, <1>6

(***************************************************************************)
(* One character put on a display.                                         *)
(***************************************************************************)
LEMMA PutOneTyped ==
  ASSUME NEW d \in Displays, NEW ch \in Glyphs
  PROVE  PutOne(d, ch) \in Displays
<1>1. CASE ch = Newline
  BY <1>1, NextRowTyped DEF PutOne
<1>2. CASE ch # Newline
  <2> DEFINE e == IF d.cursor.col = COLS THEN NextRow(d) ELSE d
  <2>1. e \in Displays /\ e.cursor.col # COLS
    <3>1. COLS # 0
      BY SizeAssumption
    <3> QED
      BY <3>1, NextRowTyped
  <2>2. PutOne(d, ch) = [screen |-> [e.screen EXCEPT ![Position(e.cursor)] = ch],
                         cursor |-> [e.cursor EXCEPT !.col = e.cursor.col + 1]]
    BY <1>2 DEF PutOne
  <2> HIDE DEF e
  <2>3. e.screen \in [VideoCells -> Glyphs] /\ e.cursor \in Cursors
    BY <2>1 DEF Displays
  <2>4. [e.screen EXCEPT ![Position(e.cursor)] = ch] \in [VideoCells -> Glyphs]
    BY <2>3
  <2>5. e.cursor.col + 1 \in 0 .. COLS
    BY <2>1, <2>3, SizeAssumption DEF Cursors
  <2>6. [e.cursor EXCEPT !.col = e.cursor.col + 1] \in Cursors
    BY <2>3, <2>5 DEF Cursors
  <2> QED
    BY <2>2, <2>4, <2>6 DEF Displays
<1> QED
  BY <1>1, <1>2

(***************************************************************************)
(* A whole string put on a display: the cursor never reaches the last row, *)
(* however long the string is.                                             *)
(***************************************************************************)
LEMMA PutAllTyped ==
  ASSUME NEW d \in Displays, NEW str \in Seq(Glyphs)
  PROVE  PutAll(d, str) \in Displays
<1> DEFINE put == CHOOSE f : f = PutStep(f, d, str)
<1>1. PICK n \in Nat : n = Len(str)
  OBVIOUS
<1>2. put = PutStep(put, d, str)
  BY <1>1, PutExists
<1>3. PutAll(d, str) = put[n]
  BY <1>1 DEF PutAll, PutStep
<1> HIDE DEF put
<1>4. \A k \in 0 .. n : put[k] = IF k = 0 THEN d ELSE PutOne(put[k - 1], str[k])
  BY <1>2, <1>1 DEF PutStep
<1> DEFINE S == {k \in 0 .. n : put[k] \in Displays}
<1>5. 0 \in S
  BY <1>4
<1>6. ASSUME NEW k \in 0 .. n, k < n, k \in S
      PROVE  k + 1 \in S
  <2>1. k + 1 \in 0 .. n /\ k + 1 # 0 /\ k + 1 - 1 = k /\ k + 1 \in 1 .. n
    BY <1>6
  <2>2. put[k + 1] = PutOne(put[k], str[k + 1])
    BY <2>1, <1>4
  <2>3. str[k + 1] \in Glyphs
    BY <2>1, <1>1
  <2>4. put[k + 1] \in Displays
    BY <2>2, <2>3, <1>6, PutOneTyped
  <2> QED
    BY <2>1, <2>4
<1>7. n \in S
  <2> HIDE DEF S
  <2>1. n \in 0 .. n
    OBVIOUS
  <2> QED
    BY <1>5, <1>6, <2>1, CountingUp
<1> QED
  BY <1>7, <1>3

-----------------------------------------------------------------------------
(* The inductive invariant *)

Controls == {Null, Newline, Backspace}

\* How many characters a key on its way to the line will add to it.
Coming(ch) == IF ch \in Controls THEN 0 ELSE 1

\* The keys on their way to the line still find a place in it.
RoomInLine ==
  Len(line) + Coming(keyboard_input) + Coming(keyboard_state.keyboard_buffer)
    < KEYBOARD_BUFFER_SIZE

Syscalls == [op : {"puts", "clear", "activate"}, str : Seq(Glyphs)]

\* The line is collected only when nothing is left to print, and what is
\* printed before it starts ends with a string.
Prompting ==
  /\ calls \in Seq(Syscalls)
  /\ pc = "input" => calls = <<>>
  /\ pc = "input" <=> keyboard_input # Null
  /\ pc = "poll" /\ calls # <<>> => line = <<>> /\ calls[Len(calls)].op = "puts"

\* A line stands before the visible cursor.
Stands(l) ==
  \A k \in 1 .. Len(l) :
    Position(cursor) + k - 1 \notin ClockCells => screen[Position(cursor) + k - 1] = l[k]
Echoed(l) == vga = Position(cursor) + Len(l) /\ Stands(l)

\* What the screen shows once a key was echoed that is not yet in the line.
EchoedWith(ch) ==
  /\ ch = Null => Echoed(line)
  /\ ch = Backspace /\ line # <<>> => Echoed(Front(line))
  /\ ch \notin Controls => Echoed(Append(line, ch))

CalmEcho ==
  calm =>
    /\ pc = "poll" /\ calls # <<>> => keyboard_state.keyboard_buffer = Null
    /\ pc = "poll" /\ calls = <<>> => EchoedWith(keyboard_state.keyboard_buffer)
    /\ pc = "input" => keyboard_state.keyboard_buffer = Null /\ EchoedWith(keyboard_input)

ConsoleInv ==
  /\ TypeOK
  /\ calm \in BOOLEAN /\ fresh \in BOOLEAN
  /\ Prompting
  /\ RoomInLine
  /\ CalmEcho
  /\ EachKeyOnce

-----------------------------------------------------------------------------
(* The keyboard interrupt *)

(***************************************************************************)
(* A key with a character never puts a control character into the buffer,  *)
(* whichever of the four maps is used.                                     *)
(***************************************************************************)
LEMMA AsciiIsCharacter ==
  ASSUME NEW key \in Keys, isShift \in BOOLEAN, isCapsLock \in BOOLEAN
  PROVE  Ascii(key) \in Characters /\ Ascii(key) \notin Controls
<1> DEFINE up == key \in Letters
           low == key \notin Letters
<1>a. up \in BOOLEAN /\ low \in BOOLEAN
  OBVIOUS
<1>b. /\ keyboard_scancode_1_to_ascii_map[key] = <<key, FALSE>>
      /\ keyboard_scancode_shift_to_ascii_map[key] = <<key, TRUE>>
      /\ keyboard_scancode_capslock_to_ascii_map[key] = <<key, up>>
      /\ keyboard_scancode_shift_capslock_to_ascii_map[key] = <<key, low>>
  BY Zenon DEF keyboard_scancode_1_to_ascii_map, keyboard_scancode_shift_to_ascii_map,
       keyboard_scancode_capslock_to_ascii_map, keyboard_scancode_shift_capslock_to_ascii_map
<1>c. \/ Ascii(key) = keyboard_scancode_1_to_ascii_map[key]
      \/ Ascii(key) = keyboard_scancode_shift_to_ascii_map[key]
      \/ Ascii(key) = keyboard_scancode_capslock_to_ascii_map[key]
      \/ Ascii(key) = keyboard_scancode_shift_capslock_to_ascii_map[key]
  BY Zenon DEF Ascii
<1> HIDE DEF up, low
<1>1. PICK b \in BOOLEAN : Ascii(key) = <<key, b>>
  BY <1>a, <1>b, <1>c, Zenon
<1>2. key # "nul" /\ key # "enter" /\ key # "backspace"
  BY KeysAssumption
<1>3. Ascii(key) \in Keys \X BOOLEAN
  BY <1>1
<1>4. Ascii(key)[1] = key
  BY <1>1
<1>5. Ascii(key) # Null /\ Ascii(key) # Newline /\ Ascii(key) # Backspace
  <2>1. Null[1] = "nul" /\ Newline[1] = "enter" /\ Backspace[1] = "backspace"
    BY DEF Null, Newline, Backspace, Plain
  <2> QED
    BY <1>2, <1>4, <2>1, Zenon
<1> QED
  BY <1>3, <1>5, Zenon DEF Characters, Controls

\* What the interrupt does with a key, as far as screen and buffer go.
Ignored == UNCHANGED <<keyboard_state, screen, vga>>
Lost == Buffer(Null) /\ UNCHANGED <<screen, vga>>
Erased == Buffer(Backspace) /\ vga' = (IF vga > 0 THEN vga - 1 ELSE 0)
Entered == Buffer(Newline) /\ vga' = (vga \div COLS + 1) * COLS
Typed(ch) ==
  /\ Buffer(ch) /\ ch \in Characters /\ ch \notin Controls
  /\ vga' = vga + 1
  /\ screen' = [screen EXCEPT ![vga] = ch, ![vga + 1] = Null]

KeyOutcome(scancode) ==
  \/ Ignored
  \/ Lost /\ scancode \notin Modifiers \ {"shift"}
  \/ /\ Erased /\ scancode = "backspace"
     /\ screen' = [screen EXCEPT ![vga'] = Null]
  \/ /\ Entered /\ scancode = "enter"
     /\ screen' = [screen EXCEPT ![vga'] = Null]
  \/ scancode \in Keys /\ \E ch \in Characters : Typed(ch)

(***************************************************************************)
(* The interrupt handler, whatever the shift keys and the key are.         *)
(***************************************************************************)
LEMMA KeyboardOutcome ==
  ASSUME isShift \in BOOLEAN, isCapsLock \in BOOLEAN,
         NEW scancode \in Scancodes, keyboard_isr(scancode)
  PROVE  /\ KeyOutcome(scancode)
         /\ isShift' \in BOOLEAN /\ isCapsLock' \in BOOLEAN
         /\ cursor' = cursor
<1>1. cursor' = cursor
  BY DEF keyboard_isr
<1>a. \/ scancode = "capslock" /\ ToggleCapsLock
      \/ scancode = "shift" /\ ~isShift /\ TrackShift(TRUE)
      \/ scancode = "shift_release" /\ isShift /\ TrackShift(FALSE)
      \/ /\ ~(scancode = "capslock")
         /\ ~(scancode = "shift" /\ ~isShift)
         /\ ~(scancode = "shift_release" /\ isShift)
         /\ InputKey(scancode)
  BY Zenon DEF keyboard_isr
<1>3. CASE scancode = "capslock" /\ ToggleCapsLock
  BY <1>1, <1>3 DEF ToggleCapsLock, KeyOutcome, Ignored
<1>4. CASE scancode = "shift" /\ ~isShift /\ TrackShift(TRUE)
  BY <1>1, <1>4 DEF TrackShift, KeyOutcome, Ignored
<1>5. CASE scancode = "shift_release" /\ isShift /\ TrackShift(FALSE)
  BY <1>1, <1>5 DEF TrackShift, KeyOutcome, Ignored
<1>6. CASE /\ ~(scancode = "capslock")
           /\ ~(scancode = "shift" /\ ~isShift)
           /\ ~(scancode = "shift_release" /\ isShift)
           /\ InputKey(scancode)
  <2>0. InputKey(scancode)
    BY <1>6
  <2>1. CASE ~keyboard_state.keyboard_input_on \/ scancode \in {"release", "shift_release"}
    BY <1>1, <2>0, <2>1 DEF InputKey, KeyOutcome, Ignored, keyboard
  <2> DEFINE Handled == ~(~keyboard_state.keyboard_input_on
                            \/ scancode \in {"release", "shift_release"})
  <2>a. Keys \cap {"backspace", "enter", "silent", "shift", "capslock", "shift_release", "release"} = {}
    BY KeysAssumption DEF Modifiers
  <2>2. CASE Handled /\ scancode = "backspace"
    <3>1. EraseKey
      BY <2>0, <2>2, <2>a DEF InputKey
    <3> QED
      BY <3>1, <1>1, <2>2 DEF EraseKey, Erased, KeyOutcome
  <2>3. CASE Handled /\ scancode = "enter"
    <3>1. EnterKey
      BY <2>0, <2>3, <2>a DEF InputKey
    <3> QED
      BY <3>1, <1>1, <2>3 DEF EnterKey, Entered, KeyOutcome
  <2>4. CASE Handled /\ scancode \in Keys
    <3>1. CharacterKey(scancode)
      BY <2>0, <2>4, <2>a DEF InputKey
    <3>2. Ascii(scancode) \in Characters /\ Ascii(scancode) \notin Controls
      BY <2>4, AsciiIsCharacter
    <3>3. Typed(Ascii(scancode)) /\ UNCHANGED <<isShift, isCapsLock>>
      BY <3>1, <3>2 DEF CharacterKey, Typed
    <3>4. \E ch \in Characters : Typed(ch)
      BY <3>2, <3>3
    <3> QED
      BY <3>3, <3>4, <1>1, <2>4 DEF KeyOutcome
  <2>5. CASE Handled /\ scancode \in {"silent", "shift"}
    <3>1. SilentKey
      BY <2>0, <2>5, <2>a DEF InputKey
    <3> QED
      BY <3>1, <1>1, <2>5 DEF SilentKey, Lost, KeyOutcome, Modifiers
  <2>6. \/ scancode \in {"release", "shift_release"} \/ scancode = "backspace"
        \/ scancode = "enter" \/ scancode \in Keys \/ scancode \in {"silent", "shift"}
    BY <1>6 DEF Scancodes, Modifiers
  <2> QED
    BY <2>1, <2>2, <2>3, <2>4, <2>5, <2>6
<1> QED
  BY <1>a, <1>3, <1>4, <1>5, <1>6

(***************************************************************************)
(* A key keeps the visible cursor in video memory: even a new line does.   *)
(***************************************************************************)
LEMMA NextLineInVideo ==
  ASSUME NEW v \in VideoCells, v < (VideoRows - 1) * COLS
  PROVE  (v \div COLS + 1) * COLS \in VideoCells /\ v + 1 \in VideoCells
<1> DEFINE q == v \div COLS
<1>1. COLS \in Nat /\ COLS > 0 /\ VideoRows \in Nat /\ VideoRows > 2
  BY SizeAssumption
<1>2. v \in Int /\ 0 <= v
  BY DEF VideoCells
<1>3. q \in Int /\ 0 <= q /\ q * COLS <= v
  BY <1>1, <1>2
<1> HIDE DEF q
<1>4. q * COLS < (VideoRows - 1) * COLS
  BY <1>1, <1>2, <1>3
<1>5. q < VideoRows - 1
  BY <1>1, <1>3, <1>4
<1>6. q + 1 <= VideoRows - 1
  BY <1>1, <1>3, <1>5
<1>7. (q + 1) * COLS <= (VideoRows - 1) * COLS /\ 0 <= (q + 1) * COLS
  BY <1>1, <1>3, <1>6
<1>8. (VideoRows - 1) * COLS < VideoRows * COLS
  BY <1>1
<1>9. (q + 1) * COLS \in 0 .. VideoRows * COLS - 1
  BY <1>1, <1>3, <1>7, <1>8
<1>10. v + 1 \in 0 .. VideoRows * COLS - 1
  BY <1>1, <1>2, <1>8
<1> QED
  BY <1>9, <1>10 DEF q, VideoCells

\* The states of the keyboard driver.
KeyboardStates == [keyboard_input_on : BOOLEAN, keyboard_buffer : Characters]

(***************************************************************************)
(* Putting a character into the buffer leaves the switch alone.            *)
(***************************************************************************)
LEMMA BufferEffect ==
  ASSUME keyboard_state \in KeyboardStates, NEW ch \in Characters, Buffer(ch)
  PROVE  keyboard_state' \in KeyboardStates /\ keyboard_state'.keyboard_buffer = ch
BY DEF Buffer, KeyboardStates

LEMMA ControlCharacters ==
  /\ Null \in Characters /\ Newline \in Characters /\ Backspace \in Characters
  /\ Null # Newline /\ Null # Backspace /\ Newline # Backspace
  /\ Characters \subseteq Glyphs
<1>1. Null[1] = "nul" /\ Newline[1] = "enter" /\ Backspace[1] = "backspace"
  BY DEF Null, Newline, Backspace, Plain
<1>2. "nul" # "enter" /\ "nul" # "backspace" /\ "enter" # "backspace"
  OBVIOUS
<1>3. Null # Newline /\ Null # Backspace /\ Newline # Backspace
  BY <1>1, <1>2
<1> QED
  BY <1>3, Zenon DEF Characters, Glyphs

(***************************************************************************)
(* The interrupt keeps screen, visible cursor and buffer within their      *)
(* types.                                                                  *)
(***************************************************************************)
LEMMA KeyTyped ==
  ASSUME screen \in [VideoCells -> Glyphs], vga \in VideoCells,
         keyboard_state \in KeyboardStates,
         vga < (VideoRows - 1) * COLS,
         NEW scancode, KeyOutcome(scancode)
  PROVE  /\ screen' \in [VideoCells -> Glyphs]
         /\ vga' \in VideoCells
         /\ keyboard_state' \in KeyboardStates
<1>1. CASE Ignored
  BY <1>1 DEF Ignored
<1>2. CASE Lost
  BY <1>2, ControlCharacters, BufferEffect DEF Lost
<1>3. CASE Erased /\ screen' = [screen EXCEPT ![vga'] = Null]
  <2>1. vga' \in VideoCells
    <3>1. vga \in Int /\ 0 <= vga /\ vga <= VideoRows * COLS - 1 /\ VideoRows * COLS \in Int
      BY SizeAssumption DEF VideoCells
    <3>2. vga' \in 0 .. VideoRows * COLS - 1
      BY <1>3, <3>1 DEF Erased
    <3> QED
      BY <3>2 DEF VideoCells
  <2>2. keyboard_state' \in KeyboardStates
    BY <1>3, ControlCharacters, BufferEffect DEF Erased
  <2>3. screen' \in [VideoCells -> Glyphs]
    BY <1>3, <2>1, ControlCharacters
  <2> QED
    BY <2>1, <2>2, <2>3
<1>4. CASE Entered /\ screen' = [screen EXCEPT ![vga'] = Null]
  <2>1. vga' \in VideoCells
    BY <1>4, NextLineInVideo DEF Entered
  <2>2. keyboard_state' \in KeyboardStates
    BY <1>4, ControlCharacters, BufferEffect DEF Entered
  <2>3. screen' \in [VideoCells -> Glyphs]
    BY <1>4, <2>1, ControlCharacters
  <2> QED
    BY <2>1, <2>2, <2>3
<1>5. ASSUME NEW ch \in Characters, Typed(ch)
      PROVE  /\ screen' \in [VideoCells -> Glyphs]
             /\ vga' \in VideoCells
             /\ keyboard_state' \in KeyboardStates
  <2>1. vga' \in VideoCells
    BY <1>5, NextLineInVideo DEF Typed
  <2>2. keyboard_state' \in KeyboardStates
    BY <1>5, BufferEffect DEF Typed
  <2>3. ch \in Glyphs /\ Null \in Glyphs
    BY ControlCharacters
  <2>4. screen' \in [VideoCells -> Glyphs]
    BY <1>5, <2>3 DEF Typed
  <2> QED
    BY <2>1, <2>2, <2>4
<1> QED
  BY <1>1, <1>2, <1>3, <1>4, <1>5 DEF KeyOutcome

(***************************************************************************)
(* A key pressed while the shell waits: the screen then shows the line as  *)
(* it will be when the shell has taken the key.                            *)
(***************************************************************************)
LEMMA KeyEchoed ==
  ASSUME screen \in [VideoCells -> Glyphs], vga \in VideoCells, cursor \in Cursors,
         keyboard_state \in KeyboardStates, line \in Seq(Characters),
         vga < (VideoRows - 1) * COLS,
         keyboard_state.keyboard_buffer = Null, Echoed(line),
         NEW scancode, KeyOutcome(scancode),
         cursor' = cursor, line' = line
  PROVE  EchoedWith(keyboard_state.keyboard_buffer)'
<1>0. Null \in Controls /\ Newline \in Controls /\ Backspace \in Controls
  BY DEF Controls
<1> DEFINE start == Position(cursor)
<1>1. PICK n \in Nat : n = Len(line)
  OBVIOUS
<1>2. start \in Int /\ 0 <= start /\ vga = start + n /\ vga \in Int
  <2>1. start \in VideoCells
    BY CursorInVideo
  <2> QED
    BY <2>1, <1>1, SizeAssumption DEF VideoCells, Echoed
<1>3. Position(cursor)' = start
  BY DEF Position
<1>4. Stands(line)
  BY DEF Echoed
<1>5. ASSUME vga' = vga, screen' = screen, keyboard_state'.keyboard_buffer = Null
      PROVE  EchoedWith(keyboard_state.keyboard_buffer)'
  <2>1. Stands(line)'
    BY <1>4, <1>5, <1>3 DEF Stands
  <2>2. Echoed(line)'
    BY <2>1, <1>5, <1>3 DEF Echoed
  <2> QED
    BY <2>2, <1>5, <1>0, ControlCharacters DEF EchoedWith
<1>6. CASE Ignored
  BY <1>6, <1>5 DEF Ignored
<1>7. CASE Lost
  BY <1>7, <1>5, BufferEffect, ControlCharacters DEF Lost
<1>8. CASE Entered
  <2>1. keyboard_state'.keyboard_buffer = Newline
    BY <1>8, BufferEffect, ControlCharacters DEF Entered
  <2> QED
    BY <2>1, <1>0, ControlCharacters DEF EchoedWith
<1>9. CASE Erased /\ screen' = [screen EXCEPT ![vga'] = Null]
  <2>1. keyboard_state'.keyboard_buffer = Backspace
    BY <1>9, BufferEffect, ControlCharacters DEF Erased
  <2>2. ASSUME line # <<>>
        PROVE  Echoed(Front(line))'
    <3>1. n > 0
      BY <2>2, <1>1, EmptySeq
    <3>2. vga' = start + (n - 1)
      BY <1>9, <1>2, <3>1 DEF Erased
    <3>3. Len(Front(line)) = n - 1
      BY <1>1, <3>1 DEF Front
    <3>4. ASSUME NEW k \in 1 .. n - 1
          PROVE  Front(line)[k] = line[k] /\ screen'[start + k - 1] = screen[start + k - 1]
      <4>1. Front(line)[k] = line[k]
        BY <1>1, <3>1 DEF Front
      <4>2. start + k - 1 # vga'
        BY <3>2, <1>2
      <4> QED
        BY <4>1, <4>2, <1>9
    <3>5. \A k \in 1 .. n - 1 : k \in 1 .. n
      OBVIOUS
    <3>6. Stands(Front(line))'
      BY <3>3, <3>4, <3>5, <1>1, <1>3, <1>4, Zenon DEF Stands
    <3> QED
      BY <3>2, <3>3, <3>6, <1>3 DEF Echoed
  <2> QED
    BY <2>1, <2>2, <1>0, ControlCharacters DEF EchoedWith
<1>10. ASSUME NEW ch \in Characters, Typed(ch)
       PROVE  EchoedWith(keyboard_state.keyboard_buffer)'
  <2>1. keyboard_state'.keyboard_buffer = ch
    BY <1>10, BufferEffect DEF Typed
  <2>2. vga' = start + (n + 1)
    BY <1>10, <1>2 DEF Typed
  <2>3. Len(Append(line, ch)) = n + 1
    BY <1>1
  <2>4. ASSUME NEW k \in 1 .. n + 1,
               start + k - 1 \notin ClockCells
        PROVE  screen'[start + k - 1] = Append(line, ch)[k]
    <3>1. CASE k = n + 1
      <4>1. start + k - 1 = vga /\ vga # vga + 1
        BY <3>1, <1>2
      <4>2. screen'[vga] = ch
        BY <1>10, <4>1 DEF Typed
      <4>3. Append(line, ch)[k] = ch
        BY <3>1, <1>1
      <4> QED
        BY <4>1, <4>2, <4>3
    <3>2. CASE k # n + 1
      <4>1. k \in 1 .. n
        BY <3>2
      <4>2. start + k - 1 # vga /\ start + k - 1 # vga + 1
        BY <4>1, <1>2
      <4>3. screen'[start + k - 1] = screen[start + k - 1]
        <5> DEFINE c == start + k - 1
        <5>1. screen' = [screen EXCEPT ![vga] = ch, ![vga + 1] = Null]
          BY <1>10 DEF Typed
        <5>2. c # vga /\ c # vga + 1
          BY <4>2
        <5>4. c \in VideoCells
          BY <4>1, <1>2, SizeAssumption DEF VideoCells
        <5> HIDE DEF c, start
        <5>3. screen'[c] = screen[c]
          BY <5>1, <5>2, <5>4
        <5> QED
          BY <5>3 DEF c
      <4>4. Append(line, ch)[k] = line[k]
        BY <4>1, <1>1
      <4>5. screen[start + k - 1] = line[k]
        BY <4>1, <1>1, <1>4, <2>4, Zenon DEF Stands
      <4> QED
        BY <4>3, <4>4, <4>5
    <3> QED
      BY <3>1, <3>2
  <2>5. Stands(Append(line, ch))'
    BY <2>3, <2>4, <1>3, Zenon DEF Stands
  <2>6. Echoed(Append(line, ch))'
    BY <2>5, <2>2, <2>3, <1>3 DEF Echoed
  <2>7. ch # Null /\ ch # Backspace
    BY <1>10, <1>0 DEF Typed
  <2> QED
    BY <2>6, <2>1, <2>7, Zenon DEF EchoedWith
<1> QED
  BY <1>6, <1>7, <1>8, <1>9, <1>10 DEF KeyOutcome

LEMMA TypeParts ==
  TypeOK <=> /\ screen \in [VideoCells -> Glyphs]
             /\ cursor \in Cursors
             /\ vga \in VideoCells
             /\ keyboard_state \in KeyboardStates
             /\ isShift \in BOOLEAN /\ isCapsLock \in BOOLEAN
             /\ line \in Seq(Characters) /\ Len(line) < KEYBOARD_BUFFER_SIZE
             /\ keyboard_input \in Characters
             /\ pc \in {"poll", "input", "execute"}
BY Zenon DEF TypeOK, Glyphs, Cursors, KeyboardStates

(***************************************************************************)
(* Each way the interrupt ends leaves room in the line, and what it leaves *)
(* in the buffer was not handed over before.                               *)
(***************************************************************************)
LEMMA KeyRoomAndOnce ==
  ASSUME keyboard_state \in KeyboardStates, line \in Seq(Characters), line' = line,
         keyboard_input \in Characters, keyboard_input' = keyboard_input,
         RoomInLine, EachKeyOnce,
         NEW scancode, KeyOutcome(scancode),
         \/ Len(line) + 2 < KEYBOARD_BUFFER_SIZE
         \/ scancode \in Modifiers \cup {"backspace", "enter"},
         fresh' = /\ keyboard_state'.keyboard_buffer # Null
                  /\ fresh \/ scancode \notin Modifiers \cup {"release"}
  PROVE  RoomInLine' /\ EachKeyOnce'
<1> DEFINE old == Coming(keyboard_state.keyboard_buffer)
           taken == Coming(keyboard_input)
<1>0. PICK n \in Nat : n = Len(line)
  OBVIOUS
<1>1. /\ old \in 0 .. 1 /\ taken \in 0 .. 1
      /\ n + taken + old < KEYBOARD_BUFFER_SIZE
      /\ KEYBOARD_BUFFER_SIZE \in Nat
  <2>1. old \in 0 .. 1 /\ taken \in 0 .. 1
    BY DEF Coming
  <2>2. Len(line) + taken + old < KEYBOARD_BUFFER_SIZE
    BY DEF RoomInLine
  <2> QED
    BY <2>1, <2>2, <1>0, SizeAssumption
<1>2. Len(line') = n /\ Coming(keyboard_input)' = taken
  BY <1>0 DEF Coming
<1> HIDE DEF old, taken
<1>3. ASSUME NEW new \in 0 .. 1, Coming(keyboard_state.keyboard_buffer)' = new,
             new <= old \/ n + 2 < KEYBOARD_BUFFER_SIZE
      PROVE  RoomInLine'
  <2>1. n + taken + new < KEYBOARD_BUFFER_SIZE
    BY <1>1, <1>3
  <2> QED
    BY <2>1, <1>2, <1>3, Zenon DEF RoomInLine
<1>4. ASSUME keyboard_state'.keyboard_buffer \in Controls
      PROVE  RoomInLine'
  <2>1. Coming(keyboard_state.keyboard_buffer)' = 0
    BY <1>4 DEF Coming
  <2> QED
    BY <2>1, <1>1, <1>3
<1>5. Null \in Controls /\ Newline \in Controls /\ Backspace \in Controls
  BY DEF Controls
<1>6. CASE Ignored
  <2>1. keyboard_state'.keyboard_buffer = keyboard_state.keyboard_buffer
    BY <1>6 DEF Ignored
  <2>2. Coming(keyboard_state.keyboard_buffer)' = old
    BY <2>1 DEF Coming, old
  <2>3. EachKeyOnce'
    BY <2>1, Zenon DEF EachKeyOnce
  <2> QED
    BY <2>2, <2>3, <1>1, <1>3
<1>7. CASE Lost
  <2>1. keyboard_state'.keyboard_buffer = Null
    BY <1>7, BufferEffect, ControlCharacters DEF Lost
  <2> QED
    BY <2>1, <1>4, <1>5 DEF EachKeyOnce
<1>8. CASE Erased /\ scancode = "backspace"
  <2>1. keyboard_state'.keyboard_buffer = Backspace
    BY <1>8, BufferEffect, ControlCharacters DEF Erased
  <2>2. scancode \notin Modifiers \cup {"release"}
    BY <1>8 DEF Modifiers
  <2>3. EachKeyOnce'
    BY <2>2 DEF EachKeyOnce
  <2> QED
    BY <2>1, <2>3, <1>4, <1>5
<1>9. CASE Entered /\ scancode = "enter"
  <2>1. keyboard_state'.keyboard_buffer = Newline
    BY <1>9, BufferEffect, ControlCharacters DEF Entered
  <2>2. scancode \notin Modifiers \cup {"release"}
    BY <1>9 DEF Modifiers
  <2>3. EachKeyOnce'
    BY <2>2 DEF EachKeyOnce
  <2> QED
    BY <2>1, <2>3, <1>4, <1>5
<1>10. ASSUME scancode \in Keys, NEW ch \in Characters, Typed(ch)
       PROVE  RoomInLine' /\ EachKeyOnce'
  <2>1. keyboard_state'.keyboard_buffer = ch /\ ch \notin Controls
    BY <1>10, BufferEffect DEF Typed
  <2>2. scancode \notin Modifiers \cup {"release", "backspace", "enter"}
    BY <1>10, KeysAssumption
  <2>3. EachKeyOnce'
    BY <2>2 DEF EachKeyOnce
  <2>4. Coming(keyboard_state.keyboard_buffer)' = 1
    BY <2>1 DEF Coming
  <2>5. n + 2 < KEYBOARD_BUFFER_SIZE
    BY <2>2, <1>0
  <2> QED
    BY <2>3, <2>4, <2>5, <1>3
<1> QED
  BY <1>6, <1>7, <1>8, <1>9, <1>10 DEF KeyOutcome

(***************************************************************************)
(* A key, whenever it comes.                                               *)
(***************************************************************************)
LEMMA KeyPressInv ==
  ASSUME ConsoleInv, NEW scancode \in Scancodes, KeyPress(scancode)
  PROVE  ConsoleInv'
<1>0. TypeOK /\ Prompting /\ RoomInLine /\ CalmEcho /\ EachKeyOnce
      /\ calm \in BOOLEAN /\ fresh \in BOOLEAN
  BY DEF ConsoleInv
<1>1. /\ screen \in [VideoCells -> Glyphs] /\ cursor \in Cursors /\ vga \in VideoCells
      /\ keyboard_state \in KeyboardStates /\ isShift \in BOOLEAN /\ isCapsLock \in BOOLEAN
      /\ line \in Seq(Characters) /\ keyboard_input \in Characters
  BY <1>0, TypeParts
<1>2. /\ vga < (VideoRows - 1) * COLS
      /\ \/ Len(line) + 2 < KEYBOARD_BUFFER_SIZE
         \/ scancode \in Modifiers \cup {"backspace", "enter"}
      /\ keyboard_isr(scancode)
      /\ calm' = (calm /\ Waiting)
      /\ fresh' = /\ keyboard_state'.keyboard_buffer # Null
                  /\ fresh \/ scancode \notin Modifiers \cup {"release"}
      /\ line' = line /\ keyboard_input' = keyboard_input /\ calls' = calls /\ pc' = pc
  BY Zenon DEF KeyPress, shell
<1>3. /\ KeyOutcome(scancode) /\ cursor' = cursor
      /\ isShift' \in BOOLEAN /\ isCapsLock' \in BOOLEAN
  BY <1>1, <1>2, KeyboardOutcome
<1>4. TypeOK'
  <2>1. /\ screen' \in [VideoCells -> Glyphs] /\ vga' \in VideoCells
        /\ keyboard_state' \in KeyboardStates
    BY <1>1, <1>2, <1>3, KeyTyped
  <2>2. (TypeOK <=> /\ screen \in [VideoCells -> Glyphs]
                    /\ cursor \in Cursors
                    /\ vga \in VideoCells
                    /\ keyboard_state \in KeyboardStates
                    /\ isShift \in BOOLEAN /\ isCapsLock \in BOOLEAN
                    /\ line \in Seq(Characters) /\ Len(line) < KEYBOARD_BUFFER_SIZE
                    /\ keyboard_input \in Characters
                    /\ pc \in {"poll", "input", "execute"})'
    BY TypeParts, PTL
  <2> QED
    BY <2>1, <2>2, <1>0, <1>1, <1>2, <1>3, TypeParts, Zenon
<1>5. RoomInLine' /\ EachKeyOnce'
  BY <1>0, <1>1, <1>2, <1>3, KeyRoomAndOnce
<1>6. Prompting'
  BY <1>0, <1>2 DEF Prompting
<1>7. CalmEcho'
  <2>1. CASE calm /\ Waiting
    <3>1. pc = "poll" /\ calls = <<>> /\ keyboard_state.keyboard_buffer = Null
      BY <2>1 DEF Waiting
    <3>2. EchoedWith(Null)
      BY <3>1, <2>1, <1>0, Zenon DEF CalmEcho
    <3>3. Echoed(line)
      BY <3>2 DEF EchoedWith
    <3>4. EchoedWith(keyboard_state.keyboard_buffer)'
      BY <1>1, <1>2, <1>3, <3>1, <3>3, KeyEchoed
    <3>5. pc' = "poll" /\ calls' = <<>> /\ "poll" # "input"
      BY <3>1, <1>2
    <3> QED
      BY <3>4, <3>5, Zenon DEF CalmEcho
  <2>2. CASE ~(calm /\ Waiting)
    BY <2>2, <1>2, Zenon DEF CalmEcho
  <2> QED
    BY <2>1, <2>2
<1>8. calm' \in BOOLEAN /\ fresh' \in BOOLEAN
  <2>1. calm' \in BOOLEAN
    BY <1>2, Zenon
  <2>2. fresh' \in BOOLEAN
    BY <1>2, Zenon
  <2> QED
    BY <2>1, <2>2
<1> QED
  BY <1>4, <1>5, <1>6, <1>7, <1>8, Zenon DEF ConsoleInv

-----------------------------------------------------------------------------
(* The steps of the shell and of the clock *)

(***************************************************************************)
(* A string on the screen: the visible cursor is then the one in memory.   *)
(***************************************************************************)
LEMMA PutsEffect ==
  ASSUME screen \in [VideoCells -> Glyphs], cursor \in Cursors,
         NEW str \in Seq(Glyphs), puts(str)
  PROVE  /\ screen' \in [VideoCells -> Glyphs]
         /\ cursor' \in Cursors
         /\ vga' = Position(cursor')
         /\ vga' \in VideoCells
<1> DEFINE d == PutAll([screen |-> screen, cursor |-> cursor], str)
<1>1. [screen |-> screen, cursor |-> cursor] \in Displays
  BY DEF Displays
<1>2. d \in Displays
  BY <1>1, PutAllTyped
<1>3. /\ screen' = [d.screen EXCEPT ![Position(d.cursor)] = Null]
      /\ cursor' = d.cursor
      /\ vga' = Position(d.cursor)
  BY DEF puts
<1> HIDE DEF d
<1>4. d.screen \in [VideoCells -> Glyphs] /\ d.cursor \in Cursors
  BY <1>2 DEF Displays
<1>5. Position(d.cursor) \in VideoCells
  BY <1>4, CursorInVideo
<1> QED
  BY <1>3, <1>4, <1>5, ControlCharacters

(***************************************************************************)
(* What is left of the system calls when the first was made.               *)
(***************************************************************************)
LEMMA RestOfCalls ==
  ASSUME NEW s \in Seq(Syscalls), s # <<>>
  PROVE  /\ Head(s) \in Syscalls /\ Tail(s) \in Seq(Syscalls)
         /\ Tail(s) = <<>> => Head(s) = s[Len(s)]
         /\ Tail(s) # <<>> => Tail(s)[Len(Tail(s))] = s[Len(s)]
<1>1. PICK n \in Nat : n = Len(s)
  OBVIOUS
<1>2. n > 0
  BY <1>1, EmptySeq
<1>3. /\ Head(s) = s[1] /\ Tail(s) \in Seq(Syscalls) /\ Len(Tail(s)) = n - 1
      /\ \A k \in 1 .. n - 1 : Tail(s)[k] = s[k + 1]
  BY <1>1, HeadTailProperties
<1>4. s[1] \in Syscalls
  BY <1>1, <1>2
<1>5. Tail(s) = <<>> => n = 1
  <2>1. Tail(s) = <<>> => Len(Tail(s)) = 0
    BY <1>3, EmptySeq
  <2> QED
    BY <2>1, <1>3
<1>6. Tail(s) # <<>> => n - 1 \in 1 .. n - 1 /\ n - 1 + 1 = n
  BY <1>2, <1>3, EmptySeq
<1>7. Tail(s) # <<>> => Tail(s)[n - 1] = s[n]
  BY <1>3, <1>6
<1> QED
  BY <1>1, <1>3, <1>4, <1>5, <1>7

\* What the steps of the shell leave: the types with primes.
TypedNext ==
  /\ screen' \in [VideoCells -> Glyphs]
  /\ cursor' \in Cursors
  /\ vga' \in VideoCells
  /\ keyboard_state' \in KeyboardStates
  /\ isShift' \in BOOLEAN /\ isCapsLock' \in BOOLEAN
  /\ line' \in Seq(Characters) /\ Len(line') < KEYBOARD_BUFFER_SIZE
  /\ keyboard_input' \in Characters
  /\ pc' \in {"poll", "input", "execute"}

LEMMA TypedNextIsTypeOK == TypedNext => TypeOK'
<1>1. (TypeOK <=> /\ screen \in [VideoCells -> Glyphs]
                  /\ cursor \in Cursors
                  /\ vga \in VideoCells
                  /\ keyboard_state \in KeyboardStates
                  /\ isShift \in BOOLEAN /\ isCapsLock \in BOOLEAN
                  /\ line \in Seq(Characters) /\ Len(line) < KEYBOARD_BUFFER_SIZE
                  /\ keyboard_input \in Characters
                  /\ pc \in {"poll", "input", "execute"})'
  BY TypeParts, PTL
<1> QED
  BY <1>1, Zenon DEF TypedNext

(***************************************************************************)
(* A system call of the shell.                                             *)
(***************************************************************************)
LEMMA SyscallInv ==
  ASSUME ConsoleInv, syscall
  PROVE  ConsoleInv'
<1>0. TypeOK /\ Prompting /\ RoomInLine /\ CalmEcho /\ EachKeyOnce
      /\ calm \in BOOLEAN /\ fresh \in BOOLEAN
  BY DEF ConsoleInv
<1>1. /\ screen \in [VideoCells -> Glyphs] /\ cursor \in Cursors /\ vga \in VideoCells
      /\ keyboard_state \in KeyboardStates /\ isShift \in BOOLEAN /\ isCapsLock \in BOOLEAN
      /\ line \in Seq(Characters) /\ keyboard_input \in Characters
      /\ Len(line) < KEYBOARD_BUFFER_SIZE /\ pc \in {"poll", "input", "execute"}
  BY <1>0, TypeParts
<1>2. /\ calls # <<>> /\ calls' = Tail(calls)
      /\ UNCHANGED <<isShift, isCapsLock, line, keyboard_input, pc, calm, fresh, hasty>>
  BY Zenon DEF syscall
<1>3. calls \in Seq(Syscalls)
  BY <1>0 DEF Prompting
<1> DEFINE call == Head(calls)
<1>4. /\ call \in Syscalls /\ calls' \in Seq(Syscalls)
      /\ calls' = <<>> => call = calls[Len(calls)]
      /\ calls' # <<>> => calls'[Len(calls')] = calls[Len(calls)]
  BY <1>2, <1>3, RestOfCalls
<1>5. \/ call.op = "puts" /\ puts(call.str) /\ UNCHANGED keyboard_state
      \/ call.op = "clear" /\ framebuffer_clear /\ UNCHANGED keyboard_state
      \/ /\ call.op = "activate" /\ UNCHANGED display
         /\ keyboard_state' = [keyboard_state EXCEPT !.keyboard_input_on = TRUE]
  <2>1. call.op \in {"puts", "clear", "activate"}
    BY <1>4 DEF Syscalls
  <2> QED
    BY <2>1 DEF syscall
<1> HIDE DEF call
<1>6. /\ screen' \in [VideoCells -> Glyphs] /\ cursor' \in Cursors /\ vga' \in VideoCells
      /\ keyboard_state' \in KeyboardStates
      /\ keyboard_state'.keyboard_buffer = keyboard_state.keyboard_buffer
      /\ call.op = "puts" => vga' = Position(cursor')
  <2>1. CASE call.op = "puts" /\ puts(call.str) /\ UNCHANGED keyboard_state
    <3>1. call.str \in Seq(Glyphs)
      BY <1>4 DEF Syscalls
    <3> QED
      BY <3>1, <2>1, <1>1, PutsEffect
  <2>2. CASE call.op = "clear" /\ framebuffer_clear /\ UNCHANGED keyboard_state
    <3>1. screen' \in [VideoCells -> Glyphs]
      BY <2>2, <1>1, ControlCharacters DEF framebuffer_clear, Cleared
    <3>2. cursor' \in Cursors
      BY <2>2, SizeAssumption DEF framebuffer_clear, Cursors
    <3> QED
      BY <3>1, <3>2, <2>2, <1>1 DEF framebuffer_clear
  <2>3. CASE /\ call.op = "activate" /\ UNCHANGED display
             /\ keyboard_state' = [keyboard_state EXCEPT !.keyboard_input_on = TRUE]
    <3>1. keyboard_state' \in KeyboardStates
          /\ keyboard_state'.keyboard_buffer = keyboard_state.keyboard_buffer
      BY <2>3, <1>1 DEF KeyboardStates
    <3> QED
      BY <3>1, <2>3, <1>1 DEF display
  <2> QED
    BY <1>5, <2>1, <2>2, <2>3
<1>7. TypeOK'
  <2>1. TypedNext
    BY <1>1, <1>2, <1>6 DEF TypedNext
  <2> QED
    BY <2>1, TypedNextIsTypeOK
<1>8. Prompting'
  <2>1. pc' = "input" => calls' = <<>>
    BY <1>0, <1>2 DEF Prompting
  <2>2. pc' = "input" <=> keyboard_input' # Null
    BY <1>0, <1>2 DEF Prompting
  <2>3. pc' = "poll" /\ calls' # <<>> => line' = <<>> /\ calls'[Len(calls')].op = "puts"
    BY <1>0, <1>2, <1>4 DEF Prompting
  <2> QED
    BY <2>1, <2>2, <2>3, <1>4, Zenon DEF Prompting
<1>9. RoomInLine'
  BY <1>0, <1>2, <1>6, Zenon DEF RoomInLine, Coming
<1>10. EachKeyOnce'
  BY <1>0, <1>2, <1>6, Zenon DEF EachKeyOnce
<1>11. CalmEcho'
  <2>1. ASSUME calm, pc = "poll"
        PROVE  /\ keyboard_state'.keyboard_buffer = Null
               /\ calls' = <<>> => EchoedWith(keyboard_state.keyboard_buffer)'
    <3>1. keyboard_state'.keyboard_buffer = Null
      BY <2>1, <1>0, <1>2, <1>6, Zenon DEF CalmEcho
    <3>2. line = <<>> /\ line' = <<>> /\ calls[Len(calls)].op = "puts"
      BY <2>1, <1>0, <1>2, Zenon DEF Prompting
    <3>3. ASSUME calls' = <<>>
          PROVE  EchoedWith(keyboard_state.keyboard_buffer)'
      <4>1. vga' = Position(cursor')
        BY <3>2, <3>3, <1>4, <1>6
      <4>2. Len(line') = 0 /\ Position(cursor') + 0 = Position(cursor')
        <5>1. Position(cursor') \in VideoCells
          BY <1>6, CursorInVideo
        <5>2. Position(cursor') \in Int
          BY <5>1, SizeAssumption DEF VideoCells
        <5> QED
          BY <3>2, <5>2
      <4>3. 1 .. 0 = {}
        OBVIOUS
      <4>4. Stands(line)'
        BY <4>2, <4>3, Zenon DEF Stands
      <4>5. Echoed(line)'
        BY <4>1, <4>2, <4>4, Zenon DEF Echoed
      <4>6. Null # Backspace /\ Null \in Controls
        BY ControlCharacters DEF Controls
      <4> QED
        BY <4>5, <4>6, <3>1, Zenon DEF EchoedWith
    <3> QED
      BY <3>1, <3>3
  <2>2. pc' = "input" => FALSE
    BY <1>0, <1>2 DEF Prompting
  <2> QED
    BY <2>1, <2>2, <1>2, Zenon DEF CalmEcho
<1>12. calm' \in BOOLEAN /\ fresh' \in BOOLEAN
  BY <1>0, <1>2
<1> QED
  BY <1>7, <1>8, <1>9, <1>10, <1>11, <1>12, Zenon DEF ConsoleInv

(***************************************************************************)
(* The shell takes the key out of the buffer.                              *)
(***************************************************************************)
LEMMA GetKeyInv ==
  ASSUME ConsoleInv, get_keyboard_buffer
  PROVE  ConsoleInv'
<1>0. TypeOK /\ Prompting /\ RoomInLine /\ CalmEcho /\ EachKeyOnce
      /\ calm \in BOOLEAN /\ fresh \in BOOLEAN
  BY DEF ConsoleInv
<1>1. /\ screen \in [VideoCells -> Glyphs] /\ cursor \in Cursors /\ vga \in VideoCells
      /\ keyboard_state \in KeyboardStates /\ isShift \in BOOLEAN /\ isCapsLock \in BOOLEAN
      /\ line \in Seq(Characters) /\ keyboard_input \in Characters
      /\ Len(line) < KEYBOARD_BUFFER_SIZE /\ pc \in {"poll", "input", "execute"}
  BY <1>0, TypeParts
<1> DEFINE ch == keyboard_state.keyboard_buffer
<1>2. /\ pc = "poll" /\ calls = <<>> /\ ch # Null
      /\ keyboard_input' = ch /\ Buffer(Null) /\ pc' = "input" /\ fresh' = FALSE
      /\ UNCHANGED <<screen, cursor, vga, isShift, isCapsLock, line, calls, calm, hasty>>
  BY Zenon DEF get_keyboard_buffer, display
<1>3. /\ keyboard_state' \in KeyboardStates /\ keyboard_state'.keyboard_buffer = Null
      /\ ch \in Characters
  <2>1. ch \in Characters
    BY <1>1 DEF KeyboardStates
  <2> QED
    BY <2>1, <1>1, <1>2, BufferEffect, ControlCharacters
<1>4. keyboard_input = Null
  BY <1>0, <1>2 DEF Prompting
<1>5. TypeOK'
  <2>1. TypedNext
    BY <1>1, <1>2, <1>3 DEF TypedNext
  <2> QED
    BY <2>1, TypedNextIsTypeOK
<1>6. Prompting'
  <2>1. calls' \in Seq(Syscalls)
    BY <1>0, <1>2 DEF Prompting
  <2> QED
    BY <2>1, <1>2 DEF Prompting
<1>7. RoomInLine'
  <2>1. Coming(Null) = 0
    BY DEF Coming, Controls
  <2>2. /\ Coming(keyboard_input) = 0 /\ Coming(keyboard_state.keyboard_buffer)' = 0
        /\ Coming(keyboard_input)' = Coming(ch)
    BY <2>1, <1>2, <1>3, <1>4, Zenon DEF Coming
  <2>3. Coming(ch) \in Int
    BY DEF Coming
  <2> DEFINE c == Coming(ch)
  <2>4. Len(line) + 0 + c < KEYBOARD_BUFFER_SIZE
    BY <1>0, <2>2, Zenon DEF RoomInLine
  <2>5. PICK n \in Nat : n = Len(line)
    BY <1>1
  <2> HIDE DEF c
  <2>6. n + c + 0 < KEYBOARD_BUFFER_SIZE
    <3>1. c \in Int
      BY <2>3 DEF c
    <3>2. n + 0 + c < KEYBOARD_BUFFER_SIZE
      BY <2>4, <2>5
    <3> QED
      BY <3>1, <3>2, SizeAssumption
  <2>7. Len(line') = n
    BY <2>5, <1>2
  <2>8. Coming(keyboard_input)' = c
    BY <2>2 DEF c
  <2> QED
    BY <2>6, <2>7, <2>8, <2>2, Zenon DEF RoomInLine
<1>8. EachKeyOnce'
  BY <1>3 DEF EachKeyOnce
<1>9. CalmEcho'
  <2>1. ASSUME calm
        PROVE  EchoedWith(keyboard_input)'
    <3>1. EchoedWith(ch)
      BY <2>1, <1>0, <1>2, Zenon DEF CalmEcho
    <3>3. /\ keyboard_input' = Null => Echoed(line)'
          /\ keyboard_input' = Backspace /\ line' # <<>> => Echoed(Front(line))'
          /\ keyboard_input' \notin Controls => Echoed(Append(line, keyboard_input))'
      BY <3>1, <1>2, Zenon DEF EchoedWith, Echoed, Stands, Position
    <3> QED
      BY <3>3 DEF EchoedWith
  <2>2. pc' # "poll"
    BY <1>2
  <2> QED
    BY <2>1, <2>2, <1>2, <1>3, Zenon DEF CalmEcho
<1>10. calm' \in BOOLEAN /\ fresh' \in BOOLEAN
  BY <1>0, <1>2
<1> QED
  BY <1>5, <1>6, <1>7, <1>8, <1>9, <1>10, Zenon DEF ConsoleInv

(***************************************************************************)
(* A system call the shell is about to make.                               *)
(***************************************************************************)
LEMMA OneCall ==
  ASSUME NEW str \in Seq(Glyphs)
  PROVE  /\ <<Puts(str)>> \in Seq(Syscalls) /\ <<Puts(str)>> # <<>>
         /\ <<Puts(str)>>[Len(<<Puts(str)>>)].op = "puts"
<1>1. Puts(str) \in Syscalls /\ Puts(str).op = "puts"
  BY DEF Puts, Syscalls
<1>2. ASSUME NEW c \in Syscalls
      PROVE  <<c>> \in Seq(Syscalls) /\ <<c>> # <<>> /\ <<c>>[Len(<<c>>)] = c
  OBVIOUS
<1> QED
  BY <1>1, <1>2

(***************************************************************************)
(* The shell puts the key into its line, or answers it.                    *)
(***************************************************************************)
LEMMA HandleInputInv ==
  ASSUME ConsoleInv, HandleInput
  PROVE  ConsoleInv'
<1>0. TypeOK /\ Prompting /\ RoomInLine /\ CalmEcho /\ EachKeyOnce
      /\ calm \in BOOLEAN /\ fresh \in BOOLEAN
  BY DEF ConsoleInv
<1>1. /\ screen \in [VideoCells -> Glyphs] /\ cursor \in Cursors /\ vga \in VideoCells
      /\ keyboard_state \in KeyboardStates /\ isShift \in BOOLEAN /\ isCapsLock \in BOOLEAN
      /\ line \in Seq(Characters) /\ keyboard_input \in Characters
      /\ Len(line) < KEYBOARD_BUFFER_SIZE /\ pc \in {"poll", "input", "execute"}
  BY <1>0, TypeParts
<1>2. /\ pc = "input" /\ keyboard_input' = Null
      /\ EraseCharacter \/ EndLine \/ AddCharacter
      /\ UNCHANGED <<screen, cursor, vga, keyboard_state, isShift, isCapsLock, calm, fresh, hasty>>
  BY Zenon DEF HandleInput, display, keyboard
<1>3. /\ calls = <<>> /\ keyboard_input # Null
      /\ calm => /\ keyboard_state.keyboard_buffer = Null
                 /\ EchoedWith(keyboard_input)
  <2>1. calls = <<>> /\ keyboard_input # Null
    BY <1>0, <1>2, Zenon DEF Prompting
  <2> QED
    BY <2>1, <1>0, <1>2, Zenon DEF CalmEcho
<1> DEFINE buffered == Coming(keyboard_state.keyboard_buffer)
<1>4. PICK n \in Nat : n = Len(line)
  BY <1>1
<1>5. /\ buffered \in 0 .. 1 /\ buffered' = buffered
      /\ Coming(keyboard_input)' = 0
      /\ n + Coming(keyboard_input) + buffered < KEYBOARD_BUFFER_SIZE
      /\ Coming(keyboard_input) \in 0 .. 1 /\ KEYBOARD_BUFFER_SIZE \in Nat
  <2>1. buffered \in 0 .. 1 /\ Coming(keyboard_input) \in 0 .. 1
    BY DEF Coming
  <2>2. buffered' = buffered
    BY <1>2 DEF Coming
  <2>3. Coming(keyboard_input)' = 0
    BY <1>2 DEF Coming, Controls
  <2>4. n + Coming(keyboard_input) + buffered < KEYBOARD_BUFFER_SIZE
    BY <1>0, <1>4, Zenon DEF RoomInLine
  <2> QED
    BY <2>1, <2>2, <2>3, <2>4, SizeAssumption
\* What remains to be shown once the new line is known
<1>6. ASSUME line' \in Seq(Characters), calls' \in Seq(Syscalls), pc' \in {"poll", "execute"},
             Len(line') + buffered < KEYBOARD_BUFFER_SIZE,
             Len(line') <= n + 1, Len(line') < KEYBOARD_BUFFER_SIZE,
             pc' = "poll" /\ calls' # <<>> => line' = <<>> /\ calls'[Len(calls')].op = "puts",
             calm /\ pc' = "poll" /\ calls' = <<>> => Echoed(line)'
      PROVE  ConsoleInv'
  <2>1. TypeOK'
    <3>1. TypedNext
      BY <1>1, <1>2, <1>6, ControlCharacters DEF TypedNext
    <3> QED
      BY <3>1, TypedNextIsTypeOK
  <2>2. Prompting'
    <3>1. pc' # "input"
      BY <1>6
    <3> QED
      BY <3>1, <1>2, <1>6, Zenon DEF Prompting
  <2>3. RoomInLine'
    <3>1. PICK k \in Nat : k = Len(line')
      BY <1>6
    <3> DEFINE b == buffered
    <3>2. b \in 0 .. 1 /\ k + b < KEYBOARD_BUFFER_SIZE
      BY <1>5, <1>6, <3>1
    <3> HIDE DEF b
    <3>3. k + 0 + b < KEYBOARD_BUFFER_SIZE
      BY <3>2
    <3>4. b = Coming(keyboard_state.keyboard_buffer)'
      BY <1>2 DEF b, Coming
    <3> QED
      BY <3>1, <3>3, <3>4, <1>5, Zenon DEF RoomInLine
  <2>4. EachKeyOnce'
    BY <1>0, <1>2, Zenon DEF EachKeyOnce
  <2>5. CalmEcho'
    <3>1. ASSUME calm, pc' = "poll", calls' = <<>>
          PROVE  EchoedWith(keyboard_state.keyboard_buffer)'
      <4>1. keyboard_state'.keyboard_buffer = Null
        BY <3>1, <1>2, <1>3
      <4>2. Echoed(line)'
        BY <3>1, <1>6
      <4>3. Null # Backspace /\ Null \in Controls
        BY ControlCharacters DEF Controls
      <4> QED
        BY <4>1, <4>2, <4>3, Zenon DEF EchoedWith
    <3>2. calm => keyboard_state'.keyboard_buffer = Null
      BY <1>2, <1>3
    <3>3. pc' # "input"
      BY <1>6
    <3> QED
      BY <3>1, <3>2, <3>3, <1>2, Zenon DEF CalmEcho
  <2>6. calm' \in BOOLEAN /\ fresh' \in BOOLEAN
    BY <1>0, <1>2
  <2> QED
    BY <2>1, <2>2, <2>3, <2>4, <2>5, <2>6, Zenon DEF ConsoleInv
<1>7. CASE EraseCharacter
  <2>1. keyboard_input = Backspace /\ pc' = "poll"
    BY <1>7 DEF EraseCharacter
  <2>2. CASE line # <<>>
    <3>1. line' = Front(line) /\ calls' = calls
      BY <1>7, <2>2 DEF EraseCharacter
    <3>2. n > 0
      BY <1>4, <2>2, EmptySeq, <1>1
    <3>3. Front(line) \in Seq(Characters) /\ Len(Front(line)) = n - 1
      BY <1>1, <1>4, <3>2 DEF Front
    <3>4. calm => Echoed(line)'
      <4>1. calm => Echoed(Front(line))
        BY <1>3, <2>1, <2>2 DEF EchoedWith
      <4> QED
        BY <4>1, <3>1, <1>2, Zenon DEF Echoed, Stands, Position
    <3>5. /\ Len(line') + buffered < KEYBOARD_BUFFER_SIZE
          /\ Len(line') <= n + 1 /\ Len(line') < KEYBOARD_BUFFER_SIZE
      <4> HIDE DEF buffered
      <4> QED
        BY <3>1, <3>3, <1>5
    <3>6. calls' = <<>> /\ calls' \in Seq(Syscalls)
      BY <3>1, <1>3, <1>0 DEF Prompting
    <3> QED
      BY <3>1, <3>3, <3>4, <3>5, <3>6, <2>1, <1>6
  <2>3. CASE line = <<>>
    <3>1. line' = line /\ calls' = <<Puts(<<>>)>>
      BY <1>7, <2>3 DEF EraseCharacter
    <3>2. <<>> \in Seq(Glyphs)
      OBVIOUS
    <3>3. calls' \in Seq(Syscalls) /\ calls' # <<>> /\ calls'[Len(calls')].op = "puts"
      BY <3>1, <3>2, OneCall
    <3>4. /\ Len(line') + buffered < KEYBOARD_BUFFER_SIZE
          /\ Len(line') <= n + 1 /\ Len(line') < KEYBOARD_BUFFER_SIZE
      <4> HIDE DEF buffered
      <4> QED
        BY <3>1, <1>4, <1>5
    <3> QED
      BY <3>1, <3>3, <3>4, <2>1, <2>3, <1>1, <1>6
  <2> QED
    BY <2>2, <2>3
<1>8. CASE EndLine
  <2>1. calls' = <<Puts(<<Newline>>)>> /\ pc' = "execute" /\ line' = line
    BY <1>8 DEF EndLine
  <2>2. <<Newline>> \in Seq(Glyphs)
    <3>1. Newline \in Glyphs
      BY ControlCharacters
    <3> QED
      BY <3>1
  <2>3. calls' \in Seq(Syscalls)
    BY <2>1, <2>2, OneCall
  <2>4. /\ Len(line') + buffered < KEYBOARD_BUFFER_SIZE
        /\ Len(line') <= n + 1 /\ Len(line') < KEYBOARD_BUFFER_SIZE
    <3> HIDE DEF buffered
    <3> QED
      BY <2>1, <1>4, <1>5
  <2>5. pc' # "poll"
    BY <2>1
  <2> QED
    BY <2>1, <2>3, <2>4, <2>5, <1>1, <1>6
<1>9. CASE AddCharacter
  <2>1. /\ keyboard_input \notin {Backspace, Newline}
        /\ line' = Append(line, keyboard_input) /\ pc' = "poll" /\ calls' = calls
    BY <1>9 DEF AddCharacter
  <2>2. keyboard_input \notin Controls
    BY <2>1, <1>3 DEF Controls
  <2>3. Coming(keyboard_input) = 1
    BY <2>2 DEF Coming
  <2>4. line' \in Seq(Characters) /\ Len(line') = n + 1
    BY <2>1, <1>1, <1>4
  <2>5. /\ Len(line') + buffered < KEYBOARD_BUFFER_SIZE
        /\ Len(line') <= n + 1 /\ Len(line') < KEYBOARD_BUFFER_SIZE
    <3> HIDE DEF buffered
    <3> QED
      BY <2>3, <2>4, <1>5
  <2>6. calm => Echoed(line)'
    <3>1. calm => Echoed(Append(line, keyboard_input))
      BY <1>3, <2>2 DEF EchoedWith
    <3> QED
      BY <3>1, <2>1, <1>2, Zenon DEF Echoed, Stands, Position
  <2>7. calls' = <<>> /\ calls' \in Seq(Syscalls)
    BY <2>1, <1>3, <1>0 DEF Prompting
  <2> QED
    BY <2>1, <2>4, <2>5, <2>6, <2>7, <1>6
<1> QED
  BY <1>2, <1>7, <1>8, <1>9

(***************************************************************************)
(* The prompt is at least one string, and nothing but strings.             *)
(***************************************************************************)
LEMMA PromptCalls ==
  /\ print_terminal_text \in Seq(Syscalls) /\ print_terminal_text # <<>>
  /\ print_terminal_text[Len(print_terminal_text)].op = "puts"
  /\ \A str \in Outputs : str \in Seq(Glyphs)
  /\ Clear \in Syscalls /\ Activate \in Syscalls
<1>1. PICK n \in Nat : n = Len(Prompt)
  BY PrintedAssumption
<1>2. n > 0
  BY <1>1, PrintedAssumption, EmptySeq
<1>3. Printed \subseteq Glyphs
  BY DEF Glyphs
<1>4. ASSUME NEW s \in Seq(Printed)
      PROVE  s \in Seq(Glyphs)
  BY <1>3
<1>5. \A k \in 1 .. n : Prompt[k] \in Seq(Printed)
  BY <1>1, PrintedAssumption
<1>6. \A k \in 1 .. n : Puts(Prompt[k]) \in Syscalls /\ Puts(Prompt[k]).op = "puts"
  <2>1. ASSUME NEW k \in 1 .. n
        PROVE  Puts(Prompt[k]) \in Syscalls /\ Puts(Prompt[k]).op = "puts"
    <3>1. Prompt[k] \in Seq(Glyphs)
      BY <1>4, <1>5
    <3> QED
      BY <3>1 DEF Puts, Syscalls
  <2> QED
    BY <2>1
<1>7. print_terminal_text = [k \in 1 .. n |-> Puts(Prompt[k])]
  BY <1>1 DEF print_terminal_text
<1>8. /\ print_terminal_text \in Seq(Syscalls) /\ Len(print_terminal_text) = n
      /\ print_terminal_text[n] = Puts(Prompt[n])
  <2>1. \A f : f = [k \in 1 .. n |-> Puts(Prompt[k])]
               => f \in Seq(Syscalls) /\ Len(f) = n /\ f[n] = Puts(Prompt[n])
    BY <1>2, <1>6, IsASeq
  <2> QED
    BY <2>1, <1>7
<1>9. n \in 1 .. n
  BY <1>2
<1>10. print_terminal_text # <<>>
  BY <1>8, <1>2, EmptySeq
<1>11. Clear \in Syscalls /\ Activate \in Syscalls
  BY DEF Clear, Activate, Syscalls
<1> QED
  BY <1>4, <1>6, <1>8, <1>9, <1>10, <1>11, PrintedAssumption

(***************************************************************************)
(* A command prints, or clears the screen.                                 *)
(***************************************************************************)
LEMMA ExecuteInv ==
  ASSUME ConsoleInv, executeCommand
  PROVE  ConsoleInv'
<1>0. TypeOK /\ Prompting /\ RoomInLine /\ CalmEcho /\ EachKeyOnce
      /\ calm \in BOOLEAN /\ fresh \in BOOLEAN
  BY DEF ConsoleInv
<1>1. /\ pc = "execute" /\ calls' \in {<<Puts(str)>> : str \in Outputs} \cup {<<Clear>>}
      /\ UNCHANGED <<screen, cursor, vga, keyboard_state, isShift, isCapsLock, line,
                     keyboard_input, pc, calm, fresh, hasty>>
  BY Zenon DEF executeCommand, display, keyboard
<1>2. calls' \in Seq(Syscalls)
  <2>1. ASSUME NEW str \in Outputs
        PROVE  <<Puts(str)>> \in Seq(Syscalls)
    BY PromptCalls, OneCall
  <2>2. <<Clear>> \in Seq(Syscalls)
    BY PromptCalls
  <2> QED
    BY <1>1, <2>1, <2>2
<1>3. TypeOK'
  BY <1>0, <1>1, Zenon DEF TypeOK
<1>4. Prompting'
  <2>1. pc' # "input" /\ pc' # "poll" /\ keyboard_input' = Null
    BY <1>0, <1>1 DEF Prompting
  <2> QED
    BY <2>1, <1>2, Zenon DEF Prompting
<1>5. RoomInLine' /\ EachKeyOnce'
  BY <1>0, <1>1, Zenon DEF RoomInLine, Coming, EachKeyOnce
<1>6. CalmEcho'
  <2>1. pc' # "input" /\ pc' # "poll"
    BY <1>1
  <2> QED
    BY <2>1, Zenon DEF CalmEcho
<1> QED
  BY <1>0, <1>1, <1>3, <1>4, <1>5, <1>6, Zenon DEF ConsoleInv

(***************************************************************************)
(* The shell is done with a command and starts a line.                     *)
(***************************************************************************)
LEMMA FinishInv ==
  ASSUME ConsoleInv, FinishCommand
  PROVE  ConsoleInv'
<1>0. TypeOK /\ Prompting /\ RoomInLine /\ CalmEcho /\ EachKeyOnce
      /\ calm \in BOOLEAN /\ fresh \in BOOLEAN
  BY DEF ConsoleInv
<1>1. /\ screen \in [VideoCells -> Glyphs] /\ cursor \in Cursors /\ vga \in VideoCells
      /\ keyboard_state \in KeyboardStates /\ isShift \in BOOLEAN /\ isCapsLock \in BOOLEAN
      /\ line \in Seq(Characters) /\ keyboard_input \in Characters
  BY <1>0, TypeParts
<1>2. /\ pc = "execute" /\ line' = <<>> /\ calls' = print_terminal_text /\ pc' = "poll"
      /\ calm' = (keyboard_state.keyboard_buffer = Null)
      /\ UNCHANGED <<screen, cursor, vga, keyboard_state, isShift, isCapsLock,
                     keyboard_input, fresh, hasty>>
  BY Zenon DEF FinishCommand, display, keyboard
<1>3. TypeOK'
  <2>1. line' \in Seq(Characters) /\ Len(line') < KEYBOARD_BUFFER_SIZE
    BY <1>2, SizeAssumption
  <2>2. TypedNext
    BY <2>1, <1>1, <1>2 DEF TypedNext
  <2> QED
    BY <2>2, TypedNextIsTypeOK
<1>4. Prompting'
  <2>1. keyboard_input' = Null /\ pc' # "input"
    BY <1>0, <1>2 DEF Prompting
  <2> QED
    BY <2>1, <1>2, PromptCalls, Zenon DEF Prompting
<1>5. RoomInLine'
  <2> DEFINE b == Coming(keyboard_state.keyboard_buffer)
             t == Coming(keyboard_input)
  <2>1. PICK n \in Nat : n = Len(line)
    BY <1>1
  <2>2. b \in 0 .. 1 /\ t \in 0 .. 1
    BY DEF Coming
  <2>3. n + t + b < KEYBOARD_BUFFER_SIZE
    BY <1>0, <2>1, Zenon DEF RoomInLine
  <2>4. b' = b /\ t' = t
    BY <1>2 DEF Coming
  <2>5. Len(line') = 0
    BY <1>2
  <2> HIDE DEF b, t
  <2>6. 0 + t + b < KEYBOARD_BUFFER_SIZE
    BY <2>2, <2>3, SizeAssumption
  <2>7. 0 + t' + b' < KEYBOARD_BUFFER_SIZE
    BY <2>4, <2>6
  <2> QED
    BY <2>7, <2>5, Zenon DEF RoomInLine, b, t
<1>6. EachKeyOnce'
  BY <1>0, <1>2, Zenon DEF EachKeyOnce
<1>7. CalmEcho'
  <2>1. calls' # <<>> /\ pc' # "input"
    BY <1>2, PromptCalls
  <2>2. calm' => keyboard_state'.keyboard_buffer = Null
    BY <1>2
  <2> QED
    BY <2>1, <2>2, Zenon DEF CalmEcho
<1>8. calm' \in BOOLEAN /\ fresh' \in BOOLEAN
  <2>1. calm' \in BOOLEAN
    BY <1>2, Zenon
  <2> QED
    BY <2>1, <1>0, <1>2
<1> QED
  BY <1>3, <1>4, <1>5, <1>6, <1>7, <1>8, Zenon DEF ConsoleInv

(***************************************************************************)
(* The clock draws at cells that the property leaves to it.                *)
(***************************************************************************)
LEMMA ClockDrawsInv ==
  ASSUME ConsoleInv, ClockDraws
  PROVE  ConsoleInv'
<1>0. TypeOK /\ Prompting /\ RoomInLine /\ CalmEcho /\ EachKeyOnce
      /\ calm \in BOOLEAN /\ fresh \in BOOLEAN
  BY DEF ConsoleInv
<1>1. /\ screen \in [VideoCells -> Glyphs] /\ cursor \in Cursors /\ vga \in VideoCells
      /\ keyboard_state \in KeyboardStates /\ isShift \in BOOLEAN /\ isCapsLock \in BOOLEAN
      /\ line \in Seq(Characters) /\ keyboard_input \in Characters
      /\ Len(line) < KEYBOARD_BUFFER_SIZE /\ pc \in {"poll", "input", "execute"}
  BY <1>0, TypeParts
<1>2. /\ screen' = [c \in VideoCells |-> IF c \in ClockCells THEN Time ELSE screen[c]]
      /\ UNCHANGED <<cursor, vga, keyboard_state, isShift, isCapsLock, line, keyboard_input,
                     calls, pc, calm, fresh, hasty>>
  BY Zenon DEF ClockDraws, keyboard, shell
<1>3. screen' \in [VideoCells -> Glyphs]
  <2>1. Time \in Glyphs
    BY Zenon DEF Glyphs, Characters
  <2> QED
    BY <2>1, <1>1, <1>2
<1>4. TypeOK'
  <2>1. TypedNext
    BY <1>1, <1>2, <1>3 DEF TypedNext
  <2> QED
    BY <2>1, TypedNextIsTypeOK
<1>5. Prompting' /\ RoomInLine' /\ EachKeyOnce'
  BY <1>0, <1>2, Zenon DEF Prompting, RoomInLine, Coming, EachKeyOnce
<1>6. Position(cursor)' = Position(cursor)
  BY <1>2, Zenon DEF Position
\* A line that stands ends before the visible cursor, within video memory.
<1>7. ASSUME NEW l \in Seq(Characters), vga = Position(cursor) + Len(l), Stands(l)
      PROVE  \A k \in 1 .. Len(l) :
               Position(cursor) + k - 1 \notin ClockCells
                 => screen'[Position(cursor) + k - 1] = l[k]
  <2>1. PICK n \in Nat : n = Len(l)
    BY <1>7
  <2> DEFINE start == Position(cursor)
  <2>2. start \in VideoCells
    BY <1>1, CursorInVideo
  <2>3. /\ start \in Int /\ 0 <= start /\ vga = start + n
        /\ vga <= VideoRows * COLS - 1 /\ VideoRows * COLS \in Int
    BY <2>1, <2>2, <1>1, <1>7, SizeAssumption DEF VideoCells
  <2> HIDE DEF start
  <2>4. ASSUME NEW k \in 1 .. n, start + k - 1 \notin ClockCells
        PROVE  screen'[start + k - 1] = l[k]
    <3>1. start + k - 1 \in 0 .. VideoRows * COLS - 1
      BY <2>3
    <3>2. start + k - 1 \in VideoCells
      BY <3>1 DEF VideoCells
    <3>3. screen'[start + k - 1] = screen[start + k - 1]
      BY <3>2, <2>4, <1>2, Zenon
    <3>4. screen[start + k - 1] = l[k]
      BY <2>1, <2>4, <1>7, Zenon DEF Stands, start
    <3> QED
      BY <3>3, <3>4
  <2> QED
    BY <2>1, <2>4, Zenon DEF start
<1>e. ASSUME NEW l \in Seq(Characters), Echoed(l)
      PROVE  Echoed(l)'
  <2>1. vga = Position(cursor) + Len(l) /\ Stands(l)
    BY <1>e DEF Echoed
  <2>2. Stands(l)'
    BY <2>1, <1>7, <1>6, Zenon DEF Stands
  <2> QED
    BY <2>1, <2>2, <1>2, <1>6, Zenon DEF Echoed
<1>8. ASSUME Echoed(line)
      PROVE  Echoed(line)'
  <2>1. PICK l \in Seq(Characters) : l = line
    BY <1>1
  <2>2. Echoed(l)' /\ l = line'
    BY <2>1, <1>8, <1>e, <1>2
  <2> QED
    BY <2>2, Zenon DEF Echoed, Stands
<1>9. ASSUME line # <<>>, Echoed(Front(line))
      PROVE  Echoed(Front(line))'
  <2>1. PICK n \in Nat : n = Len(line)
    BY <1>1
  <2>2. n > 0
    BY <2>1, <1>9, <1>1, EmptySeq
  <2>3. Front(line) \in Seq(Characters)
    BY <2>1, <2>2, <1>1 DEF Front
  <2>4. Front(line)' = Front(line)
    BY <1>2, Zenon DEF Front
  <2>5. PICK l \in Seq(Characters) : l = Front(line)
    BY <2>3
  <2>6. Echoed(l)' /\ l = Front(line)'
    BY <2>4, <2>5, <1>9, <1>e
  <2> QED
    BY <2>6, Zenon DEF Echoed, Stands
<1>10. ASSUME NEW ch \in Characters, Echoed(Append(line, ch))
       PROVE  Echoed(Append(line, ch))'
  <2>1. Append(line, ch) \in Seq(Characters)
    BY <1>1
  <2>2. Append(line, ch)' = Append(line, ch)
    BY <1>2
  <2>3. PICK l \in Seq(Characters) : l = Append(line, ch)
    BY <2>1
  <2>4. Echoed(l)' /\ l = Append(line, ch)'
    BY <2>2, <2>3, <1>10, <1>e
  <2> QED
    BY <2>4, Zenon DEF Echoed, Stands
<1>11. ASSUME NEW ch \in Characters, EchoedWith(ch)
       PROVE  EchoedWith(ch)'
  <2>1. /\ ch = Null => Echoed(line)'
        /\ ch = Backspace /\ line # <<>> => Echoed(Front(line))'
        /\ ch \notin Controls => Echoed(Append(line, ch))'
    BY <1>8, <1>9, <1>10, <1>11, Zenon DEF EchoedWith
  <2> QED
    BY <2>1, <1>2, Zenon DEF EchoedWith
<1>12. CalmEcho'
  <2>1. keyboard_state.keyboard_buffer \in Characters
    BY <1>1 DEF KeyboardStates
  <2>2. EchoedWith(keyboard_state.keyboard_buffer)
          => EchoedWith(keyboard_state.keyboard_buffer)'
    <3>1. PICK ch \in Characters : ch = keyboard_state.keyboard_buffer
      BY <2>1
    <3>2. EchoedWith(keyboard_state.keyboard_buffer) => EchoedWith(ch)'
      BY <3>1, <1>11
    <3> QED
      BY <3>1, <3>2, <1>2, Zenon DEF EchoedWith
  <2>3. EchoedWith(keyboard_input) => EchoedWith(keyboard_input)'
    <3>1. PICK ch \in Characters : ch = keyboard_input
      BY <1>1
    <3>2. EchoedWith(keyboard_input) => EchoedWith(ch)'
      BY <3>1, <1>11
    <3> QED
      BY <3>1, <3>2, <1>2, Zenon DEF EchoedWith
  <2> QED
    BY <1>0, <1>2, <2>2, <2>3, Zenon DEF CalmEcho
<1> QED
  BY <1>0, <1>2, <1>4, <1>5, <1>12, Zenon DEF ConsoleInv

-----------------------------------------------------------------------------
(* The theorems *)

(***************************************************************************)
(* Before anything is printed.                                             *)
(***************************************************************************)
LEMMA InitInv ==
  ASSUME Init
  PROVE  ConsoleInv
<1>1. /\ screen = [c \in VideoCells |-> Null] /\ cursor = [row |-> 0, col |-> 0] /\ vga = 0
      /\ keyboard_state = [keyboard_input_on |-> FALSE, keyboard_buffer |-> Null]
      /\ isShift = FALSE /\ isCapsLock = FALSE /\ line = <<>> /\ keyboard_input = Null
      /\ calls = <<Activate>> \o print_terminal_text \o <<Clear>> \o print_terminal_text
      /\ pc = "poll" /\ calm = TRUE /\ fresh = FALSE
  BY Zenon DEF Init
<1>2. TypeOK
  <2>1. screen \in [VideoCells -> Glyphs] /\ keyboard_state \in KeyboardStates
    BY <1>1, ControlCharacters DEF KeyboardStates
  <2>2. cursor \in Cursors
    BY <1>1, SizeAssumption DEF Cursors
  <2>3. vga \in VideoCells
    <3>1. COLS \in Nat /\ COLS > 0 /\ VideoRows \in Nat /\ VideoRows > 0
      BY SizeAssumption
    <3>2. VideoRows * COLS > 0 /\ VideoRows * COLS \in Int
      BY <3>1
    <3>3. 0 \in 0 .. VideoRows * COLS - 1
      BY <3>2
    <3> QED
      BY <3>3, <1>1 DEF VideoCells
  <2>4. line \in Seq(Characters) /\ Len(line) < KEYBOARD_BUFFER_SIZE
    BY <1>1, SizeAssumption
  <2>5. /\ isShift \in BOOLEAN /\ isCapsLock \in BOOLEAN
        /\ keyboard_input \in Characters /\ pc \in {"poll", "input", "execute"}
    BY <1>1, ControlCharacters
  <2> QED
    BY <2>1, <2>2, <2>3, <2>4, <2>5, TypeParts, Zenon
<1>3. calls \in Seq(Syscalls) /\ calls # <<>> /\ calls[Len(calls)].op = "puts"
  <2>1. PICK s \in Seq(Syscalls) : s = print_terminal_text
    BY PromptCalls
  <2>2. PICK n \in Nat : n = Len(s)
    BY <2>1
  <2>3. n > 0 /\ s[n].op = "puts"
    BY <2>1, <2>2, PromptCalls, EmptySeq
  <2>4. PICK r \in Seq(Syscalls) : r = <<Activate>> \o s \o <<Clear>>
    <3>1. <<Activate>> \in Seq(Syscalls) /\ <<Clear>> \in Seq(Syscalls)
      BY PromptCalls
    <3>2. <<Activate>> \o s \in Seq(Syscalls)
      BY <3>1, ConcatProperties
    <3>3. <<Activate>> \o s \o <<Clear>> \in Seq(Syscalls)
      BY <3>1, <3>2, ConcatProperties
    <3> QED
      BY <3>3
  <2>5. PICK m \in Nat : m = Len(r)
    OBVIOUS
  <2>6. /\ r \o s \in Seq(Syscalls) /\ Len(r \o s) = m + n
        /\ \A i \in 1 .. m + n : (r \o s)[i] = IF i <= m THEN r[i] ELSE s[i - m]
    BY <2>2, <2>5, ConcatProperties
  <2>7. (r \o s)[m + n] = s[n]
    <3>1. m + n \in 1 .. m + n /\ ~(m + n <= m) /\ m + n - m = n
      BY <2>3
    <3> QED
      BY <3>1, <2>6
  <2>8. calls = r \o s
    BY <1>1, <2>1, <2>4
  <2>9. r \o s # <<>>
    BY <2>3, <2>6, EmptySeq
  <2> QED
    BY <2>3, <2>6, <2>7, <2>8, <2>9
<1>4. Prompting
  <2>1. pc # "input"
    BY <1>1
  <2> QED
    BY <2>1, <1>1, <1>3, Zenon DEF Prompting
<1>5. RoomInLine
  <2>1. Coming(keyboard_input) = 0 /\ Coming(keyboard_state.keyboard_buffer) = 0 /\ Len(line) = 0
    BY <1>1 DEF Coming, Controls
  <2>2. 0 + 0 + 0 < KEYBOARD_BUFFER_SIZE
    BY SizeAssumption
  <2> QED
    BY <2>1, <2>2, Zenon DEF RoomInLine
<1>6. EachKeyOnce
  BY <1>1 DEF EachKeyOnce
<1>7. CalmEcho
  BY <1>1, <1>3 DEF CalmEcho
<1> QED
  BY <1>1, <1>2, <1>4, <1>5, <1>6, <1>7 DEF ConsoleInv

(***************************************************************************)
(* What the interrupt, the shell and the clock do on one screen, in every  *)
(* order, keeps ConsoleInv.                                                *)
(***************************************************************************)
THEOREM ConsoleInvariant == Spec => []ConsoleInv
<1>1. Init => ConsoleInv
  BY InitInv
<1>2. ConsoleInv /\ [Next]_vars => ConsoleInv'
  <2> SUFFICES ASSUME ConsoleInv, [Next]_vars
               PROVE  ConsoleInv'
    OBVIOUS
  <2>1. ASSUME NEW scancode \in Scancodes, KeyPress(scancode)
        PROVE  ConsoleInv'
    BY <2>1, KeyPressInv
  <2>2. CASE syscall
    BY <2>2, SyscallInv
  <2>3. CASE get_keyboard_buffer
    BY <2>3, GetKeyInv
  <2>4. CASE HandleInput
    BY <2>4, HandleInputInv
  <2>5. CASE executeCommand
    BY <2>5, ExecuteInv
  <2>6. CASE FinishCommand
    BY <2>6, FinishInv
  <2>7. CASE ClockDraws
    BY <2>7, ClockDrawsInv
  <2>8. CASE UNCHANGED vars
    <3>1. UNCHANGED <<screen, cursor, vga, keyboard_state, isShift, isCapsLock, line,
                      keyboard_input, calls, pc, calm, fresh, hasty>>
      BY <2>8 DEF vars
    <3>2. TypeOK' /\ Prompting' /\ RoomInLine' /\ EachKeyOnce'
      BY <3>1, Zenon DEF ConsoleInv, TypeOK, Prompting, RoomInLine, Coming, EachKeyOnce
    <3>3. CalmEcho'
      BY <3>1, Zenon DEF ConsoleInv, CalmEcho, EchoedWith, Echoed, Stands, Position
    <3> QED
      BY <3>1, <3>2, <3>3, Zenon DEF ConsoleInv
  <2> QED
    BY <2>1, <2>2, <2>3, <2>4, <2>5, <2>6, <2>7, <2>8 DEF Next
<1> QED
  BY <1>1, <1>2, PTL DEF Spec

(***************************************************************************)
(* The cursor in memory never reaches the last row (framebuffer.c:50-75).  *)
(* That the visible one stays in the modelled rows, of which some are      *)
(* below the screen, and that the line fits its buffer is so because no    *)
(* key is pressed there is no room for (KeyPress): keyboard.c:180 and      *)
(* user-shell.c:1439 check neither.                                        *)
(***************************************************************************)
THEOREM ConsoleTypeCorrect == Spec => []TypeOK
<1>1. ConsoleInv => TypeOK
  BY DEF ConsoleInv
<1> QED
  BY <1>1, ConsoleInvariant, PTL

(***************************************************************************)
(* If every key of the line was pressed while the shell waited for it, the *)
(* screen shows the line the shell has, before the visible cursor          *)
(* (keyboard.c:122-191, user-shell.c:1414-1442).                           *)
(***************************************************************************)
THEOREM TheLineIsOnTheScreen == Spec => []EchoMatchesLine
<1>1. ConsoleInv => EchoMatchesLine
  <2> SUFFICES ASSUME ConsoleInv, Waiting, calm
               PROVE  /\ vga = Position(cursor) + Len(line)
                      /\ \A k \in 1 .. Len(line) :
                           Position(cursor) + k - 1 \notin ClockCells
                             => screen[Position(cursor) + k - 1] = line[k]
    BY Zenon DEF EchoMatchesLine
  <2>1. EchoedWith(Null)
    BY Zenon DEF ConsoleInv, CalmEcho, Waiting
  <2>2. Echoed(line)
    BY <2>1 DEF EchoedWith
  <2> QED
    BY <2>2, Zenon DEF Echoed, Stands
<1> QED
  BY <1>1, ConsoleInvariant, PTL

(***************************************************************************)
(* No key reaches the shell twice (keyboard.c:209-213).                    *)
(***************************************************************************)
THEOREM KeysAreTakenOnce == Spec => []EachKeyOnce
<1>1. ConsoleInv => EachKeyOnce
  BY DEF ConsoleInv
<1> QED
  BY <1>1, ConsoleInvariant, PTL

=============================================================================
