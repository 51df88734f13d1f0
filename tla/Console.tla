------------------------------ MODULE Console ------------------------------
(***************************************************************************)
(* The keyboard driver (keyboard.c) and the text terminal (tty.c) that its *)
(* interrupt handler and the kernel's tasks print to.                      *)
(*                                                                         *)
(* A task prints a character in up to three steps, the handler in one: it  *)
(* runs with interrupts off.  The demo tasks print with interrupts off as  *)
(* well (they come out of micro_sleep with IF clear, see                   *)
(* Scheduler!ScheduleUninterrupted), the self test with interrupts on:     *)
(* MaskedOutput.                                                           *)
(*                                                                         *)
(* The bytes a keyboard sends wait in a queue.  The handler reads the data *)
(* port twice, once for the scancode and once for the release bit; reading *)
(* takes a byte, and the second read gives the same byte again unless the  *)
(* next one has arrived by then (at once in QEMU, which queues bytes in    *)
(* the controller; a millisecond later over a wire).                       *)
(***************************************************************************)
EXTENDS Integers, Sequences, FiniteSets

CONSTANTS
    VGA_WIDTH, VGA_HEIGHT,   \* 80 and 25
    Width,                   \* size of size_t (2^32)
    Keys,                    \* the keys of the keyboard
    Prints,                  \* the characters tasks print
    MaxDown,                 \* bound: keys other than modifiers held down at once
    MaxQueue,                \* bound: bytes on their way
    MaskedOutput,            \* do tasks print with interrupts off?
    NONE

\* SC_E0 is what & 0x7F leaves of the prefix 0xE0.
Scancode == {"SC_A", "SC_F1", "SC_ENTER", "SC_BACKSPACE",
             "SC_LCTRL", "SC_LSHIFT", "SC_RSHIFT", "SC_LALT", "SC_E0"}
Byte == [scancode : Scancode, up : BOOLEAN]
\* The keys whose code follows a prefix, with that code.  FAKE_SHIFT is the shift
\* that keyboards send around PrintScreen and the grey keys.
Extended == [RCTRL |-> "SC_LCTRL", RALT |-> "SC_LALT", FAKE_SHIFT |-> "SC_LSHIFT"]
Char == {"a", "A", "glyph", "newline", "backspace"}

ASSUME ScreenAssumption ==
    /\ {VGA_WIDTH, VGA_HEIGHT} \subseteq Nat \ {0}
    /\ Width \in Nat /\ VGA_WIDTH * (VGA_HEIGHT + 1) < Width
    /\ MaxDown \in Nat /\ MaxQueue \in Nat
ASSUME KeyAssumption ==
    /\ Keys \subseteq (Scancode \ {"SC_E0"}) \cup DOMAIN Extended
    /\ Prints \subseteq Char
    /\ MaskedOutput \in BOOLEAN
    /\ NONE \notin Char \cup Byte

VARIABLES
    tty,             \* terminal_row, terminal_column, terminal_buffer
    CTRL_pressed, SHIFT_pressed, ALT_pressed,
    down,            \* the keys that are held down
    queue,           \* the bytes sent and not yet read
    stale,           \* the byte read last, if an interrupt is still to come for it
    pc, ch,          \* the task: where in terminal_putchar, with which character
    lines,           \* history: the text printed, its last VGA_HEIGHT + 1 lines
    stray,           \* history: was a character ever put outside the screen?
    crossed,         \* history: was there a backspace at the start of a line?
    doubt            \* history: the flags that two reads of different bytes left in doubt

modifiers == <<CTRL_pressed, SHIFT_pressed, ALT_pressed>>
history == <<lines, stray, crossed>>
keyboard == <<queue, stale, doubt>>
vars == <<tty, modifiers, down, keyboard, pc, ch, history>>

(***************************************************************************)
(* The terminal                                                            *)
(***************************************************************************)
Cell == 0 .. VGA_WIDTH * VGA_HEIGHT - 1
Blank == " "

Index(x, y) == (y * VGA_WIDTH + x) % Width

terminal_putentryat(buffer, c, x, y) ==
    [i \in Cell |-> IF i = Index(x, y) THEN c ELSE buffer[i]]

terminal_scroll(buffer) ==
    [i \in Cell |-> IF i + VGA_WIDTH \in Cell THEN buffer[i + VGA_WIDTH] ELSE buffer[i]]

\* Defect: the last line keeps its text.
delete_no_line(buffer) == buffer

terminal_delete_last_line(buffer) ==
    [i \in Cell |-> IF i + VGA_WIDTH \in Cell THEN buffer[i] ELSE Blank]

\* Defect: the end of the screen is looked for one row too late.
putchar_scroll_late(t) ==
    IF t.terminal_row = VGA_HEIGHT + 1
    THEN [t EXCEPT !.terminal_buffer = terminal_delete_last_line(terminal_scroll(@)),
                   !.terminal_row = VGA_HEIGHT - 1]
    ELSE t

\* terminal_putchar, in three parts: make room, put the character, wrap.
putchar_scroll(t) ==
    IF t.terminal_row = VGA_HEIGHT
    THEN [t EXCEPT !.terminal_buffer = terminal_delete_last_line(terminal_scroll(@)),
                   !.terminal_row = VGA_HEIGHT - 1]
    ELSE t

putchar_backspace(t) ==
    LET back == IF t.terminal_column # 0
                THEN [t EXCEPT !.terminal_column = @ - 1]
                ELSE [t EXCEPT !.terminal_row = (@ - 1) % Width,
                               !.terminal_column = VGA_WIDTH]
    IN  [back EXCEPT !.terminal_buffer =
            terminal_putentryat(@, Blank, back.terminal_column, back.terminal_row)]

putchar_put(t, c) ==
    CASE c = "newline" -> [t EXCEPT !.terminal_column = 0, !.terminal_row = (@ + 1) % Width]
      [] c = "backspace" -> putchar_backspace(t)
      [] OTHER -> [t EXCEPT !.terminal_buffer =
                               terminal_putentryat(@, c, t.terminal_column, t.terminal_row),
                            !.terminal_column = (@ + 1) % Width]

putchar_wrap(t, c) ==
    IF c \notin {"newline", "backspace"} /\ t.terminal_column = VGA_WIDTH
    THEN [t EXCEPT !.terminal_column = 0, !.terminal_row = (@ + 1) % Width]
    ELSE t

terminal_putchar(t, c) == putchar_wrap(putchar_put(putchar_scroll(t), c), c)

(***************************************************************************)
(* History: the text as lines, and whether t was left for the outside by   *)
(* putting c.                                                              *)
(***************************************************************************)
Keep(ls) == IF Len(ls) > VGA_HEIGHT + 1 THEN Tail(ls) ELSE ls

Write(ls, c) ==
    LET last == ls[Len(ls)]
        longer == Append(last, c)
        grown == [ls EXCEPT ![Len(ls)] = longer]
    IN  CASE c = "newline" -> Keep(Append(ls, << >>))
          [] c = "backspace" -> IF last = << >> THEN ls
                         ELSE [ls EXCEPT ![Len(ls)] = SubSeq(last, 1, Len(last) - 1)]
          [] OTHER -> IF Len(longer) = VGA_WIDTH THEN Keep(Append(grown, << >>)) ELSE grown

\* Where c is put when the terminal is t, after it made room.
PutAt(t, c) ==
    IF c = "backspace"
    THEN Index(putchar_backspace(t).terminal_column, putchar_backspace(t).terminal_row)
    ELSE Index(t.terminal_column, t.terminal_row)

Record(t, c) ==
    /\ lines' = Write(lines, c)
    /\ stray' = (stray \/ (c # "newline" /\ PutAt(t, c) \notin Cell))
    /\ crossed' = (crossed \/ (c = "backspace" /\ t.terminal_column = 0))

(***************************************************************************)
(* The keyboard                                                            *)
(***************************************************************************)
\* Keys without a character have codes near 2^32; %c prints their low byte.
lowercase == [SC_A |-> "a", SC_F1 |-> "glyph", SC_E0 |-> "glyph",
              SC_ENTER |-> "newline", SC_BACKSPACE |-> "backspace"]
uppercase == [SC_A |-> "A", SC_F1 |-> "glyph", SC_E0 |-> "glyph",
              SC_ENTER |-> "newline", SC_BACKSPACE |-> "backspace"]

Modifier == {"SC_LCTRL", "SC_LSHIFT", "SC_RSHIFT", "SC_LALT"}
Flag == {"CTRL", "SHIFT", "ALT"}
Codes == [CTRL |-> {"SC_LCTRL"}, SHIFT |-> {"SC_LSHIFT", "SC_RSHIFT"}, ALT |-> {"SC_LALT"}]

\* The other side of the wire: a key goes down, again when it is held, or up.
Bytes(key, up) ==
    IF key \in DOMAIN Extended
    THEN <<[scancode |-> "SC_E0", up |-> TRUE], [scancode |-> Extended[key], up |-> up]>>
    ELSE <<[scancode |-> key, up |-> up]>>

Send(bytes) ==
    /\ Len(queue) + Len(bytes) <= MaxQueue
    /\ queue' = queue \o bytes
    /\ stale' = NONE
    /\ UNCHANGED <<tty, modifiers, doubt, pc, ch, history>>

Press(key) == Send(Bytes(key, FALSE)) /\ down' = down \cup {key}

Release(key) == key \in down /\ Send(Bytes(key, TRUE)) /\ down' = down \ {key}

\* Defect: the release bit is taken for the pressed state.
modifier_inverted(scancode, press) ==
    /\ CTRL_pressed' = IF scancode = "SC_LCTRL" THEN press ELSE CTRL_pressed
    /\ SHIFT_pressed' = IF scancode \in {"SC_LSHIFT", "SC_RSHIFT"} THEN press ELSE SHIFT_pressed
    /\ ALT_pressed' = IF scancode = "SC_LALT" THEN press ELSE ALT_pressed

\* press is the release bit: set when the key goes up.
update_modifier_keys_state(scancode, press) ==
    /\ CTRL_pressed' = IF scancode = "SC_LCTRL" THEN ~press ELSE CTRL_pressed
    /\ SHIFT_pressed' = IF scancode \in {"SC_LSHIFT", "SC_RSHIFT"} THEN ~press ELSE SHIFT_pressed
    /\ ALT_pressed' = IF scancode = "SC_LALT" THEN ~press ELSE ALT_pressed

\* Called for a key that goes down and for one that goes up.
log_key_press(scancode) ==
    LET c == IF SHIFT_pressed THEN uppercase[scancode] ELSE lowercase[scancode]
    IN  tty' = terminal_putchar(tty, c) /\ Record(putchar_scroll(tty), c)

\* History: a flag is in doubt when one of the two bytes was about it and the other
\* was not, until a byte about it gives its release bit as well.
Doubtful(f, scancode, next) ==
    \/ scancode \in Codes[f] /\ next \notin Codes[f]
    \/ scancode \notin Codes[f] /\ (next \in Codes[f] \/ f \in doubt)

\* A byte that arrives requests an interrupt, also when the interrupt before has
\* read it; the handler then finds nothing new and reads the last byte again.
\* prompt: the next byte is there when the port is read for the second time.
irq_1_handler ==
    \E prompt \in {FALSE, Len(queue) > 1} :
        LET first == IF queue = << >> THEN stale ELSE queue[1]
            second == IF prompt THEN queue[2] ELSE first
        IN  /\ first # NONE
            /\ pc = "idle" \/ ~MaskedOutput
            /\ update_modifier_keys_state(first.scancode, second.up)
            /\ IF first.scancode \in Modifier
               THEN UNCHANGED <<tty, history>>
               ELSE log_key_press(first.scancode)
            /\ queue' = SubSeq(queue, IF prompt THEN 3 ELSE 2, Len(queue))
            /\ stale' = IF prompt /\ Len(queue) = 2 THEN second ELSE NONE
            /\ doubt' = {f \in Flag : Doubtful(f, first.scancode, second.scancode)}
            /\ UNCHANGED <<down, pc, ch>>

(***************************************************************************)
(* A task prints: printf calls terminal_write for one character at a time. *)
(***************************************************************************)
terminal_write(c) ==
    /\ pc = "idle"
    /\ ch' = c
    /\ pc' = "scroll"
    /\ UNCHANGED <<tty, modifiers, down, keyboard, history>>

write_scroll ==
    /\ pc = "scroll"
    /\ tty' = putchar_scroll(tty)
    /\ pc' = "put"
    /\ UNCHANGED <<modifiers, down, keyboard, ch, history>>

write_put ==
    /\ pc = "put"
    /\ tty' = putchar_put(tty, ch)
    /\ Record(tty, ch)
    /\ pc' = "wrap"
    /\ UNCHANGED <<modifiers, down, keyboard, ch>>

write_wrap ==
    /\ pc = "wrap"
    /\ tty' = putchar_wrap(tty, ch)
    /\ pc' = "idle" /\ ch' = NONE
    /\ UNCHANGED <<modifiers, down, keyboard, history>>

(***************************************************************************)
(* tty_init and keyboard_init                                              *)
(***************************************************************************)
tty_init ==
    tty = [terminal_row |-> 0, terminal_column |-> 0,
           terminal_buffer |-> [i \in Cell |-> Blank]]

keyboard_init == CTRL_pressed = FALSE /\ SHIFT_pressed = FALSE /\ ALT_pressed = FALSE

Init ==
    /\ tty_init /\ keyboard_init
    /\ down = {} /\ queue = << >> /\ stale = NONE /\ doubt = {}
    /\ pc = "idle" /\ ch = NONE
    /\ lines = << << >> >> /\ stray = FALSE /\ crossed = FALSE

ModifierKey == Modifier \cup DOMAIN Extended

\* Bound: after a backspace at the start of a line only modifier keys go on.
User ==
    \E key \in Keys :
        /\ key \in Modifier \/ ~crossed
        /\ \/ Cardinality((down \cup {key}) \ ModifierKey) <= MaxDown /\ Press(key)
           \/ Release(key)

Task ==
    \/ ~crossed /\ \E c \in Prints : terminal_write(c)
    \/ write_scroll \/ write_put \/ write_wrap

Next == User \/ irq_1_handler \/ Task

Spec == Init /\ [][Next]_vars

(***************************************************************************)
(* Properties.  A backspace at the start of a line moves the cursor off    *)
(* the screen; those about the screen are stated until one was printed.    *)
(***************************************************************************)
\* Every variable has its type.
TypeOK ==
    /\ tty.terminal_row \in 0 .. Width - 1 /\ tty.terminal_column \in 0 .. Width - 1
    /\ tty.terminal_buffer \in [Cell -> Char \cup {Blank}]
    /\ {CTRL_pressed, SHIFT_pressed, ALT_pressed} \subseteq BOOLEAN
    /\ down \subseteq Keys
    /\ queue \in Seq(Byte) /\ Len(queue) <= MaxQueue /\ stale \in Byte \cup {NONE}
    /\ doubt \subseteq Flag
    /\ pc \in {"idle", "scroll", "put", "wrap"} /\ ch \in Prints \cup {NONE}
    /\ stray \in BOOLEAN /\ crossed \in BOOLEAN

\* The tests for the end of a row and of the screen are equalities, so a cursor
\* that ever passed them would leave the screen for good.  It never does, and no
\* character is put outside the screen, however whole characters of keys and output
\* follow one another.
CursorOnScreen ==
    ~crossed =>
        /\ ~stray
        /\ tty.terminal_row <= VGA_HEIGHT
        /\ tty.terminal_column <= VGA_WIDTH
        /\ pc = "idle" => tty.terminal_column < VGA_WIDTH
        /\ tty.terminal_row = VGA_HEIGHT => tty.terminal_column = 0

\* Between characters the screen shows the end of the text that was printed:
\* wrapped at the width, scrolled when the cursor is below the last row, with
\* nothing of the lines that scrolled away and nothing behind the cursor.
ScreenIsTail ==
    (pc = "idle" /\ ~crossed) =>
        LET n == Len(lines)
            r == tty.terminal_row
            Shown(x, y) ==
                IF y <= r /\ x < Len(lines[n - r + y]) THEN lines[n - r + y][x + 1] ELSE Blank
        IN  /\ r < n
            /\ tty.terminal_column = Len(lines[n])
            /\ \A x \in 0 .. VGA_WIDTH - 1, y \in 0 .. VGA_HEIGHT - 1 :
                tty.terminal_buffer[Index(x, y)] = Shown(x, y)

\* Once all bytes are handled, no modifier is left on when its keys are up, whatever
\* was pressed, held and released together; right Ctrl, right Alt and the shift around
\* PrintScreen set the flags of the left keys.  Only a flag in doubt can be wrong: the
\* handler took the release bit of the next byte for its own, or lost its byte.  It
\* stays wrong no longer than until both reads give a byte about it.
ModifiersTrack ==
    queue = << >> =>
        /\ CTRL_pressed => "CTRL" \in doubt \/ {"SC_LCTRL", "RCTRL"} \cap down # {}
        /\ ALT_pressed => "ALT" \in doubt \/ {"SC_LALT", "RALT"} \cap down # {}
        /\ SHIFT_pressed =>
            "SHIFT" \in doubt \/ {"SC_LSHIFT", "SC_RSHIFT", "FAKE_SHIFT"} \cap down # {}
=============================================================================
