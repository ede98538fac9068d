------------------------------ MODULE Console -------------------------------
(***************************************************************************)
(* The terminal, terminal.cpp: the keyboard's interrupt puts scancodes into *)
(* a ring, from which the one task that reads, the shell, takes them with   *)
(* no lock, keeps the modifier keys, edits a line and echoes it.  The       *)
(* screen is a cache of cells, copied to the VGA memory as a whole.         *)
(*                                                                          *)
(* The interrupt may come at any step of the shell.  It touches only the    *)
(* ring, so what the shell does between two accesses of the ring is one     *)
(* step.  The handler is one step too while its stub's pop_ints closes the  *)
(* gate.  Once idle has raised the interrupt count it does not, and an      *)
(* interrupt may suspend the handler anywhere: another of the keyboard, or  *)
(* a tick after which the shell runs on.  A cell holds a character; colours *)
(* are left out.                                                            *)
(***************************************************************************)
EXTENDS Integers, Sequences

CONSTANTS
    Keys,           \* keys of the keyboard
    Modifiers,      \* ctrl, (left) shift and alt
    kbdus,          \* kbdus[k]: the character of a key, NUL for many
    uppercase,      \* uppercase[c]: the character with shift, or NUL
    NUL, BS,        \* the characters 0 and backspace
    Size,           \* KEYBOARD_BUFFER_SIZE
    VGA_WIDTH, VGA_HEIGHT,
    MaxLineLen,     \* MAX_LINE_LEN
    CursorCell,     \* what update_cursor paints
    NoCode,         \* no scancode read
    ZeroCode,       \* the scancode 0, which no key gives
    Handlers,       \* bound of the model: handlers suspended at once
    MaxTyped,       \* bound of the model: interrupts of the keyboard
    MaxTorn,        \* bound of the model: of these, once torn
    MaxPrinted      \* bound of the model: characters that commands print

Codes == Keys \X BOOLEAN        \* a key, and whether it went down
Places == 0..(Size - 1)
Cells == 0..(VGA_WIDTH * VGA_HEIGHT - 1)
Chars == {kbdus[k] : k \in Keys} \cup {uppercase[c] : c \in DOMAIN uppercase}
             \cup {NUL, " ", ">", "o"}

ASSUME SizeAssumption == Size \in Nat /\ Size > 1
ASSUME CodeAssumption == NoCode \notin Codes /\ ZeroCode \in Codes
ASSUME ScreenAssumption ==
    /\ {VGA_WIDTH, VGA_HEIGHT} \subseteq Nat \ {0}
    /\ MaxLineLen \in Nat \ {0} /\ {MaxTyped, MaxTorn, MaxPrinted} \subseteq Nat
    /\ Modifiers \subseteq Keys /\ CursorCell \notin Chars

VARIABLES
    buffer, rindex, windex,     \* kbd_buf
    pc,             \* the shell's: "print", "wait", "get" or "got"
    code,           \* c in get_scancode
    flags,          \* modifiers that the terminal takes to be down
    line,           \* buf of tread_line, as far as it is filled
    scr,            \* x, y and cache_buffer
    vga,            \* vga_buffer
    open,           \* interrupts_semaphore is at 2 or more
    frame,          \* the handlers that are suspended
    held,           \* keys that are down
    overrun,        \* history: keys were lost
    torn,           \* history: a handler was suspended where it matters
    typed, printed  \* bounded counts

ringVars == <<buffer, rindex, windex>>
gateVars == <<open, frame>>
kbdVars == <<gateVars, held, overrun, torn, typed>>
lineVars == <<flags, line, scr, vga, printed>>
vars == <<ringVars, pc, code, lineVars, kbdVars>>

-----------------------------------------------------------------------------
(* The ring *)

Succ(i) == IF i = Size - 1 THEN 0 ELSE i + 1     \* (i + 1) % KEYBOARD_BUFFER_SIZE

(* kbd_buf::available; mutant: a ring that has wrapped looks empty. *)
availableAbove == rindex < windex
available == rindex # windex

put(c) ==
    /\ buffer' = [buffer EXCEPT ![windex] = c]
    /\ windex' = Succ(windex)

(* The scancodes of ring B from r on up to w, of which there are at least so many. *)
Ahead(r, w, least) == IF w - r < least THEN w - r + Size ELSE w - r
Unread(B, r, n) ==
    [k \in 1..n |-> B[IF r + k - 1 < Size THEN r + k - 1 ELSE r + k - 1 - Size]]

(* Those that are not read yet.  Between the read of a scancode and the move
   of rindex, the one at rindex is not among them; and a reader that has seen
   one would take a ring with rindex = windex for full. *)
From == IF pc = "got" THEN Succ(rindex) ELSE rindex
Least == IF pc = "get" THEN 1 ELSE 0
Pending == Unread(buffer, From, Ahead(From, windex, Least))

Promise == INSTANCE KeyQueue WITH queue <- Pending, looked <- (pc = "get"), hand <- code,
                                  void <- torn
-----------------------------------------------------------------------------
(* The interrupt *)

(* at is the instruction that a suspended handler goes on with: put as a
   whole, behind inb(0x60), or within it the store to buffer[i], the load of
   windex or the store of i to windex. *)
NoFrame == [at |-> "none", c |-> NoCode, i |-> 0]
Suspended == {h \in Handlers : frame[h] # NoFrame}

(* Key k goes down (again, while it is held) or up.  The controller has the
   next scancode only after the one before was read. *)
Keystroke(k, down) ==
    /\ typed < MaxTyped /\ typed' = typed + 1
    /\ down \/ k \in held
    /\ held' = IF down THEN held \cup {k} ELSE held \ {k}
    /\ torn' = (torn \/ Suspended # {})
    /\ torn' => typed' <= MaxTorn
    /\ UNCHANGED <<rindex, open, pc, code, lineVars>>

Store(c) == put(c) /\ overrun' = (overrun \/ Len(Pending) = Promise!Room)

(* The handler, from the stub to its iret. *)
KeyboardInterrupt(k, down) ==
    Keystroke(k, down) /\ Store(<<k, down>>) /\ UNCHANGED frame

(* The handler up to inb(0x60), behind which it is suspended. *)
ReadScancode(h, k, down) ==
    /\ open /\ frame[h] = NoFrame
    /\ Keystroke(k, down)
    /\ frame' = [frame EXCEPT ![h] = [at |-> "put", c |-> <<k, down>>, i |-> 0]]
    /\ UNCHANGED <<buffer, windex, overrun>>

Continue(h, from, next) ==
    /\ frame[h].at = from
    /\ frame' = [frame EXCEPT ![h] = next]
    /\ UNCHANGED <<rindex, open, pc, code, lineVars, held, typed>>

(* The rest of a suspended handler. *)
Resume(h) == Continue(h, "put", NoFrame) /\ Store(frame[h].c) /\ UNCHANGED torn

(* put, suspended once more between its loads and stores of windex. *)
LoadPlace(h) ==
    /\ Continue(h, "put", [frame[h] EXCEPT !.at = "store", !.i = windex])
    /\ torn' = TRUE /\ typed <= MaxTorn
    /\ UNCHANGED <<buffer, windex, overrun>>
StoreScancode(h) ==
    /\ Continue(h, "store", [frame[h] EXCEPT !.at = "load"])
    /\ buffer' = [buffer EXCEPT ![frame[h].i] = frame[h].c]
    /\ UNCHANGED <<windex, overrun, torn>>
LoadIndex(h) ==
    /\ Continue(h, "load", [frame[h] EXCEPT !.at = "move", !.i = Succ(windex)])
    /\ UNCHANGED <<buffer, windex, overrun, torn>>
StoreIndex(h) ==
    /\ Continue(h, "move", NoFrame)
    /\ windex' = frame[h].i
    /\ UNCHANGED <<buffer, overrun, torn>>

Handler(h) == Resume(h) \/ LoadPlace(h) \/ StoreScancode(h) \/ LoadIndex(h) \/ StoreIndex(h)
-----------------------------------------------------------------------------
(* The screen *)

Pos(s) == s.y * VGA_WIDTH + s.x
Blank == [p \in Cells |-> " "]
Cleared == [x |-> 0, y |-> 0, cache |-> Blank]

(* tcur_scroll *)
Scrolled(cache) ==
    [p \in Cells |-> IF p + VGA_WIDTH \in Cells THEN cache[p + VGA_WIDTH] ELSE " "]

(* tcur_nextl, tcur_next; mutant: the last column is passed. *)
NextLine(s) ==
    IF s.y < VGA_HEIGHT - 1
    THEN [s EXCEPT !.x = 0, !.y = @ + 1]
    ELSE [s EXCEPT !.x = 0, !.cache = Scrolled(@)]
NextCellLate(s) == IF s.x < VGA_WIDTH THEN [s EXCEPT !.x = @ + 1] ELSE NextLine(s)
NextCell(s) == IF s.x < VGA_WIDTH - 1 THEN [s EXCEPT !.x = @ + 1] ELSE NextLine(s)

(* tputc_noup *)
tputc(s, c) == IF c = "\n" THEN NextLine(s) ELSE NextCell([s EXCEPT !.cache[Pos(s)] = c])

(* The branch of tread_line for a backspace; mutant: in column 0 the cursor
   goes to the end of its own row. *)
BackInRow(s) ==
    LET moved == IF s.x > 0 THEN [s EXCEPT !.x = @ - 1] ELSE [s EXCEPT !.x = VGA_WIDTH - 1]
    IN  [moved EXCEPT !.cache[Pos(moved)] = " "]
Backspace(s) ==
    LET moved == IF s.x > 0 THEN [s EXCEPT !.x = @ - 1]
                 ELSE IF s.y > 0 THEN [s EXCEPT !.x = VGA_WIDTH - 1, !.y = @ - 1]
                 ELSE s
    IN  [moved EXCEPT !.cache[Pos(moved)] = " "]

(* update_vga_buffer, and update_cursor at the next getchar.  Mutant: nothing
   but the cursor is refreshed. *)
WithCursor(s) == [s.cache EXCEPT ![Pos(s)] = CursorCell]

ShowCursor(s) == scr' = s /\ vga' = [vga EXCEPT ![Pos(s)] = CursorCell]
Show(s) == scr' = s /\ vga' = WithCursor(s)
-----------------------------------------------------------------------------
(* shell, tread_line, getchar, get_scancode *)

Init ==
    /\ buffer \in [Places -> {ZeroCode}] /\ rindex = 0 /\ windex = 0
    /\ pc = "print" /\ code = NoCode
    /\ flags = {} /\ line = <<>>
    /\ scr = Cleared /\ vga = Blank
    /\ open = FALSE /\ frame = [h \in Handlers |-> NoFrame] /\ torn = FALSE
    /\ held = {} /\ overrun = FALSE /\ typed = 0 /\ printed = 0

(* A command prints a character: printk copies the cache; echo does not, it
   paints the cursor after its newline. *)
PutChar(c, copied) ==
    /\ pc = "print" /\ printed < MaxPrinted /\ printed' = printed + 1
    /\ scr' = tputc(scr, c)
    /\ vga' = IF copied THEN scr'.cache
              ELSE IF c = "\n" THEN [vga EXCEPT ![Pos(scr')] = CursorCell]
              ELSE vga
    /\ UNCHANGED <<ringVars, pc, code, flags, line, kbdVars>>

(* command_clear *)
Clear ==
    /\ pc = "print" /\ scr # Cleared
    /\ scr' = Cleared /\ vga' = Blank
    /\ UNCHANGED <<ringVars, pc, code, flags, line, printed, kbdVars>>

(* shell: the prompt, and the start of tread_line *)
Prompt ==
    /\ pc = "print" /\ pc' = IF MaxLineLen > 1 THEN "wait" ELSE "print"
    /\ line' = <<>>
    /\ Show(tputc(tputc(scr, ">"), " "))
    /\ printed' = 0
    /\ UNCHANGED <<ringVars, code, flags, kbdVars>>

(* while (!kb.available()) sleep(1), when every other task sleeps too: the shell
   comes back from idle with the count raised (sched_idle, of Scheduler). *)
Idle ==
    /\ pc = "wait" /\ ~available /\ ~open
    /\ open' = TRUE
    /\ UNCHANGED <<ringVars, pc, code, lineVars, frame, held, overrun, torn, typed>>

(* The loop ends.  Mutant: the ring is not looked at. *)
LookNot == pc = "wait" /\ pc' = "get" /\ UNCHANGED <<ringVars, code, lineVars, kbdVars>>
Look ==
    /\ pc = "wait" /\ available
    /\ pc' = "get"
    /\ UNCHANGED <<ringVars, code, lineVars, kbdVars>>

(* kbd_buf::get, up to the move of rindex *)
Get ==
    /\ pc = "get" /\ pc' = "got"
    /\ code' = buffer[rindex]
    /\ UNCHANGED <<ringVars, lineVars, kbdVars>>

Key == code[1]
Down == code[2]

(* rindex moves, and the scancode is dealt with. *)
Got(next) ==
    /\ pc = "got" /\ pc' = next
    /\ rindex' = Succ(rindex) /\ code' = NoCode
    /\ UNCHANGED <<buffer, windex, printed, kbdVars>>

(* Mutant of GetModifier: a release is skipped, as those of other keys are. *)
PressOnly ==
    /\ Got("wait") /\ Key \in Modifiers
    /\ flags' = IF Down THEN flags \cup {Key} ELSE flags
    /\ UNCHANGED <<line, scr, vga>>
GetModifier ==
    /\ Got("wait") /\ Key \in Modifiers
    /\ flags' = IF Down THEN flags \cup {Key} ELSE flags \ {Key}
    /\ UNCHANGED <<line, scr, vga>>

GetRelease ==
    /\ Got("wait") /\ Key \notin Modifiers /\ ~Down
    /\ UNCHANGED <<flags, line, scr, vga>>

(* getchar: k.asc *)
Asc ==
    LET c == kbdus[Key] IN
    IF "shift" \in flags /\ c \in DOMAIN uppercase THEN uppercase[c] ELSE c

IsBind == "ctrl" \in flags /\ Asc = "l"
Pressed == Key \notin Modifiers /\ Down

(* check_binds: ctrl-l clears the screen, and leaves the line. *)
GetBind ==
    /\ Got("wait") /\ Pressed /\ IsBind
    /\ Show(Cleared)
    /\ UNCHANGED <<flags, line>>

GetBackspace ==
    /\ Got("wait") /\ Pressed /\ ~IsBind /\ Asc = BS
    /\ IF line # <<>>
       THEN line' = SubSeq(line, 1, Len(line) - 1) /\ Show(Backspace(scr))
       ELSE UNCHANGED <<line, scr, vga>>
    /\ UNCHANGED flags

(* A character of the line; tread_line ends at a newline and when buf is full,
   before the next getchar. *)
Echoed == IF Asc = "\t" THEN " " ELSE Asc
Ended == Echoed = "\n" \/ Len(line) + 1 = MaxLineLen - 1

GetChar ==
    /\ Got(IF Ended THEN "print" ELSE "wait")
    /\ Pressed /\ ~IsBind /\ Asc # BS
    /\ line' = Append(line, Echoed)
    /\ IF Ended THEN scr' = tputc(scr, Echoed) /\ vga' = scr'.cache
                ELSE Show(tputc(scr, Echoed))
    /\ UNCHANGED flags

Handle == GetModifier \/ GetRelease \/ GetBind \/ GetBackspace \/ GetChar

Shell == Prompt \/ Look \/ Get \/ Handle

Next ==
    \/ \E k \in Keys, down \in BOOLEAN :
           /\ k # ZeroCode[1]
           /\ KeyboardInterrupt(k, down) \/ \E h \in Handlers : ReadScancode(h, k, down)
    \/ \E h \in Handlers : Handler(h)
    \/ \E c \in {"o", "\n"}, copied \in BOOLEAN : PutChar(c, copied)
    \/ Clear \/ Idle
    \/ Shell

(* The shell's task is served (EveryTaskServed, EverySleepEnds of Scheduler) and
   commands end, while idle has not run.  Once it has, nothing is assumed: a
   tick may spin on sched.lock for ever. *)
Spec == Init /\ [][Next]_vars /\ WF_vars(~open /\ Shell)
-----------------------------------------------------------------------------
(* Properties *)

TypeOK ==
    /\ buffer \in [Places -> Codes]
    /\ rindex \in Places /\ windex \in Places
    /\ pc \in {"print", "wait", "get", "got"} /\ code \in Codes \cup {NoCode}
    /\ flags \subseteq Modifiers /\ held \subseteq Keys
    /\ line \in Seq(Chars) /\ Len(line) < MaxLineLen
    /\ scr \in [x : 0..(VGA_WIDTH - 1), y : 0..(VGA_HEIGHT - 1), cache : [Cells -> Chars]]
    /\ vga \in [Cells -> Chars \cup {CursorCell}]
    /\ open \in BOOLEAN /\ torn \in BOOLEAN
    /\ frame \in [Handlers -> [at : {"none", "put", "store", "load", "move"},
                               c : Codes \cup {NoCode}, i : Places]]
    /\ overrun \in BOOLEAN /\ typed \in 0..MaxTyped /\ printed \in 0..MaxPrinted

(* Without a lock, every scancode is read once and in order, whenever the
   interrupt comes, until the ring overruns; what is lost then is what
   KeyQueue says, the whole ring, and nothing that was read comes back.  This
   also holds with the gate left open, where the shell may run while a handler
   is suspended, up to the first interrupt of the keyboard inside a handler or
   the first interrupt of any kind inside put. *)
KeyQueueKept == Promise!Spec

(* A modifier is taken to be down exactly when it is, once everything typed
   has been put and read, unless a release (or a press) was lost in an overrun,
   or in a handler that was suspended where KeyQueueKept does not hold. *)
ModifiersTrue ==
    pc \notin {"get", "got"} /\ rindex = windex /\ Suspended = {} /\ ~overrun /\ ~torn =>
        flags = held \cap Modifiers

(* The line being edited is on the screen, left of the cursor, across row
   ends, scrolls and backspaces; ctrl-l only takes its beginning away. *)
LineOnScreen ==
    pc # "print" =>
        \A k \in 1..Len(line) : Pos(scr) - k \in Cells =>
            scr.cache[Pos(scr) - k] = line[Len(line) + 1 - k]

(* While the shell waits for a key, the display shows every cell of the cache
   and the cursor, whatever was printed without a copy before. *)
ScreenTrue == pc # "print" => vga = WithCursor(scr)

(* Each scancode is taken in its turn: the n-th to be typed is, at the latest,
   the n-th that get_scancode takes, unless an overrun came before it; as long
   as the shell's task is served, which is said only up to the first idle. *)
Taken == typed - Len(Pending)
EveryKeyRead ==
    \A n \in 1..MaxTyped : typed >= n ~> Taken >= n \/ overrun \/ open
=============================================================================
