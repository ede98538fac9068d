------------------------------- MODULE Shell --------------------------------
(***************************************************************************)
(* What the shell makes of a line.  The kernel prints a number              *)
(* (terminal_printk.cpp); the user types a line, perhaps with that number   *)
(* in it; the interpreter splits it in place, finds the command, converts   *)
(* its arguments (misc.cpp) and calls the kernel (interpreter.cpp).         *)
(*                                                                          *)
(* A character is a string of one; the letters of a name are one character. *)
(***************************************************************************)
EXTENDS Integers, SequencesExt

CONSTANTS
    Word,           \* 2^32, one more than the largest u32
    HexDigits,      \* 8, the width of "%8x"
    PAGESIZE,
    MaxLineLen,     \* MAX_LINE_LEN
    NUL,
    Scribbles,      \* lines typed without a meaning
    Counts,         \* numbers below 10 that the user writes himself
    Leads           \* blanks that a line may start with

Digits == <<"0", "1", "2", "3", "4", "5", "6", "7", "8", "9",
            "a", "b", "c", "d", "e", "f">>
Uppers == <<"A", "B", "C", "D", "E", "F">>
Plain == {"help", "clear", "exit", "quit", "echo", "motd", "colortest", "trace"}
Dumped == {"int", "time", "sched", "cpus"}
Names == Plain \cup Dumped \cup {"log_level", "mem", "x", "status", "dump", "alloc", "free"}
Seps == {" ", "\t", "\n"}
Visible == Range(Digits) \cup Range(Uppers) \cup Names \cup {"/", "x", "X", "B", "i", "u"}
Chars == Visible \cup Seps \cup {NUL}
U32 == 0..(Word - 1)

ASSUME BoundAssumption ==
    /\ {Word, HexDigits, PAGESIZE, MaxLineLen} \subseteq Nat \ {0}
    /\ 9 * PAGESIZE < Word
    /\ NUL \notin Visible \cup Seps
ASSUME LineAssumption ==
    Scribbles \subseteq Seq(Chars) /\ Counts \subseteq 0..9 /\ Leads \subseteq Seq(Seps)

VARIABLES
    pc,             \* "prompt"; "divide", "pad", "digits"; "split", "exec", "done"
    out,            \* the locals of putuint_b and the text it has put out
    shown,          \* the last number on the screen: its value, its text, and
                    \* what atoi needs before that to know the base
    typed,          \* history: the line as it was typed
    meant,          \* history: the call that was meant, or Anything
    line, i, last, splits,      \* the locals of split, and buf
    call            \* what the command called

printVars == <<out, shown>>
lineVars == <<typed, meant, line, i, last, splits>>
vars == <<pc, printVars, lineVars, call>>

Call(fun, args) == [fun |-> fun, args |-> args]
(* What a command calls, x by the letter of its format, or says. *)
Called == Names \cup {"d", "i", "u", "c", "anything", "nothing", "usage"}
Anything == Call("anything", <<>>)
Nothing == Call("nothing", <<>>)
Usage == Call("usage", <<>>)
-----------------------------------------------------------------------------
(* The kernel prints a number *)

Prefix(base) == CASE base = 10 -> <<>> [] base = 16 -> <<"0", "x">> [] base = 2 -> <<"0", "b">>

(* "%u" and "%b"; "%x" and "%8x", bare or behind the 0x of the text or of "%p". *)
Formats == [base : {2, 10}, padding : {0}, prefix : {<<>>}]
           \cup [base : {16}, padding : {0, HexDigits}, prefix : {<<>>, Prefix(16)}]
Missing(f) == IF f.prefix = Prefix(f.base) THEN <<>> ELSE Prefix(f.base)

Unused == [nbr |-> 0, tmp |-> 0, l |-> 0, padding |-> 0, base |-> 10, text |-> <<>>]

PutUint(n, f) ==
    /\ pc = "prompt" /\ pc' = "divide"
    /\ out' = [nbr |-> n, tmp |-> n, l |-> 1, padding |-> f.padding,
               base |-> f.base, text |-> f.prefix]
    /\ shown' = [value |-> n, text |-> <<>>, before |-> Missing(f)]
    /\ UNCHANGED <<lineVars, call>>

(* Mutant of More: a digit is a number of at most base. *)
MoreThan == out.tmp > out.base
More == out.tmp >= out.base

Divide ==
    /\ pc = "divide" /\ UNCHANGED <<shown, lineVars, call>>
    /\ IF More
       THEN /\ out' = [out EXCEPT !.tmp = @ \div out.base, !.l = (@ * out.base) % Word,
                                  !.padding = @ - 1]
            /\ UNCHANGED pc
       ELSE pc' = "pad" /\ UNCHANGED out

Pad ==
    /\ pc = "pad" /\ UNCHANGED <<shown, lineVars, call>>
    /\ IF out.padding - 1 > 0
       THEN out' = [out EXCEPT !.padding = @ - 1, !.text = Append(@, "0")] /\ UNCHANGED pc
       ELSE out' = [out EXCEPT !.padding = @ - 1] /\ pc' = "digits"

Digit ==
    /\ pc = "digits" /\ out.l # 0
    /\ out' = [out EXCEPT !.text = Append(@, Digits[(out.nbr \div out.l) + 1]),
                          !.nbr = @ % out.l, !.l = @ \div out.base]
    /\ UNCHANGED <<pc, shown, lineVars, call>>

Printed ==
    /\ pc = "digits" /\ out.l = 0 /\ pc' = "prompt"
    /\ shown' = [shown EXCEPT !.text = out.text] /\ out' = Unused
    /\ UNCHANGED <<lineVars, call>>
-----------------------------------------------------------------------------
(* Strings and numbers *)

(* s[k] of a string that a 0 ends. *)
At(s, k) == IF k \in DOMAIN s THEN s[k] ELSE NUL
Until(s, Stops) ==
    IF \E k \in DOMAIN s : s[k] \in Stops
    THEN SubSeq(s, 1, SelectInSeq(s, LAMBDA c : c \in Stops) - 1)
    ELSE s

is_sep(c) == c \in Seps

(* is_digit_base *)
IsDigit(c, base) ==
    \/ \E k \in 1..base : Digits[k] = c
    \/ base = 16 /\ c \in Range(Uppers)

(* What atoi takes a digit for: is_lower is asked of the character as it is
   and to_lower of what '0' is taken from, so A counts 'a' - '0'. *)
Value(c) == IF c \in Range(Uppers) THEN 48 + CHOOSE k \in DOMAIN Uppers : Uppers[k] = c
            ELSE (CHOOSE k \in DOMAIN Digits : Digits[k] = c) - 1

BaseOf(s) == CASE At(s, 1) # "0" -> 10
               [] At(s, 1) = "0" /\ At(s, 2) \in {"x", "X"} -> 16
               [] At(s, 1) = "0" /\ At(s, 2) \in {"b", "B"} -> 2
               [] OTHER -> 8

(* The switch of atoi, whose cases fall through; mutant: they do not. *)
SkippedOnce(base) == IF base = 10 THEN 0 ELSE 1
Skipped(base) == IF base \in {2, 16} THEN 2 ELSE IF base = 8 THEN 1 ELSE 0

(* out * base + digit; mutant: in a wider type. *)
WiderStep(n, d, base) == n * base + d
NextOut(n, d, base) == (n * base + d) % Word

atoi(s) ==
    LET base == BaseOf(s)
        rest == SubSeq(s, Skipped(base) + 1, Len(s))
        digits == Until(rest, {c \in Chars : ~IsDigit(c, base)})
        read[k \in 0..Len(digits)] ==
            IF k = 0 THEN 0 ELSE NextOut(read[k - 1], Value(digits[k]), base)
    IN  read[Len(digits)]
-----------------------------------------------------------------------------
(* The user types a line *)

Ask(words, fun, args) == [words |-> words, call |-> Call(fun, args)]
Written(n) == <<Digits[n + 1]>>

(* Commands without a number. *)
Simple ==
    {Ask(<<<<c>>>>, IF c = "quit" THEN "exit" ELSE c, <<>>) : c \in Plain}
    \cup {Ask(<<<<c>>, <<"dump">>>>, c, <<>>) : c \in Dumped}
    \cup {Ask(<<<<"mem">>, <<"status">>>>, "status", <<>>), Ask(<<<<"mem">>, <<"dump">>>>, "dump", <<>>)}
    \cup {Ask(<<<<"log_level">>, Written(n)>>, "log_level", <<n>>) : n \in Counts \cap 0..7}

(* Commands about number n, written as s. *)
About(n, s) ==
    {Ask(<<<<"x">>, s>>, "x", <<1, n>>), Ask(<<<<"sched">>, <<"dump">>, s>>, "sched", <<n>>)}
    \cup {Ask(<<<<"x">>, <<"/", f>>, s>>, f, <<1, n>>) : f \in {"x", "d", "i", "u", "c"}}
    \cup {Ask(<<<<"x">>, <<"/">> \o Written(k), s>>, "x", <<k, n>>) : k \in Counts}
    \cup {Ask(<<<<"x">>, <<"/", "c">> \o Written(k), s>>, "c", <<k, n>>) : k \in Counts}
    \cup (IF n = 0 THEN {} ELSE
          {Ask(<<<<"mem">>, <<"dump">>, s>>, "dump", <<n>>)}
          \cup {Ask(<<<<"mem">>, <<"free">>, s, Written(k)>>, "free", <<n, k * PAGESIZE>>) :
                   k \in Counts \ {0}}
          \cup (IF n * PAGESIZE >= Word THEN {} ELSE
                {Ask(<<<<"mem">>, <<"alloc">>, s>>, "alloc", <<n * PAGESIZE>>)}))

(* A number is copied off the screen behind the prefix it was printed without,
   if any; or as it stands, for which atoi has another base. *)
Copied == IF shown.text = <<>> THEN {} ELSE About(shown.value, shown.before \o shown.text)
Bare == IF shown.text = <<>> \/ shown.before = <<>> THEN {} ELSE About(shown.value, shown.text)

Unseen == [value |-> 0, text |-> <<>>, before |-> <<>>]

Typing(text, what) ==
    /\ pc = "prompt" /\ pc' = "split"
    /\ text \in Seq(Chars) /\ Len(text) < MaxLineLen
    /\ typed' = text /\ line' = text /\ meant' = what
    /\ i' = 1 /\ last' = " " /\ splits' = <<>>
    /\ UNCHANGED <<out, call>>

Joined(words, lead) ==
    LET text[k \in 0..Len(words)] ==
            IF k = 0 THEN lead ELSE text[k - 1] \o words[k] \o <<" ">>
    IN  text[Len(words)] \o <<"\n">>

(* A number that is not copied scrolls off the screen. *)
TypeSimple(request, lead) ==
    Typing(Joined(request.words, lead), request.call) /\ shown' = Unseen
TypeCopied(request, lead) ==
    Typing(Joined(request.words, lead), request.call) /\ UNCHANGED shown
TypeBare(request, lead) ==
    Typing(Joined(request.words, lead), Anything) /\ UNCHANGED shown
Scribble(text) == Typing(text, Anything) /\ shown' = Unseen
-----------------------------------------------------------------------------
(* The interpreter splits the line *)

(* A word begins; mutants: what was before is looked up in the line, where it
   is cut; every character of a word begins one. *)
BeginsCut == ~is_sep(line[i]) /\ (i = 1 \/ is_sep(line[i - 1]))
BeginsEach == ~is_sep(line[i])
Begins == ~is_sep(line[i]) /\ is_sep(last)

SplitChar ==
    /\ pc = "split" /\ At(line, i) # NUL
    /\ line' = IF is_sep(line[i]) THEN [line EXCEPT ![i] = NUL] ELSE line
    /\ splits' = IF Begins THEN Append(splits, i) ELSE splits
    /\ i' = i + 1 /\ last' = line[i]
    /\ UNCHANGED <<pc, printVars, typed, meant, call>>

(* Also the first test of interpret: an empty line has no words. *)
SplitEnd ==
    /\ pc = "split" /\ At(line, i) = NUL
    /\ IF splits = <<>> THEN pc' = "done" /\ call' = Nothing
       ELSE pc' = "exec" /\ UNCHANGED call
    /\ UNCHANGED <<printVars, lineVars>>

(* The arguments that a command gets. *)
Args == [k \in DOMAIN splits |-> Until(SubSeq(line, splits[k], Len(line)), {NUL})]
-----------------------------------------------------------------------------
(* The commands, by what they call, of the arguments a *)

Has(a, k) == k \in DOMAIN a
Num(a, k) == atoi(a[k])
Says(a, word) == Has(a, 2) /\ a[2] = <<word>>

command_log_level(a) ==
    IF Has(a, 2) /\ \E n \in 0..7 : Digits[n + 1] = a[2][1]
    THEN Call("log_level", <<Value(a[2][1])>>) ELSE Nothing

(* free also converts both arguments before it asks whether there are any:
   where one is missing, atoi reads what is at address 0, and the number that
   it makes of that is dropped. *)
command_mem(a) ==
    CASE Says(a, "status") -> Call("status", <<>>)
      [] Says(a, "dump") /\ ~Has(a, 3) -> Call("dump", <<>>)
      [] Says(a, "dump") /\ Has(a, 3) /\ Num(a, 3) # 0 -> Call("dump", <<Num(a, 3)>>)
      [] Says(a, "alloc") /\ Has(a, 3) /\ Num(a, 3) # 0 ->
             Call("alloc", <<(Num(a, 3) * PAGESIZE) % Word>>)
      [] Says(a, "free") /\ Has(a, 4) /\ Num(a, 3) # 0 /\ Num(a, 4) # 0 ->
             Call("free", <<Num(a, 3), (Num(a, 4) * PAGESIZE) % Word>>)
      [] OTHER -> Usage

(* x /..., where param is what follows the slash: a call for each format. *)
Examine(param, address) ==
    LET lettered == At(param, 1) \in {"x", "d", "i", "u", "c"}
        count == IF lettered THEN Tail(param) ELSE param
    IN  IF lettered \/ (param # <<>> /\ IsDigit(param[1], 10))
        THEN Call(IF lettered THEN param[1] ELSE "x",
                  <<IF count = <<>> THEN 1 ELSE atoi(count), address>>)
        ELSE Usage

command_x(a) ==
    CASE ~Has(a, 2) -> Usage
      [] Has(a, 3) /\ a[2][1] = "/" -> Examine(Tail(a[2]), Num(a, 3))
      [] OTHER -> Call("x", <<1, Num(a, 2)>>)

(* command_int, command_time, command_cpus and command_sched *)
command_dump(a) ==
    CASE ~Says(a, "dump") -> Usage
      [] Says(a, "dump") /\ Has(a, 3) /\ a[1] = <<"sched">> -> Call("sched", <<Num(a, 3)>>)
      [] OTHER -> Call(a[1][1], <<>>)

exec_cmd(a) ==
    CASE \E c \in Plain : a[1] = <<c>> -> Call(IF a[1][1] = "quit" THEN "exit" ELSE a[1][1], <<>>)
      [] a[1] = <<"log_level">> -> command_log_level(a)
      [] a[1] = <<"mem">> -> command_mem(a)
      [] a[1] = <<"x">> -> command_x(a)
      [] \E c \in Dumped : a[1] = <<c>> -> command_dump(a)
      [] OTHER -> Nothing

Exec ==
    /\ pc = "exec" /\ pc' = "done"
    /\ call' = exec_cmd(Args)
    /\ UNCHANGED <<printVars, lineVars>>

(* The shell's loop goes round: what interpret had on its stack is gone. *)
Again ==
    /\ pc = "done" /\ pc' = "prompt"
    /\ typed' = <<>> /\ meant' = Anything
    /\ line' = <<>> /\ i' = 1 /\ last' = " " /\ splits' = <<>>
    /\ call' = Nothing
    /\ UNCHANGED printVars
-----------------------------------------------------------------------------
Init ==
    /\ pc = "prompt" /\ out = Unused /\ shown = Unseen
    /\ typed = <<>> /\ meant = Anything
    /\ line = <<>> /\ i = 1 /\ last = " " /\ splits = <<>>
    /\ call = Nothing

Next ==
    \/ \E n \in U32, f \in Formats : PutUint(n, f)
    \/ Divide \/ Pad \/ Digit \/ Printed
    \/ \E request \in Simple, lead \in Leads : TypeSimple(request, lead)
    \/ \E request \in Copied, lead \in Leads : TypeCopied(request, lead)
    \/ \E request \in Bare, lead \in Leads : TypeBare(request, lead)
    \/ \E text \in Scribbles : Scribble(text)
    \/ SplitChar \/ SplitEnd \/ Exec
    \/ Again

Spec == Init /\ [][Next]_vars
-----------------------------------------------------------------------------
(* Every local has its type. *)
TypeOK ==
    /\ pc \in {"prompt", "divide", "pad", "digits", "split", "exec", "done"}
    /\ out \in [nbr : U32, tmp : U32, l : U32, padding : Int, base : {2, 10, 16},
               text : Seq(Chars)]
    /\ shown \in [value : U32, text : Seq(Chars), before : Seq(Chars)]
    /\ {typed, line} \subseteq Seq(Chars) /\ last \in Chars
    /\ i \in 1..MaxLineLen /\ splits \in Seq(1..MaxLineLen)
    /\ {meant, call} \subseteq [fun : Called, args : Seq(U32)]

(* What the kernel prints it can be told again: whoever copies a number off the
   screen into a command has the call made that he meant, with that number, if
   it tells its base, as "%u" does and what stands behind 0x, or if he writes
   the 0x (0b) that is missing before it; a hexadecimal padded or not, and
   whatever blanks are around it (atoi, split and exec_cmd undo putuint_b and
   the typing).  Nothing is said of a bare number that is copied as it stands (the
   "%8x:" of x): atoi takes it for base 10, or for base 8 if it is padded. *)
CallIsMeant == pc = "done" /\ meant # Anything => call = meant

(* The words of a text: each begins at one of these places, behind a blank,
   and goes up to the next blank. *)
WordsAt(text, at, words) ==
    /\ Range(at) = {k \in DOMAIN text : ~is_sep(text[k]) /\ (k = 1 \/ is_sep(text[k - 1]))}
    /\ \A j, k \in DOMAIN at : j < k => at[j] < at[k]
    /\ words = [k \in DOMAIN at |-> Until(SubSeq(text, at[k], Len(text)), Seps)]

(* split, which cuts the line it reads, gives a command the words of the line
   as it was typed: none is lost, joined to another or cut, in any line. *)
WordsFound == pc = "exec" => WordsAt(Until(typed, {NUL}), splits, Args)

(* The array splits of interpret, MAX_LINE_LEN / 2 + 1 pointers, holds the
   words of any line that tread_line returns, and the 0 behind them. *)
ArgumentsFit == 2 * Len(splits) <= MaxLineLen
=============================================================================
