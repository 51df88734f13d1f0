-------------------------------- MODULE Libc --------------------------------
(***************************************************************************)
(* The kernel's C library: vprintf with its number conversions (stdio/),   *)
(* and the functions on bytes and strings (string/).  One call runs at a   *)
(* time, one action is one turn of its loop; the inputs are chosen when    *)
(* the call, or the directive that fetches them, begins.                   *)
(*                                                                         *)
(* Of the text only its length counts, of a number its digits.  Integers   *)
(* keep their width.  putchar() cannot fail, so neither does __print.      *)
(***************************************************************************)
EXTENDS Integers, Sequences, SequencesExt

CONSTANTS
    NULL,
    IntBits, LongBits,    \* width of int (32) and of long long (64)
    Formats,              \* format strings, as sequences of directives
    Texts,                \* lengths of %s arguments
    TextLen,              \* length of a run of plain text in a format
    Cells,                \* bound: the memory is cells 1..Cells
    Bytes                 \* values of an unsigned char, 0 the end of a string

INT_MAX == 2 ^ (IntBits - 1) - 1
INT_MIN == -(2 ^ (IntBits - 1))
EOVERFLOW == 75

ASSUME WidthAssumption == IntBits \in 8 .. LongBits /\ LongBits \in Nat
Directives == {"text", "%%", "c", "s", "d", "u", "x", "lld", "llu", "ll", "unknown"}

ASSUME FormatAssumption ==
    /\ Formats \subseteq Seq(Directives)
    /\ \A f \in Formats : \A k \in 2 .. Len(f) :
        f[k] = "text" => f[k - 1] \notin {"text", "%%"}
    /\ Texts \subseteq Nat /\ TextLen \in Nat \ {0}
ASSUME MemoryAssumption == Cells \in Nat /\ Bytes \in Nat \ {0}

VARIABLES
    pc,
    format,                 \* what is left of the format string
    written,                \* vprintf's local: the count it will return
    arg, value, isNegative, base, buffer,  \* a conversion: argument, state, digits
    result,                 \* what vprintf returned
    printed,                \* history: characters handed to putchar
    mem, i,                 \* the memory, the loop index
    call,                   \* the string function's arguments, and mem before
    ret                     \* what it returned

number == <<arg, value, isNegative, base, buffer>>
stdio == <<format, written, number, result, printed>>
string == <<mem, i, call, ret>>
vars == <<pc, stdio, string>>

(***************************************************************************)
(* vprintf                                                                 *)
(***************************************************************************)
\* Characters of a format: a directive is its letters and the %.
SourceLen(directive) ==
    CASE directive = "text" -> TextLen
      [] directive = "%%" -> TextLen + 1
      [] directive \in {"lld", "llu"} -> 4
      [] directive = "ll" -> 3
      [] OTHER -> 2
FormatLen(f) ==
    LET upto[k \in 0 .. Len(f)] == IF k = 0 THEN 0 ELSE upto[k - 1] + SourceLen(f[k])
    IN  upto[Len(f)]

vprintf(f) ==
    /\ pc = "idle"
    /\ pc' = "vprintf"
    /\ format' = f
    /\ UNCHANGED <<written, number, result, printed, string>>

\* Defect: there is no check that the count still fits.
append_unchecked(len, rest) ==
    /\ printed' = printed + len
    /\ written' = (written + len) % (INT_MAX + 1)
    /\ format' = rest
    /\ pc' = "vprintf"
    /\ UNCHANGED result

\* Print len characters and go on with the rest of the format, or give up when
\* the count would not fit.
append(len, rest) ==
    IF INT_MAX - written < len
    THEN pc' = "returned" /\ result' = EOVERFLOW /\ UNCHANGED <<format, written, printed>>
    ELSE /\ printed' = printed + len
         /\ written' = written + len
         /\ format' = rest
         /\ pc' = "vprintf"
         /\ UNCHANGED result

At(directives) == pc = "vprintf" /\ format # << >> /\ Head(format) \in directives

\* Plain text up to the next %; it may begin with the second % of %%.
text ==
    /\ At({"text", "%%"})
    /\ append(TextLen, Tail(format))
    /\ UNCHANGED <<number, string>>

char ==
    /\ At({"c"})
    /\ append(1, Tail(format))
    /\ UNCHANGED <<number, string>>

str(len) ==
    /\ At({"s"})
    /\ append(len, Tail(format))
    /\ UNCHANGED <<number, string>>

\* %ll without u or d: dropped, with nothing printed and no argument fetched.
long_other ==
    /\ At({"ll"})
    /\ format' = Tail(format)
    /\ UNCHANGED <<pc, written, number, result, printed, string>>

\* An unknown directive, or %l: the rest of the format is printed as it stands.
unknown ==
    /\ At({"unknown"})
    /\ append(FormatLen(format), << >>)
    /\ UNCHANGED <<number, string>>

vprintf_return ==
    /\ pc = "vprintf" /\ format = << >>
    /\ pc' = "returned"
    /\ result' = written
    /\ UNCHANGED <<format, written, number, printed, string>>

(***************************************************************************)
(* The number conversions.  Each makes the digits from the last to the     *)
(* first and then turns the buffer round.                                  *)
(***************************************************************************)
Convert(v, magnitude, negative, b) ==
    /\ pc' = "digits"
    /\ arg' = v /\ value' = magnitude /\ isNegative' = negative /\ base' = b
    /\ buffer' = << >>
    /\ UNCHANGED <<format, written, result, printed, string>>

utoa(v) == At({"u"}) /\ v < 2 ^ IntBits /\ Convert(v, v, FALSE, 10)
utoa_hex(v) == At({"x"}) /\ v < 2 ^ IntBits /\ Convert(v, v, FALSE, 16)
ulltoa(v) == At({"llu"}) /\ Convert(v, v, FALSE, 10)

\* Defect: the 1 that kept the negation in range is not added again.
lltoa_short(v) ==
    /\ At({"lld"})
    /\ Convert(v, IF v < 0 THEN -(v + 1) ELSE v, v < 0, 10)

\* The magnitude of a negative number, formed without leaving the type's range.
lltoa(v) ==
    /\ At({"lld"})
    /\ Convert(v, IF v < 0 THEN (-(v + 1)) + 1 ELSE v, v < 0, 10)

\* num = -num overflows for INT_MIN: the value stays what it was, or, where the
\* compiler takes num for positive from there on, becomes 2^(IntBits - 1).
itoa(v) ==
    /\ At({"d"}) /\ v \in INT_MIN .. INT_MAX
    /\ \/ v # INT_MIN /\ Convert(v, IF v < 0 THEN -v ELSE v, v < 0, 10)
       \/ v = INT_MIN /\ \E num \in {INT_MIN, -INT_MIN} : Convert(v, num, TRUE, 10)

\* C's / and %, which round towards zero.
Quotient(a, b) == IF a >= 0 THEN a \div b ELSE -((-a) \div b)
Remainder(a, b) == a - b * Quotient(a, b)

digit ==
    /\ pc = "digits"
    /\ buffer' = Append(buffer, Remainder(value, base))
    /\ value' = Quotient(value, base)
    /\ pc' = IF value' = 0 THEN "reverse" ELSE "digits"
    /\ UNCHANGED <<format, written, arg, isNegative, base, result, printed, string>>

reverse ==
    /\ pc = "reverse"
    /\ buffer' = Reverse(buffer)
    /\ pc' = "append"
    /\ UNCHANGED <<format, written, arg, value, isNegative, base, result, printed, string>>

print_number ==
    /\ pc = "append"
    /\ append(Len(buffer) + IF isNegative THEN 1 ELSE 0, Tail(format))
    /\ arg' = 0 /\ value' = 0 /\ isNegative' = FALSE /\ base' = 0 /\ buffer' = << >>
    /\ UNCHANGED string

(***************************************************************************)
(* The string functions: n turns of a loop over mem.                       *)
(***************************************************************************)
Memory == [1 .. Cells -> 0 .. Bytes - 1]
Strings == {"memcpy", "memmove", "memset", "memcmp", "memchr", "strlen", "strcpy", "strncpy"}

\* The bytes k places from a, of length n, are there.
Within(a, n) == a + n <= Cells + 1
Length(m, a) == CHOOSE n \in 0 .. Cells : m[a + n] = 0 /\ \A k \in 0 .. n - 1 : m[a + k] # 0
IsString(m, a) == \E n \in 0 .. Cells : Within(a, n + 1) /\ m[a + n] = 0
Apart(a, b, n) == a + n <= b \/ b + n <= a

\* What a caller may pass.  memcpy's regions may overlap if the copy goes down,
\* as in terminal_scroll (tty.c:54).
Permitted(c) ==
    LET len == Length(c.was, c.src) IN
    /\ c.fn \in {"memcpy", "memmove", "memcmp", "memset", "memchr", "strncpy"} =>
            Within(c.dst, c.n)
    /\ c.fn \in {"memcpy", "memmove", "memcmp"} => Within(c.src, c.n)
    /\ c.fn = "memcpy" => Apart(c.dst, c.src, c.n) \/ c.dst < c.src
    /\ c.fn \in {"strcpy", "strncpy"} => IsString(c.was, c.src)
    /\ c.fn = "strcpy" => Within(c.dst, len + 1) /\ Apart(c.dst, c.src, len + 1)
    /\ c.fn = "strncpy" => c.dst + c.n <= c.src \/ c.src + len < c.dst
    /\ c.fn = "strlen" => IsString(c.was, c.dst)
    \* Arguments a function does not take.
    /\ c.fn \in {"memset", "memchr", "strlen"} => c.src = 1
    /\ c.fn \in {"strlen", "strcpy"} => c.n = 0
    /\ c.fn \notin {"memset", "memchr"} => c.c = 0

string_call(c) ==
    /\ pc = "idle" /\ Permitted(c)
    /\ call' = c /\ mem' = c.was
    /\ i' = IF c.fn = "memmove" /\ c.dst >= c.src THEN c.n ELSE 0
    /\ pc' = c.fn
    /\ UNCHANGED <<stdio, ret>>

Dst == call.dst + i
Src == call.src + i
Returns(v) == pc' = "string_returned" /\ ret' = v /\ UNCHANGED <<mem, i>>

Copy(to, from) == mem' = [mem EXCEPT ![to] = mem[from]]
Continue == i' = i + 1 /\ UNCHANGED <<pc, ret>>

memcpy ==
    /\ pc = "memcpy"
    /\ IF i < call.n THEN Copy(Dst, Src) /\ Continue ELSE Returns(call.dst)
    /\ UNCHANGED <<stdio, call>>

\* Defect: always copies upwards.
memmove_forward ==
    /\ pc = "memmove"
    /\ LET k == IF call.dst < call.src THEN i ELSE call.n - i IN
       IF k < call.n
       THEN /\ Copy(call.dst + k, call.src + k)
            /\ i' = IF call.dst < call.src THEN i + 1 ELSE i - 1
            /\ UNCHANGED <<pc, ret>>
       ELSE Returns(call.dst)
    /\ UNCHANGED <<stdio, call>>

\* Upwards to a lower address, downwards to a higher one.
memmove ==
    /\ pc = "memmove"
    /\ IF call.dst < call.src
       THEN IF i < call.n THEN Copy(Dst, Src) /\ Continue ELSE Returns(call.dst)
       ELSE IF i # 0
            THEN Copy(Dst - 1, Src - 1) /\ i' = i - 1 /\ UNCHANGED <<pc, ret>>
            ELSE Returns(call.dst)
    /\ UNCHANGED <<stdio, call>>

memset ==
    /\ pc = "memset"
    /\ IF i < call.n
       THEN mem' = [mem EXCEPT ![Dst] = call.c % Bytes] /\ Continue
       ELSE Returns(call.dst)
    /\ UNCHANGED <<stdio, call>>

memcmp ==
    /\ pc = "memcmp"
    /\ IF i = call.n THEN Returns(0)
       ELSE IF mem[Dst] < mem[Src] THEN Returns(-1)
       ELSE IF mem[Src] < mem[Dst] THEN Returns(1)
       ELSE Continue /\ UNCHANGED mem
    /\ UNCHANGED <<stdio, call>>

memchr ==
    /\ pc = "memchr"
    /\ IF i = call.n THEN Returns(NULL)
       ELSE IF mem[Dst] = call.c % Bytes THEN Returns(Dst)
       ELSE Continue /\ UNCHANGED mem
    /\ UNCHANGED <<stdio, call>>

strlen ==
    /\ pc = "strlen"
    /\ IF mem[Dst] = 0 THEN Returns(i) ELSE Continue /\ UNCHANGED mem
    /\ UNCHANGED <<stdio, call>>

\* The byte copied last is the 0.
strcpy ==
    /\ pc = "strcpy"
    /\ Copy(Dst, Src)
    /\ IF mem[Src] # 0
       THEN Continue
       ELSE pc' = "string_returned" /\ ret' = call.dst /\ UNCHANGED i
    /\ UNCHANGED <<stdio, call>>

strncpy ==
    /\ pc = "strncpy"
    /\ IF i < call.n /\ mem[Src] # 0
       THEN Copy(Dst, Src) /\ Continue
       ELSE pc' = "strncpy_pad" /\ UNCHANGED <<mem, i, ret>>
    /\ UNCHANGED <<stdio, call>>

strncpy_pad ==
    /\ pc = "strncpy_pad"
    /\ IF i < call.n
       THEN mem' = [mem EXCEPT ![Dst] = 0] /\ Continue
       ELSE Returns(call.dst)
    /\ UNCHANGED <<stdio, call>>

(***************************************************************************)
(* Specification                                                           *)
(***************************************************************************)
Init ==
    /\ pc = "idle"
    /\ format = << >> /\ written = 0 /\ result = NULL /\ printed = 0
    /\ arg = 0 /\ value = 0 /\ isNegative = FALSE /\ base = 0 /\ buffer = << >>
    /\ mem = [a \in 1 .. Cells |-> 0] /\ i = 0 /\ call = NULL /\ ret = NULL

\* The caller has its answer, and another call may begin.
Answered ==
    /\ pc \in {"returned", "string_returned"}
    /\ pc' = "idle"
    /\ format' = << >> /\ written' = 0 /\ result' = NULL /\ printed' = 0
    /\ mem' = [a \in 1 .. Cells |-> 0] /\ i' = 0 /\ call' = NULL /\ ret' = NULL
    /\ UNCHANGED number

Unsigned(bits) == 0 .. 2 ^ bits - 1
Signed(bits) == -(2 ^ (bits - 1)) .. 2 ^ (bits - 1) - 1
Calls == [fn : Strings, dst : 1 .. Cells + 1, src : 1 .. Cells + 1, n : 0 .. Cells,
          c : 0 .. Bytes, was : Memory]

Next ==
    \/ \E f \in Formats : vprintf(f)
    \/ text \/ char \/ long_other \/ unknown \/ vprintf_return
    \/ \E len \in Texts : str(len)
    \/ \E v \in Unsigned(IntBits) : utoa(v) \/ utoa_hex(v)
    \/ \E v \in Unsigned(LongBits) : ulltoa(v)
    \/ \E v \in Signed(IntBits) : itoa(v)
    \/ \E v \in Signed(LongBits) : lltoa(v)
    \/ digit \/ reverse \/ print_number
    \/ pc = "idle" /\ \E c \in Calls : string_call(c)
    \/ memcpy \/ memmove \/ memset \/ memcmp \/ memchr
    \/ strlen \/ strcpy \/ strncpy \/ strncpy_pad
    \/ Answered

Spec == Init /\ [][Next]_vars

(***************************************************************************)
(* Properties                                                              *)
(***************************************************************************)
\* The number that the digits of buffer stand for.
Magnitude ==
    LET upto[k \in 0 .. Len(buffer)] == IF k = 0 THEN 0 ELSE upto[k - 1] * base + buffer[k]
    IN  upto[Len(buffer)]

\* What __utoa, __itoa, __ulltoa and __lltoa hand to __append is the shortest
\* numeral of the argument in the base, the most negative long long included.
\* The most negative int is the exception: num = -num has no value there
\* (internal.c:70), and the digits need not be digits.
NumbersExact ==
    pc = "append" /\ ~(Head(format) = "d" /\ arg = INT_MIN) =>
        /\ \A k \in 1 .. Len(buffer) : buffer[k] \in 0 .. base - 1
        /\ Len(buffer) > 1 => buffer[1] # 0
        /\ arg = IF isNegative THEN -Magnitude ELSE Magnitude

\* written is what has been printed and fits an int, and vprintf returns it, or
\* EOVERFLOW with the piece that did not fit, and all after it, unprinted:
\* "increments written by len if success" (internal.h:24).
WrittenCounts ==
    /\ pc \in {"vprintf", "digits", "reverse", "append", "returned"} =>
        written = printed /\ printed <= INT_MAX
    /\ pc = "returned" =>
        IF format = << >> THEN result = printed ELSE result = EOVERFLOW

\* The bytes of m that a call c leaves from its destination on, k of them, are the
\* ones b gives, and the rest of the memory is as it was.
Leaves(c, m, k, b(_)) ==
    \A a \in 1 .. Cells :
        m[a] = IF a \in c.dst .. c.dst + k - 1 THEN b(a - c.dst) ELSE c.was[a]

\* What the call c promises of the memory m it leaves and of the value r it returns.
Promises(c, m, r) ==
    LET From(k) == c.was[c.src + k]
        Differ == {k \in 0 .. c.n - 1 : c.was[c.dst + k] # From(k)}
        Found == {a \in c.dst .. c.dst + c.n - 1 : c.was[a] = c.c % Bytes}
        First(S) == CHOOSE k \in S : \A l \in S : k <= l
        strings == Length(c.was, c.src)
        Padded(k) == IF k < strings THEN From(k) ELSE 0
    IN CASE c.fn \in {"memcpy", "memmove"} -> r = c.dst /\ Leaves(c, m, c.n, From)
         [] c.fn = "memset" -> r = c.dst /\ Leaves(c, m, c.n, LAMBDA k : c.c % Bytes)
         [] c.fn = "strcpy" -> r = c.dst /\ Leaves(c, m, strings + 1, From)
         [] c.fn = "strncpy" -> r = c.dst /\ Leaves(c, m, c.n, Padded)
         [] c.fn = "strlen" -> m = c.was /\ r = Length(c.was, c.dst)
         [] c.fn = "memchr" ->
                m = c.was /\ r = IF Found = {} THEN NULL ELSE First(Found)
         [] c.fn = "memcmp" ->
                /\ m = c.was
                /\ r = IF Differ = {} THEN 0
                       ELSE LET k == First(Differ)
                            IN IF c.was[c.dst + k] < From(k) THEN -1 ELSE 1

\* A string function leaves in memory, and returns, what the bytes before the
\* call determine: memmove whatever the overlap, memcpy for the overlapping
\* copy down with which the terminal scrolls (tty.c:54), strncpy padding with 0.
StringsExact == pc = "string_returned" => Promises(call, mem, ret)
=============================================================================
