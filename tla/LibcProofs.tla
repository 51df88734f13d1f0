---------------------------- MODULE LibcProofs ----------------------------
(***************************************************************************)
(* Proofs about the C library, for integers of any width, any formats and  *)
(* texts, and a memory of any size with every content.                     *)
(***************************************************************************)
EXTENDS Libc, NumberLemmas, SequenceTheorems

(***************************************************************************)
(* The inductive invariant, in three parts.                                *)
(***************************************************************************)
Converting == {"digits", "reverse", "append"}

\* vprintf: the count is what was printed, and the format is not at its end while
\* a directive is converted.
WriteInv ==
    /\ format \in Seq(Directives)
    /\ written \in 0 .. INT_MAX /\ printed = written
    /\ buffer \in Seq(Int)
    /\ pc \in Converting => format # << >>
    /\ pc = "digits" => value \in Int /\ base \in {10, 16}
    /\ pc = "returned" => IF format = << >> THEN result = printed ELSE result = EOVERFLOW

\* The one argument that has no magnitude.
Odd == Head(format) = "d" /\ arg = INT_MIN

\* q is the values the loop has been through and s the digits it made of them, the
\* last digit of the number first.
Divided(q, s) ==
    /\ q \in [0 .. Len(s) -> Nat]
    /\ arg = IF isNegative THEN -q[0] ELSE q[0]
    /\ \A k \in 1 .. Len(s) : s[k] \in 0 .. base - 1 /\ q[k - 1] = q[k] * base + s[k]
    /\ \A k \in 1 .. Len(s) - 1 : q[k] # 0

NumberInv ==
    (pc \in Converting /\ ~Odd) =>
        \E q, s :
            /\ s \in Seq(Int) /\ Divided(q, s) /\ base \in {10, 16}
            /\ pc = "digits" => s = buffer /\ value = q[Len(s)] /\ (s # << >> => value # 0)
            /\ pc # "digits" => s # << >> /\ q[Len(s)] = 0
            /\ pc = "reverse" => s = buffer
            /\ pc = "append" => buffer = Reverse(s)

\* The byte that belongs in cell a of the destination.
Goal(a) ==
    CASE call.fn = "memset" -> call.c % Bytes
      [] call.fn = "strncpy" /\ a - call.dst >= Length(call.was, call.src) -> 0
      [] OTHER -> call.was[call.src + (a - call.dst)]

\* The cells of the destination from the lo-th to before the hi-th are done, the
\* rest of the memory is as it was.
Done(lo, hi) ==
    \A a \in 1 .. Cells :
        mem[a] = IF a \in call.dst + lo .. call.dst + hi - 1 THEN Goal(a) ELSE call.was[a]

InString == Strings \cup {"strncpy_pad", "string_returned"}
SrcLen == Length(call.was, call.src)

\* Where the loop of each string function is.
LoopInv ==
    /\ pc \in {"memcpy", "memset", "strncpy_pad"} => i \in 0 .. call.n /\ Done(0, i)
    /\ pc = "memmove" => /\ i \in 0 .. call.n
                         /\ IF call.dst < call.src THEN Done(0, i) ELSE Done(i, call.n)
    /\ pc = "strncpy_pad" => i = call.n \/ SrcLen <= i
    /\ pc = "strcpy" => i \in 0 .. SrcLen /\ Done(0, i)
    /\ pc = "strncpy" => i \in 0 .. call.n /\ i <= SrcLen /\ Done(0, i)
    /\ pc \in {"memcmp", "memchr", "strlen"} => mem = call.was /\ i \in Nat
    /\ pc = "memcmp" => i <= call.n /\ \A k \in 0 .. i - 1 :
                            call.was[call.dst + k] = call.was[call.src + k]
    /\ pc = "memchr" => i <= call.n /\ \A k \in 0 .. i - 1 :
                            call.was[call.dst + k] # call.c % Bytes
    /\ pc = "strlen" => i <= Length(call.was, call.dst)

IsMem(m) == DOMAIN m = 1 .. Cells /\ m = [a \in 1 .. Cells |-> m[a]]

StringInv ==
    pc \in InString =>
        /\ call \in Calls /\ Permitted(call)
        /\ IsMem(mem)
        /\ pc \in Strings => call.fn = pc
        /\ pc = "strncpy_pad" => call.fn = "strncpy"
        /\ LoopInv
        /\ StringsExact

Places == InString \cup Converting \cup {"idle", "vprintf", "returned"}

IInv == pc \in Places /\ WriteInv /\ NumberInv /\ StringInv

(***************************************************************************)
(* Numbers.                                                                *)
(***************************************************************************)
\* A power of two is the number of subsets of a set.
LEMMA PowerPositive ==
  ASSUME NEW m \in Nat
  PROVE  2 ^ m \in Nat \ {0}
<1> DEFINE S == 1 .. m
<1>1. IsFiniteSet(S) /\ Cardinality(S) = m
  BY FS_Interval
<1>2. IsFiniteSet(SUBSET S) /\ Cardinality(SUBSET S) = 2 ^ m
  BY <1>1, FS_SUBSET
<1>3. Cardinality(SUBSET S) \in Nat /\ (Cardinality(SUBSET S) = 0 <=> SUBSET S = {})
  BY <1>2, FS_CardinalityType, FS_EmptySet
<1>4. {} \in SUBSET S
  OBVIOUS
<1> QED
  BY <1>2, <1>3, <1>4

\* INT_MAX is a natural number.
LEMMA IntMax == INT_MAX \in Nat
<1>1. IntBits - 1 \in Nat
  BY WidthAssumption
<1> DEFINE p == 2 ^ (IntBits - 1)
<1>2. p \in Nat \ {0}
  BY <1>1, PowerPositive
<1> HIDE DEF p
<1>3. p - 1 \in Nat
  BY <1>2
<1> QED
  BY <1>3 DEF p, INT_MAX

\* C's division of a number that is not negative.
LEMMA Division ==
  ASSUME NEW a \in Nat, NEW b \in {10, 16}
  PROVE  /\ Quotient(a, b) \in Nat /\ Remainder(a, b) \in 0 .. b - 1
         /\ a = Quotient(a, b) * b + Remainder(a, b)
<1>1. CASE b = 10
  BY <1>1 DEF Quotient, Remainder
<1>2. CASE b = 16
  BY <1>2 DEF Quotient, Remainder
<1> QED
  BY <1>1, <1>2

\* A quotient or remainder of any int is an int.
LEMMA DivisionInt ==
  ASSUME NEW a \in Int, NEW b \in {10, 16}
  PROVE  Quotient(a, b) \in Int /\ Remainder(a, b) \in Int
<1>1. CASE b = 10
  BY <1>1 DEF Quotient, Remainder
<1>2. CASE b = 16
  BY <1>2 DEF Quotient, Remainder
<1> QED
  BY <1>1, <1>2

(***************************************************************************)
(* The two recursive functions.  The least position that a sum does not    *)
(* reach shows that there is one, the least at which two functions differ  *)
(* that there is only one.                                                 *)
(***************************************************************************)
LEMMA SumExists ==
  ASSUME NEW len \in Nat, NEW s, \A k \in 1 .. len : s[k] \in Nat
  PROVE  \E at \in [0 .. len -> Nat] :
            at[0] = 0 /\ \A k \in 1 .. len : at[k] = at[k - 1] + s[k]
<1> DEFINE Part(at, m) == /\ at \in [0 .. m -> Nat] /\ at[0] = 0
                          /\ \A k \in 1 .. m : at[k] = at[k - 1] + s[k]
           T == {m \in 0 .. len : ~ \E at : Part(at, m)}
<1>1. T = {}
  <2> SUFFICES ASSUME T # {} PROVE FALSE
    OBVIOUS
  <2>1. T \subseteq Nat
    OBVIOUS
  <2>2. PICK m \in T : \A k \in T : m <= k
    BY <2>1, Least
  <2>3. m # 0
    <3>1. Part([k \in 0 .. 0 |-> 0], 0)
      OBVIOUS
    <3> QED
      BY <3>1
  <2>4. m - 1 \in 0 .. len /\ m \in 1 .. len /\ m - 1 \in Nat
    BY <2>2, <2>3
  <2>5. PICK at : Part(at, m - 1)
    <3>1. m - 1 \notin T
      <4> HIDE DEF T
      <4> QED
        BY <2>2, <2>4
    <3> QED
      BY <2>4, <3>1
  <2> DEFINE x == at[m - 1] + s[m]
             more == [k \in 0 .. m |-> IF k = m THEN x ELSE at[k]]
  <2>6. x \in Nat /\ at \in [0 .. m - 1 -> Nat]
    <3>1. at[m - 1] \in Nat /\ s[m] \in Nat
      BY <2>4, <2>5
    <3> QED
      BY <3>1, <2>5
  <2>7. more \in [0 .. m -> Nat] /\ more[0] = 0
    <3> HIDE DEF x
    <3> QED
      BY <2>4, <2>5, <2>6
  <2>8. ASSUME NEW k \in 1 .. m PROVE more[k] = more[k - 1] + s[k]
    <3>1. CASE k = m
      BY <2>4, <3>1
    <3>2. CASE k # m
      <4>1. k \in 1 .. m - 1 /\ more[k] = at[k] /\ more[k - 1] = at[k - 1]
        BY <2>4, <2>8, <3>2
      <4> QED
        BY <4>1, <2>5
    <3> QED
      BY <3>1, <3>2
  <2>9. Part(more, m)
    <3> HIDE DEF more
    <3> QED
      BY <2>7, <2>8
  <2> QED
    BY <2>2, <2>9
<1>2. PICK at : Part(at, len)
  BY <1>1
<1> QED
  BY <1>2

\* What a directive takes up of the format has a length.
LEMMA SourceLenNat == \A d : SourceLen(d) \in Nat
BY FormatAssumption DEF SourceLen

\* And so has the rest of the format.
LEMMA FormatLenNat ==
  ASSUME NEW f, Len(f) \in Nat
  PROVE  FormatLen(f) \in Nat
<1> DEFINE len == Len(f)
           s == [k \in 1 .. len |-> SourceLen(f[k])]
           Step(g) == [k \in 0 .. len |-> IF k = 0 THEN 0 ELSE g[k - 1] + SourceLen(f[k])]
           F == CHOOSE g : g = Step(g)
<1>1. \A k \in 1 .. len : s[k] \in Nat /\ s[k] = SourceLen(f[k])
  BY SourceLenNat
<1>2. len \in Nat
  OBVIOUS
<1> HIDE DEF len, s
<1>3. PICK at \in [0 .. len -> Nat] :
        at[0] = 0 /\ \A k \in 1 .. len : at[k] = at[k - 1] + s[k]
  BY <1>1, <1>2, SumExists
<1>4. at = Step(at)
  <2>1. \A k \in 0 .. len : k # 0 => k \in 1 .. len
    BY <1>2
  <2>2. \A k \in 0 .. len : at[k] = IF k = 0 THEN 0 ELSE at[k - 1] + SourceLen(f[k])
    BY <1>1, <1>3, <2>1
  <2>3. at = [k \in 0 .. len |-> at[k]]
    BY <1>3
  <2> QED
    BY <2>2, <2>3
<1>5. F = Step(F)
  <2> HIDE DEF Step
  <2> QED
    BY <1>4
<1>6. FormatLen(f) = F[len]
  BY DEF FormatLen, len
<1> HIDE DEF F
<1>7. \A k \in 0 .. len : F[k] = IF k = 0 THEN 0 ELSE F[k - 1] + SourceLen(f[k])
  BY <1>5
<1> DEFINE Bad == {k \in 0 .. len : F[k] # at[k]}
<1>8. Bad = {}
  <2> SUFFICES ASSUME Bad # {} PROVE FALSE
    OBVIOUS
  <2>1. PICK k \in Bad : \A j \in Bad : k <= j
    <3>1. Bad \subseteq Nat
      OBVIOUS
    <3> QED
      BY <3>1, Least
  <2>2. k \in 0 .. len /\ F[k] # at[k]
    OBVIOUS
  <2>3. k # 0
    BY <2>2, <1>3, <1>7
  <2>4. k \in 1 .. len /\ k - 1 \in 0 .. len /\ k - 1 \notin Bad
    <3> HIDE DEF Bad
    <3> QED
      BY <1>2, <2>1, <2>2, <2>3
  <2>5. F[k - 1] = at[k - 1]
    BY <2>4
  <2> QED
    BY <2>2, <2>3, <2>4, <2>5, <1>1, <1>3, <1>7
<1>9. len \in 0 .. len /\ F[len] = at[len] /\ at[len] \in Nat
  BY <1>2, <1>3, <1>8
<1> QED
  BY <1>6, <1>9

\* Horner's rule goes back through the quotients of the conversion.
LEMMA HornerBack ==
  ASSUME NEW q, NEW s \in Seq(Int), Divided(q, s), q[Len(s)] = 0, buffer = Reverse(s),
         base \in Nat
  PROVE  Magnitude = q[0]
<1> DEFINE len == Len(s)
           Step(g) == [k \in 0 .. len |-> IF k = 0 THEN 0 ELSE g[k - 1] * base + buffer[k]]
           H == [k \in 0 .. len |-> q[len - k]]
           F == CHOOSE g : g = Step(g)
<1>1. len \in Nat /\ Len(buffer) = len /\ \A k \in 1 .. len : buffer[k] = s[(len - k) + 1]
  BY DEF Reverse
<1>2. \A k \in 1 .. len : q[k - 1] = q[k] * base + s[k]
  BY DEF Divided
<1>3. Magnitude = F[len]
  BY <1>1 DEF Magnitude
<1>4. q[len] = 0
  OBVIOUS
<1> HIDE DEF len
<1>5. \A k \in 1 .. len : H[k] = H[k - 1] * base + buffer[k]
  <2> SUFFICES ASSUME NEW k \in 1 .. len PROVE H[k] = H[k - 1] * base + buffer[k]
    OBVIOUS
  <2> DEFINE j == (len - k) + 1
  <2>1. j \in 1 .. len /\ j - 1 = len - k /\ j = len - (k - 1) /\ k - 1 \in 0 .. len /\ k \in 0 .. len
    BY <1>1
  <2>2. H[k] = q[j - 1] /\ H[k - 1] = q[j] /\ buffer[k] = s[j]
    BY <1>1, <2>1
  <2> HIDE DEF j, H
  <2> QED
    BY <1>2, <2>1, <2>2
<1>6. H[0] = 0
  BY <1>1, <1>4
<1>7. H = Step(H)
  <2>1. \A k \in 0 .. len : k # 0 => k \in 1 .. len
    BY <1>1
  <2>2. H = [k \in 0 .. len |-> H[k]]
    OBVIOUS
  <2> HIDE DEF H
  <2>3. \A k \in 0 .. len : H[k] = IF k = 0 THEN 0 ELSE H[k - 1] * base + buffer[k]
    BY <1>5, <1>6, <2>1
  <2> QED
    BY <2>2, <2>3
<1>8. F = Step(F)
  <2> HIDE DEF Step, H
  <2> QED
    BY <1>7
<1>9. H[len] = q[0]
  BY <1>1
<1> HIDE DEF F, H
<1>10. \A k \in 0 .. len : F[k] = IF k = 0 THEN 0 ELSE F[k - 1] * base + buffer[k]
  BY <1>8
<1> DEFINE Bad == {k \in 0 .. len : F[k] # H[k]}
<1>11. Bad = {}
  <2> SUFFICES ASSUME Bad # {} PROVE FALSE
    OBVIOUS
  <2>1. PICK k \in Bad : \A j \in Bad : k <= j
    <3>1. Bad \subseteq Nat
      OBVIOUS
    <3> QED
      BY <3>1, Least
  <2>2. k \in 0 .. len /\ F[k] # H[k]
    OBVIOUS
  <2>3. k # 0
    BY <2>2, <1>6, <1>10
  <2>4. k \in 1 .. len /\ k - 1 \in 0 .. len /\ k - 1 \notin Bad
    <3> HIDE DEF Bad
    <3> QED
      BY <1>1, <2>1, <2>2, <2>3
  <2>5. F[k - 1] = H[k - 1]
    BY <2>4
  <2>6. F[k] = F[k - 1] * base + buffer[k] /\ H[k] = H[k - 1] * base + buffer[k]
    BY <1>5, <1>10, <2>2, <2>3, <2>4
  <2> QED
    BY <2>2, <2>5, <2>6
<1>12. len \in 0 .. len
  BY <1>1
<1> QED
  BY <1>3, <1>9, <1>11, <1>12

(***************************************************************************)
(* The parts hold at first.                                                *)
(***************************************************************************)
LEMMA EmptySequences ==
  << >> \in Seq(Int) /\ << >> \in Seq(Directives)
OBVIOUS

\* The invariant holds at first.
LEMMA InitInv == Init => IInv
<1> SUFFICES ASSUME Init PROVE IInv
  OBVIOUS
<1>1. pc = "idle" /\ format = << >> /\ buffer = << >> /\ written = 0 /\ printed = 0
  BY DEF Init
<1>2. WriteInv
  BY <1>1, IntMax, EmptySequences DEF WriteInv, Converting
<1> QED
  BY <1>1, <1>2 DEF IInv, NumberInv, StringInv, Places, Converting, InString, Strings

(***************************************************************************)
(* vprintf's count.                                                        *)
(***************************************************************************)
\* A piece that fits is counted, one that does not ends the call with format left.
LEMMA AppendCounts ==
  ASSUME WriteInv, NEW len \in Nat, NEW rest \in Seq(Directives), format # << >>,
         append(len, rest), buffer' \in Seq(Int)
  PROVE  WriteInv' /\ pc' \in {"vprintf", "returned"}
<1>1. CASE INT_MAX - written < len
  BY <1>1 DEF append, WriteInv, Converting, INT_MAX, EOVERFLOW
<1>2. CASE ~(INT_MAX - written < len)
  <2>1. written \in Nat /\ INT_MAX \in Nat
    BY IntMax DEF WriteInv
  <2>2. printed' = written' /\ written' = written + len /\ format' = rest /\ pc' = "vprintf"
    BY <1>2 DEF append, WriteInv
  <2>3. written' \in 0 .. INT_MAX
    BY <1>2, <2>1, <2>2
  <2>4. INT_MAX' = INT_MAX
    BY DEF INT_MAX
  <2> QED
    BY <2>2, <2>3, <2>4 DEF WriteInv, Converting
<1> QED
  BY <1>1, <1>2

\* There is a directive to look at, and a rest.
LEMMA TailOfFormat ==
  ASSUME WriteInv, format # << >>
  PROVE  Tail(format) \in Seq(Directives) /\ Len(format) \in Nat /\ Head(format) \in Directives
BY DEF WriteInv

\* Every step of vprintf that prints, and the ones that only read the format.
Printing ==
    \/ text \/ char \/ unknown \/ \E len \in Texts : str(len)
    \/ print_number

\* A piece handed to __append is counted as it is printed, or not at all.
LEMMA PrintingCounts ==
  ASSUME IInv, Printing
  PROVE  WriteInv' /\ pc' \in {"vprintf", "returned"}
<1> USE DEF IInv
<1>1. buffer \in Seq(Int)
  BY DEF WriteInv
<1>2. CASE text
  <2>1. format # << >> /\ append(TextLen, Tail(format)) /\ buffer' = buffer
    BY <1>2 DEF text, At, number
  <2> QED
    BY <1>1, <2>1, TailOfFormat, AppendCounts, FormatAssumption
<1>3. CASE char
  <2>1. format # << >> /\ append(1, Tail(format)) /\ buffer' = buffer
    BY <1>3 DEF char, At, number
  <2> QED
    BY <1>1, <2>1, TailOfFormat, AppendCounts
<1>4. CASE unknown
  <2>1. format # << >> /\ append(FormatLen(format), << >>) /\ buffer' = buffer
    BY <1>4 DEF unknown, At, number
  <2>2. FormatLen(format) \in Nat
    BY <2>1, TailOfFormat, FormatLenNat
  <2> QED
    BY <1>1, <2>1, <2>2, EmptySequences, AppendCounts
<1>5. ASSUME NEW len \in Texts, str(len)
      PROVE  WriteInv' /\ pc' \in {"vprintf", "returned"}
  <2>1. format # << >> /\ append(len, Tail(format)) /\ buffer' = buffer
    BY <1>5 DEF str, At, number
  <2> QED
    BY <1>1, <2>1, TailOfFormat, AppendCounts, FormatAssumption
<1>6. CASE print_number
  <2> DEFINE len == Len(buffer) + IF isNegative THEN 1 ELSE 0
  <2>1. format # << >> /\ append(len, Tail(format)) /\ buffer' = << >>
    BY <1>6 DEF print_number, WriteInv, Converting
  <2>2. len \in Nat
    BY <1>1
  <2> HIDE DEF len
  <2> QED
    BY <2>1, <2>2, TailOfFormat, EmptySequences, AppendCounts
<1> QED
  BY <1>2, <1>3, <1>4, <1>5, <1>6 DEF Printing

(***************************************************************************)
(* The number conversions.                                                 *)
(***************************************************************************)
Converts ==
    \/ \E v \in Unsigned(IntBits) : utoa(v) \/ utoa_hex(v)
    \/ \E v \in Unsigned(LongBits) : ulltoa(v)
    \/ \E v \in Signed(IntBits) : itoa(v)
    \/ \E v \in Signed(LongBits) : lltoa(v)

\* A conversion begins with nothing divided yet.
LEMMA ConvertBegins ==
  ASSUME WriteInv, NEW v \in Int, NEW magnitude \in Int, NEW negative \in BOOLEAN, NEW b \in {10, 16},
         format # << >>, Convert(v, magnitude, negative, b),
         ~(Head(format) = "d" /\ v = INT_MIN) =>
            magnitude \in Nat /\ v = IF negative THEN -magnitude ELSE magnitude
  PROVE  WriteInv' /\ NumberInv' /\ pc' = "digits"
<1>1. /\ pc' = "digits" /\ arg' = v /\ value' = magnitude /\ isNegative' = negative
      /\ base' = b /\ buffer' = << >>
      /\ format' = format /\ written' = written /\ result' = result /\ printed' = printed
  BY DEF Convert
<1>2. WriteInv'
  BY <1>1, EmptySequences DEF WriteInv, Converting, INT_MAX
<1>3. NumberInv'
  <2> SUFFICES ASSUME ~Odd'
               PROVE  \E q, s :
                        /\ s \in Seq(Int) /\ Divided(q, s)' /\ base' \in {10, 16}
                        /\ pc' = "digits" => s = buffer' /\ value' = q[Len(s)] /\ (s # << >> => value' # 0)
                        /\ pc' # "digits" => s # << >> /\ q[Len(s)] = 0
                        /\ pc' = "reverse" => s = buffer'
                        /\ pc' = "append" => buffer' = Reverse(s)
    BY DEF NumberInv
  <2> DEFINE z == [k \in 0 .. 0 |-> magnitude]
  <2>1. magnitude \in Nat /\ v = IF negative THEN -magnitude ELSE magnitude
    BY <1>1 DEF Odd, INT_MIN
  <2>2. z \in [0 .. 0 -> Nat] /\ z[0] = magnitude /\ Len(<< >>) = 0
    BY <2>1
  <2> HIDE DEF z
  <2>3. Divided(z, << >>)'
    BY <1>1, <2>1, <2>2 DEF Divided
  <2> QED
    BY <1>1, <2>2, <2>3, EmptySequences
<1> QED
  BY <1>1, <1>2, <1>3

\* The values of the integer types.
LEMMA SmallestInt ==
  /\ INT_MIN \in Int /\ INT_MIN < 0
  /\ \A bits : \A v \in Unsigned(bits) : v \in Nat
  /\ \A bits : \A v \in Signed(bits) : v \in Int
<1>1. IntBits - 1 \in Nat
  BY WidthAssumption
<1> DEFINE p == 2 ^ (IntBits - 1)
<1>2. p \in Nat \ {0}
  BY <1>1, PowerPositive
<1> HIDE DEF p
<1>3. -p \in Int /\ -p < 0
  BY <1>2
<1>4. INT_MIN \in Int /\ INT_MIN < 0
  BY <1>3 DEF p, INT_MIN
<1> QED
  BY <1>4 DEF Unsigned, Signed

\* A conversion starts with no digit made and the magnitude of its argument.
LEMMA ConvertsBegin ==
  ASSUME IInv, Converts
  PROVE  WriteInv' /\ NumberInv' /\ pc' = "digits"
<1>1. WriteInv
  BY DEF IInv
<1>2. ASSUME NEW v \in Unsigned(IntBits), utoa(v) PROVE WriteInv' /\ NumberInv' /\ pc' = "digits"
  <2> DEFINE neg == FALSE
  <2>1. format # << >> /\ Convert(v, v, neg, 10)
    BY <1>2 DEF utoa, At
  <2>2. v \in Nat /\ v \in Int /\ neg \in BOOLEAN /\ v = IF neg THEN -v ELSE v
    BY SmallestInt
  <2> HIDE DEF neg
  <2> QED
    BY <1>1, <2>1, <2>2, ConvertBegins
<1>3. ASSUME NEW v \in Unsigned(IntBits), utoa_hex(v) PROVE WriteInv' /\ NumberInv' /\ pc' = "digits"
  <2> DEFINE neg == FALSE
  <2>1. format # << >> /\ Convert(v, v, neg, 16)
    BY <1>3 DEF utoa_hex, At
  <2>2. v \in Nat /\ v \in Int /\ neg \in BOOLEAN /\ v = IF neg THEN -v ELSE v
    BY SmallestInt
  <2> HIDE DEF neg
  <2> QED
    BY <1>1, <2>1, <2>2, ConvertBegins
<1>4. ASSUME NEW v \in Unsigned(LongBits), ulltoa(v) PROVE WriteInv' /\ NumberInv' /\ pc' = "digits"
  <2> DEFINE neg == FALSE
  <2>1. format # << >> /\ Convert(v, v, neg, 10)
    BY <1>4 DEF ulltoa, At
  <2>2. v \in Nat /\ v \in Int /\ neg \in BOOLEAN /\ v = IF neg THEN -v ELSE v
    BY SmallestInt
  <2> HIDE DEF neg
  <2> QED
    BY <1>1, <2>1, <2>2, ConvertBegins
<1>5. ASSUME NEW v \in Signed(LongBits), lltoa(v) PROVE WriteInv' /\ NumberInv' /\ pc' = "digits"
  <2> DEFINE g == IF v < 0 THEN (-(v + 1)) + 1 ELSE v
             neg == v < 0
  <2>1. v \in Int /\ format # << >> /\ Convert(v, g, neg, 10)
    BY <1>5, SmallestInt DEF lltoa, At
  <2>2. g \in Nat /\ g \in Int /\ neg \in BOOLEAN /\ v = IF neg THEN -g ELSE g
    BY <2>1
  <2> HIDE DEF g, neg
  <2> QED
    BY <1>1, <2>1, <2>2, ConvertBegins
<1>6. ASSUME NEW v \in Signed(IntBits), itoa(v) PROVE WriteInv' /\ NumberInv' /\ pc' = "digits"
  <2>1. v \in Int /\ format # << >> /\ Head(format) = "d"
    BY <1>6, SmallestInt DEF itoa, At
  <2>2. CASE v # INT_MIN
    <3> DEFINE g == IF v < 0 THEN -v ELSE v
               neg == v < 0
    <3>1. Convert(v, g, neg, 10)
      BY <1>6, <2>2 DEF itoa
    <3>2. g \in Nat /\ g \in Int /\ neg \in BOOLEAN /\ v = IF neg THEN -g ELSE g
      BY <2>1
    <3> HIDE DEF g, neg
    <3> QED
      BY <1>1, <2>1, <3>1, <3>2, ConvertBegins
  <2>3. CASE v = INT_MIN
    <3>1. PICK num \in {INT_MIN, -INT_MIN} : Convert(v, num, TRUE, 10)
      BY <1>6, <2>3 DEF itoa
    <3>2. num \in Int
      BY <3>1, SmallestInt
    <3> QED
      BY <1>1, <2>1, <2>3, <3>1, <3>2, ConvertBegins
  <2> QED
    BY <2>2, <2>3
<1> QED
  BY <1>2, <1>3, <1>4, <1>5, <1>6 DEF Converts

\* One more digit at the end of the buffer.
LEMMA AppendFacts ==
  ASSUME NEW s \in Seq(Int), NEW m \in Int
  PROVE  /\ Append(s, m) \in Seq(Int) /\ Len(Append(s, m)) = Len(s) + 1 /\ Append(s, m) # << >>
         /\ \A k \in 1 .. Len(s) : Append(s, m)[k] = s[k]
         /\ Append(s, m)[Len(s) + 1] = m
BY AppendProperties

\* One more digit: the value is divided by the base once more.
LEMMA DigitDivides ==
  ASSUME NEW q, NEW s \in Seq(Int), Divided(q, s), base \in {10, 16}, s # << >> => q[Len(s)] # 0
  PROVE  LET v == q[Len(s)]
             r == [k \in 0 .. Len(s) + 1 |-> IF k = Len(s) + 1 THEN Quotient(v, base) ELSE q[k]]
             t == Append(s, Remainder(v, base))
         IN  /\ t \in Seq(Int) /\ Divided(r, t) /\ t # << >>
             /\ r[Len(t)] = Quotient(v, base)
<1> DEFINE len == Len(s)
           v == q[len]
           d == Quotient(v, base)
           m == Remainder(v, base)
           r == [k \in 0 .. len + 1 |-> IF k = len + 1 THEN d ELSE q[k]]
           t == Append(s, m)
<1>1. len \in Nat /\ v \in Nat /\ q \in [0 .. len -> Nat] /\ (len # 0 => v # 0)
  BY DEF Divided
<1>2. d \in Nat /\ m \in 0 .. base - 1 /\ v = d * base + m
  BY <1>1, Division
<1> HIDE DEF d, m
<1>3. /\ t \in Seq(Int) /\ Len(t) = len + 1 /\ t # << >>
      /\ \A k \in 1 .. len : t[k] = s[k]
      /\ t[len + 1] = m
  <2>1. m \in Int
    BY <1>2
  <2> HIDE DEF t
  <2> QED
    BY <2>1, AppendFacts DEF t
<1> HIDE DEF t, len
<1>4. /\ r \in [0 .. len + 1 -> Nat] /\ r[len + 1] = d
      /\ \A k \in 0 .. len : r[k] = q[k]
  BY <1>1, <1>2
<1> HIDE DEF r
<1>5. arg = IF isNegative THEN -r[0] ELSE r[0]
  <2>1. r[0] = q[0]
    BY <1>1, <1>4
  <2> QED
    BY <2>1 DEF Divided
<1>6. ASSUME NEW k \in 1 .. len + 1
      PROVE  t[k] \in 0 .. base - 1 /\ r[k - 1] = r[k] * base + t[k]
  <2>1. CASE k = len + 1
    <3>1. k - 1 = len /\ r[len] = v /\ r[k] = d /\ t[k] = m
      BY <1>1, <1>3, <1>4, <2>1
    <3> QED
      BY <3>1, <1>2
  <2>2. CASE k # len + 1
    <3>1. k \in 1 .. len /\ k \in 0 .. len /\ k - 1 \in 0 .. len
      BY <1>1, <1>6, <2>2
    <3>2. s[k] \in 0 .. base - 1 /\ q[k - 1] = q[k] * base + s[k]
      BY <3>1 DEF Divided, len
    <3> QED
      BY <1>3, <1>4, <3>1, <3>2
  <2> QED
    BY <2>1, <2>2
<1>7. ASSUME NEW k \in 1 .. (len + 1) - 1 PROVE r[k] # 0
  <2>1. k \in 0 .. len /\ r[k] = q[k] /\ (k = len \/ k \in 1 .. len - 1)
    BY <1>1, <1>4, <1>7
  <2>2. \A j \in 1 .. len - 1 : q[j] # 0
    BY DEF Divided, len
  <2> QED
    BY <1>1, <1>7, <2>1, <2>2
<1>8. Divided(r, t)
  BY <1>3, <1>4, <1>5, <1>6, <1>7 DEF Divided
<1> QED
  BY <1>3, <1>4, <1>8 DEF r, t, d, m, len

\* One turn of the division loop makes the next digit of the number.
LEMMA DigitKeeps ==
  ASSUME IInv, digit
  PROVE  WriteInv' /\ NumberInv' /\ pc' \in {"digits", "reverse"}
<1> DEFINE v == Quotient(value, base)
           m == Remainder(value, base)
<1>1. /\ pc = "digits" /\ buffer' = Append(buffer, m) /\ value' = v
      /\ pc' = IF v = 0 THEN "reverse" ELSE "digits"
      /\ format' = format /\ written' = written /\ arg' = arg /\ isNegative' = isNegative
      /\ base' = base /\ result' = result /\ printed' = printed
  BY DEF digit
<1>2. WriteInv /\ NumberInv
  BY DEF IInv
<1>3. value \in Int /\ base \in {10, 16} /\ buffer \in Seq(Int) /\ format # << >>
  BY <1>1, <1>2 DEF WriteInv, Converting
<1>4. v \in Int /\ m \in Int
  BY <1>3, DivisionInt
<1> HIDE DEF v, m
<1>5. buffer' \in Seq(Int)
  BY <1>1, <1>3, <1>4, AppendFacts
<1>6. WriteInv'
  BY <1>1, <1>2, <1>3, <1>4, <1>5 DEF WriteInv, Converting, INT_MAX
<1>7. NumberInv'
  <2> SUFFICES ASSUME ~Odd' PROVE NumberInv'
    BY DEF NumberInv
  <2>1. ~Odd
    BY <1>1 DEF Odd, INT_MIN
  <2>2. PICK q, s : /\ s \in Seq(Int) /\ Divided(q, s) /\ s = buffer /\ value = q[Len(s)]
                    /\ s # << >> => value # 0
    BY <1>1, <1>2, <2>1 DEF NumberInv, Converting
  <2>3. PICK r, t : /\ t \in Seq(Int) /\ Divided(r, t) /\ t # << >> /\ r[Len(t)] = v
                    /\ t = Append(buffer, m)
    BY <1>3, <2>2, DigitDivides DEF v, m
  <2>4. t = buffer'
    BY <1>1, <2>3
  <2>5. Divided(r, t)'
    BY <1>1, <2>3 DEF Divided
  <2> QED
    BY <1>1, <1>3, <2>3, <2>4, <2>5 DEF NumberInv
<1> QED
  BY <1>1, <1>6, <1>7

\* A reversed buffer is one of the same kind.
LEMMA ReverseType ==
  ASSUME NEW s \in Seq(Int)
  PROVE  Reverse(s) \in Seq(Int)
BY DEF Reverse

\* Reversed, the buffer is the numeral.
LEMMA ReverseKeeps ==
  ASSUME IInv, reverse
  PROVE  WriteInv' /\ NumberInv' /\ pc' = "append"
<1>1. /\ pc = "reverse" /\ buffer' = Reverse(buffer) /\ pc' = "append"
      /\ format' = format /\ written' = written /\ arg' = arg /\ isNegative' = isNegative
      /\ base' = base /\ result' = result /\ printed' = printed
  BY DEF reverse
<1>2. WriteInv /\ NumberInv
  BY DEF IInv
<1>3. buffer' \in Seq(Int)
  BY <1>1, <1>2, ReverseType DEF WriteInv
<1>4. WriteInv'
  BY <1>1, <1>2, <1>3 DEF WriteInv, Converting, INT_MAX
<1>5. NumberInv'
  <2> SUFFICES ASSUME ~Odd' PROVE NumberInv'
    BY DEF NumberInv
  <2>1. ~Odd
    BY <1>1 DEF Odd, INT_MIN
  <2>2. PICK q, s : /\ s \in Seq(Int) /\ Divided(q, s) /\ base \in {10, 16}
                    /\ s = buffer /\ s # << >> /\ q[Len(s)] = 0
    BY <1>1, <1>2, <2>1 DEF NumberInv, Converting
  <2>3. Divided(q, s)'
    BY <1>1, <2>2 DEF Divided
  <2> QED
    BY <1>1, <2>2, <2>3 DEF NumberInv
<1> QED
  BY <1>1, <1>4, <1>5

\* The numeral that print_number is given.
LEMMA NumeralExact == IInv => NumbersExact
<1> SUFFICES ASSUME IInv, pc = "append", ~Odd
             PROVE  /\ \A k \in 1 .. Len(buffer) : buffer[k] \in 0 .. base - 1
                    /\ Len(buffer) > 1 => buffer[1] # 0
                    /\ arg = IF isNegative THEN -Magnitude ELSE Magnitude
  BY DEF NumbersExact, Odd
<1>1. PICK q, s : /\ s \in Seq(Int) /\ Divided(q, s) /\ base \in {10, 16}
                  /\ s # << >> /\ q[Len(s)] = 0 /\ buffer = Reverse(s)
  BY DEF IInv, NumberInv, Converting
<1>2. base \in Nat
  BY <1>1
<1>3. Magnitude = q[0]
  BY <1>1, <1>2, HornerBack
<1>4. arg = IF isNegative THEN -Magnitude ELSE Magnitude
  BY <1>1, <1>3 DEF Divided
<1> DEFINE len == Len(s)
<1>5. len \in Nat /\ Len(buffer) = len /\ \A k \in 1 .. len : buffer[k] = s[(len - k) + 1]
  BY <1>1 DEF Reverse
<1>6. /\ \A k \in 1 .. len : s[k] \in 0 .. base - 1 /\ q[k - 1] = q[k] * base + s[k]
      /\ \A k \in 1 .. len - 1 : q[k] # 0
      /\ q[len] = 0
  BY <1>1 DEF Divided
<1> HIDE DEF len
<1>7. ASSUME NEW k \in 1 .. len PROVE buffer[k] \in 0 .. base - 1
  <2>1. (len - k) + 1 \in 1 .. len
    BY <1>5, <1>7
  <2> QED
    BY <1>5, <1>6, <2>1
<1>8. ASSUME len > 1 PROVE buffer[1] # 0
  <2>1. len \in 1 .. len /\ 1 \in 1 .. len /\ len - 1 \in 1 .. len - 1 /\ (len - 1) + 1 = len
    BY <1>5, <1>8
  <2>2. buffer[1] = s[len] /\ s[len] \in Int
    BY <1>5, <1>6, <2>1
  <2>3. q[len - 1] = 0 * base + s[len] /\ q[len - 1] # 0
    BY <1>6, <2>1
  <2> QED
    BY <1>2, <2>2, <2>3
<1> QED
  BY <1>4, <1>5, <1>7, <1>8

(***************************************************************************)
(* The string functions.                                                   *)
(***************************************************************************)
\* A string ends at its first 0.
LEMMA LengthFacts ==
  ASSUME NEW m, NEW a \in 1 .. Cells + 1, IsString(m, a)
  PROVE  /\ Length(m, a) \in 0 .. Cells /\ Within(a, Length(m, a) + 1)
         /\ m[a + Length(m, a)] = 0
         /\ \A k \in 0 .. Length(m, a) - 1 : m[a + k] # 0
<1> DEFINE Z == {z \in 0 .. Cells : Within(a, z + 1) /\ m[a + z] = 0}
           P(z) == m[a + z] = 0 /\ \A k \in 0 .. z - 1 : m[a + k] # 0
           l == CHOOSE z \in 0 .. Cells : P(z)
<1>0. Cells \in Nat
  BY MemoryAssumption
<1>1. PICK f \in Z : \A z \in Z : f <= z
  <2>1. \E z \in 0 .. Cells : Within(a, z + 1) /\ m[a + z] = 0
    BY DEF IsString
  <2>2. Z # {}
    BY <2>1
  <2>3. Z \subseteq 0 .. Cells /\ 0 .. Cells \subseteq Nat
    BY <1>0
  <2> HIDE DEF Z
  <2> QED
    BY <2>2, <2>3, Least
<1>2. f \in 0 .. Cells /\ Within(a, f + 1) /\ m[a + f] = 0
  OBVIOUS
<1>3. \A k \in 0 .. f - 1 : m[a + k] # 0
  <2> SUFFICES ASSUME NEW k \in 0 .. f - 1, m[a + k] = 0 PROVE FALSE
    OBVIOUS
  <2>1. k \in 0 .. Cells /\ Within(a, k + 1) /\ k < f
    BY <1>0, <1>2 DEF Within
  <2> QED
    BY <1>1, <1>2, <2>1
<1>4. P(f)
  BY <1>2, <1>3
<1>5. l \in 0 .. Cells /\ P(l)
  <2> HIDE DEF P
  <2> QED
    BY <1>2, <1>4
<1>6. l = Length(m, a)
  BY DEF Length
<1> HIDE DEF l
<1>7. l = f
  <2>1. ~(l < f)
    BY <1>2, <1>3, <1>5
  <2>2. ~(f < l)
    BY <1>2, <1>5
  <2> QED
    BY <1>2, <1>5, <2>1, <2>2
<1> QED
  BY <1>2, <1>3, <1>6, <1>7

\* What the arguments of a call are.
LEMMA CallFacts ==
  ASSUME NEW c \in Calls
  PROVE  /\ c.fn \in Strings /\ c.dst \in 1 .. Cells + 1 /\ c.src \in 1 .. Cells + 1
         /\ c.n \in 0 .. Cells /\ c.c \in 0 .. Bytes
         /\ c.was \in [1 .. Cells -> 0 .. Bytes - 1]
BY DEF Calls, Memory

\* One more byte done, going up.
LEMMA DoneMore ==
  ASSUME call \in Calls, IsMem(mem), i \in Nat, Done(0, i), Dst \in 1 .. Cells,
         mem' = [mem EXCEPT ![Dst] = Goal(Dst)], call' = call
  PROVE  /\ \A a \in 1 .. Cells : mem'[a] = IF a \in call.dst + 0 .. call.dst + (i + 1) - 1
                                          THEN Goal(a) ELSE call.was[a]
         /\ IsMem(mem')
<1> DEFINE x == call.dst + i
<1>1. call.dst \in Nat /\ x \in 1 .. Cells /\ Dst = x /\ Cells \in Nat
  BY CallFacts, MemoryAssumption DEF Dst
<1>2. ASSUME NEW a \in 1 .. Cells PROVE mem'[a] = IF a = x THEN Goal(x) ELSE mem[a]
  BY <1>1 DEF IsMem
<1>3. IsMem(mem')
  BY <1>1 DEF IsMem
<1> HIDE DEF x
<1>5. ASSUME NEW a \in 1 .. Cells
      PROVE  mem'[a] = IF a \in call.dst + 0 .. call.dst + (i + 1) - 1 THEN Goal(a) ELSE call.was[a]
  <2>1. mem[a] = IF a \in call.dst + 0 .. call.dst + i - 1 THEN Goal(a) ELSE call.was[a]
    BY DEF Done
  <2>2. CASE a = x
    BY <1>1, <1>2, <2>2 DEF x
  <2>3. CASE a # x
    <3>1. a \in call.dst + 0 .. call.dst + i - 1 <=> a \in call.dst + 0 .. call.dst + (i + 1) - 1
      BY <1>1, <2>3 DEF x
    <3> QED
      BY <1>2, <2>1, <2>3, <3>1
  <2> QED
    BY <2>2, <2>3
<1> QED
  BY <1>3, <1>5

\* A loop that goes up has written one more cell of what it promises.
LEMMA DoneUp ==
  ASSUME call \in Calls, IsMem(mem), i \in Nat, Done(0, i), Dst \in 1 .. Cells,
         mem' = [mem EXCEPT ![Dst] = Goal(Dst)], call' = call, i' = i + 1
  PROVE  Done(0, i)' /\ IsMem(mem')
<1>1. /\ \A a \in 1 .. Cells : mem'[a] = IF a \in call.dst + 0 .. call.dst + (i + 1) - 1
                                        THEN Goal(a) ELSE call.was[a]
      /\ IsMem(mem')
  BY DoneMore
<1>2. \A a : Goal(a)' = Goal(a)
  BY DEF Goal
<1> QED
  BY <1>1, <1>2 DEF Done

\* One more byte done, going down.
LEMMA DoneDown ==
  ASSUME call \in Calls, IsMem(mem), i \in Nat \ {0}, i <= call.n, Done(i, call.n), Dst - 1 \in 1 .. Cells,
         mem' = [mem EXCEPT ![Dst - 1] = Goal(Dst - 1)], call' = call, i' = i - 1
  PROVE  Done(i, call.n)' /\ IsMem(mem')
<1> DEFINE x == (call.dst + i) - 1
<1>1. call.dst \in Nat /\ call.n \in Nat /\ x \in 1 .. Cells /\ Dst - 1 = x /\ Cells \in Nat
  BY CallFacts, MemoryAssumption DEF Dst
<1>2. ASSUME NEW a \in 1 .. Cells PROVE mem'[a] = IF a = x THEN Goal(x) ELSE mem[a]
  BY <1>1 DEF IsMem
<1>3. IsMem(mem')
  BY <1>1 DEF IsMem
<1>4. \A a : Goal(a)' = Goal(a)
  BY DEF Goal
<1> HIDE DEF x
<1>5. ASSUME NEW a \in 1 .. Cells
      PROVE  mem'[a] = IF a \in call.dst + (i - 1) .. call.dst + call.n - 1 THEN Goal(a) ELSE call.was[a]
  <2>1. mem[a] = IF a \in call.dst + i .. call.dst + call.n - 1 THEN Goal(a) ELSE call.was[a]
    BY DEF Done
  <2>2. CASE a = x
    BY <1>1, <1>2, <2>2 DEF x
  <2>3. CASE a # x
    <3>1. a \in call.dst + i .. call.dst + call.n - 1 <=> a \in call.dst + (i - 1) .. call.dst + call.n - 1
      BY <1>1, <2>3 DEF x
    <3> QED
      BY <1>2, <2>1, <2>3, <3>1
  <2> QED
    BY <2>2, <2>3
<1>6. Done(i, call.n)'
  BY <1>4, <1>5 DEF Done
<1> QED
  BY <1>3, <1>6

\* A turn of a loop, and the end of the function.
LEMMA GoesOn ==
  ASSUME StringInv, pc \in Strings \cup {"strncpy_pad"}, call' = call, IsMem(mem'), LoopInv',
         pc' = pc \/ (pc = "strncpy" /\ pc' = "strncpy_pad")
  PROVE  StringInv'
<1>1. call \in Calls /\ Permitted(call) /\ pc' # "string_returned" /\ pc \in InString
  BY DEF StringInv, InString, Strings
<1>2. call' \in Calls /\ Permitted(call')
  BY <1>1
<1>3. pc' \in Strings => call'.fn = pc'
  BY <1>1 DEF StringInv, Strings
<1>4. pc' = "strncpy_pad" => call'.fn = "strncpy"
  BY <1>1 DEF StringInv, Strings
<1>5. StringsExact'
  BY <1>1 DEF StringsExact
<1> QED
  BY <1>2, <1>3, <1>4, <1>5 DEF StringInv, Calls, Memory, IsMem

\* A call that returns with what it promises.
LEMMA Ends ==
  ASSUME StringInv, pc \in Strings \cup {"strncpy_pad"}, call' = call, IsMem(mem'),
         pc' = "string_returned", StringsExact'
  PROVE  StringInv'
<1>1. call \in Calls /\ Permitted(call) /\ pc \in InString
  BY DEF StringInv, InString, Strings
<1>2. call' \in Calls /\ Permitted(call') /\ pc' \notin Strings
  BY <1>1 DEF Strings
<1>3. LoopInv'
  BY DEF LoopInv
<1> QED
  BY <1>2, <1>3 DEF StringInv, Calls, Memory, IsMem

\* What holds inside a loop.
LEMMA Running ==
  ASSUME IInv, pc \in Strings \cup {"strncpy_pad"}
  PROVE  /\ StringInv /\ LoopInv /\ call \in Calls /\ Permitted(call) /\ IsMem(mem)
         /\ pc \in Strings => call.fn = pc
         /\ pc = "strncpy_pad" => call.fn = "strncpy"
BY DEF IInv, StringInv, InString

\* The byte about to be copied has not been overwritten by the copy.
LEMMA SourceIntact ==
  ASSUME call \in Calls, i \in Nat, Done(0, i), Src \in 1 .. Cells,
         Src < call.dst \/ call.dst <= call.src
  PROVE  mem[Src] = call.was[Src]
<1>1. call.dst \in Nat /\ call.src \in Nat
  BY CallFacts, MemoryAssumption
<1>2. Src \notin call.dst + 0 .. call.dst + i - 1
  BY <1>1 DEF Src
<1> QED
  BY <1>2 DEF Done

\* What a copy owes a cell is the byte the source had at the call.
LEMMA CopiedByte ==
  ASSUME call \in Calls, i \in Nat, call.fn \in {"memcpy", "memmove", "strcpy"}
  PROVE  Goal(Dst) = call.was[Src] /\ Goal(Dst - 1) = call.was[Src - 1]
<1>1. call.dst \in Nat /\ call.src \in Nat
  BY CallFacts, MemoryAssumption
<1>2. call.src + (Dst - call.dst) = Src /\ call.src + ((Dst - 1) - call.dst) = Src - 1
  BY <1>1 DEF Dst, Src
<1> QED
  BY <1>2 DEF Goal

\* When every byte of the destination is done, the function has what it promises.
LEMMA CopyReturns ==
  ASSUME call \in Calls, call.fn \in {"memcpy", "memmove"}, Done(0, call.n),
         call' = call, mem' = mem, ret' = call.dst
  PROVE  StringsExact'
<1>1. call.dst \in Nat /\ call.n \in Nat
  BY CallFacts, MemoryAssumption
<1>2. \A a \in 1 .. Cells :
        mem[a] = IF a \in call.dst .. call.dst + call.n - 1
                 THEN call.was[call.src + (a - call.dst)] ELSE call.was[a]
  BY <1>1 DEF Done, Goal
<1> QED
  BY <1>2 DEF StringsExact, Promises, Leaves

\* One turn of memcpy's loop.
LEMMA MemcpyKeeps ==
  ASSUME IInv, memcpy
  PROVE  StringInv' /\ pc' \in {"memcpy", "string_returned"}
<1>1. pc = "memcpy" /\ pc \in Strings /\ call' = call
  BY DEF memcpy, Strings
<1>2. /\ StringInv /\ call \in Calls /\ Permitted(call) /\ IsMem(mem) /\ call.fn = "memcpy"
      /\ i \in 0 .. call.n /\ Done(0, i)
  BY <1>1, Running DEF LoopInv
<1>3. /\ call.dst \in 1 .. Cells + 1 /\ call.src \in 1 .. Cells + 1 /\ call.n \in Nat /\ i \in Nat
      /\ Cells \in Nat
  BY <1>2, CallFacts, MemoryAssumption
<1>4. /\ call.dst + call.n <= Cells + 1 /\ call.src + call.n <= Cells + 1
      /\ call.dst + call.n <= call.src \/ call.src + call.n <= call.dst \/ call.dst < call.src
  BY <1>2 DEF Permitted, Within, Apart
<1>5. CASE i < call.n
  <2>1. Dst \in 1 .. Cells /\ Src \in 1 .. Cells /\ (Src < call.dst \/ call.dst <= call.src)
    BY <1>3, <1>4, <1>5 DEF Dst, Src
  <2>2. mem[Src] = Goal(Dst)
    BY <1>2, <1>3, <2>1, SourceIntact, CopiedByte
  <2>3. mem' = [mem EXCEPT ![Dst] = Goal(Dst)] /\ i' = i + 1 /\ pc' = pc
    BY <1>5, <2>2 DEF memcpy, Copy, Continue
  <2>4. Done(0, i)' /\ IsMem(mem')
    BY <1>1, <1>2, <1>3, <2>1, <2>3, DoneUp
  <2>5. i' \in 0 .. call'.n
    BY <1>1, <1>3, <1>5, <2>3
  <2>6. LoopInv'
    BY <1>1, <2>3, <2>4, <2>5 DEF LoopInv
  <2> QED
    BY <1>1, <1>2, <2>3, <2>4, <2>6, GoesOn
<1>6. CASE ~(i < call.n)
  <2>1. i = call.n
    BY <1>2, <1>3, <1>6
  <2>2. pc' = "string_returned" /\ ret' = call.dst /\ mem' = mem
    BY <1>6 DEF memcpy, Returns
  <2>3. StringsExact'
    BY <1>1, <1>2, <2>1, <2>2, CopyReturns
  <2> QED
    BY <1>1, <1>2, <2>2, <2>3, Ends
<1> QED
  BY <1>5, <1>6

\* memmove copies upwards to a lower address and downwards to a higher one, so the
\* bytes it has still to read are never among those it has written.
LEMMA MemmoveKeeps ==
  ASSUME IInv, memmove
  PROVE  StringInv' /\ pc' \in {"memmove", "string_returned"}
<1>1. pc = "memmove" /\ pc \in Strings /\ call' = call
  BY DEF memmove, Strings
<1>2. /\ StringInv /\ call \in Calls /\ Permitted(call) /\ IsMem(mem) /\ call.fn = "memmove"
      /\ i \in 0 .. call.n
      /\ IF call.dst < call.src THEN Done(0, i) ELSE Done(i, call.n)
  BY <1>1, Running DEF LoopInv
<1>3. /\ call.dst \in 1 .. Cells + 1 /\ call.src \in 1 .. Cells + 1 /\ call.n \in Nat /\ i \in Nat
      /\ Cells \in Nat
  BY <1>2, CallFacts, MemoryAssumption
<1>4. call.dst + call.n <= Cells + 1 /\ call.src + call.n <= Cells + 1
  BY <1>2 DEF Permitted, Within
<1>5. CASE call.dst < call.src /\ i < call.n
  <2>1. Dst \in 1 .. Cells /\ Src \in 1 .. Cells /\ call.dst <= call.src
    BY <1>3, <1>4, <1>5 DEF Dst, Src
  <2>2. mem[Src] = Goal(Dst)
    BY <1>2, <1>3, <1>5, <2>1, SourceIntact, CopiedByte
  <2>3. mem' = [mem EXCEPT ![Dst] = Goal(Dst)] /\ i' = i + 1 /\ pc' = pc
    BY <1>5, <2>2 DEF memmove, Copy, Continue
  <2>4. Done(0, i)' /\ IsMem(mem')
    BY <1>1, <1>2, <1>3, <1>5, <2>1, <2>3, DoneUp
  <2>5. i' \in 0 .. call'.n
    BY <1>1, <1>3, <1>5, <2>3
  <2>6. LoopInv'
    BY <1>1, <1>5, <2>3, <2>4, <2>5 DEF LoopInv
  <2> QED
    BY <1>1, <1>2, <2>3, <2>4, <2>6, GoesOn
<1>6. CASE ~(call.dst < call.src) /\ i # 0
  <2>1. /\ Dst - 1 \in 1 .. Cells /\ Src - 1 \in 1 .. Cells
        /\ Src - 1 \notin call.dst + i .. call.dst + call.n - 1
        /\ i \in Nat \ {0} /\ i <= call.n
    BY <1>2, <1>3, <1>4, <1>6 DEF Dst, Src
  <2>2. mem[Src - 1] = call.was[Src - 1]
    BY <1>2, <1>6, <2>1 DEF Done
  <2>3. mem[Src - 1] = Goal(Dst - 1)
    BY <1>2, <1>3, <2>2, CopiedByte
  <2>4. mem' = [mem EXCEPT ![Dst - 1] = Goal(Dst - 1)] /\ i' = i - 1 /\ pc' = pc
    BY <1>6, <2>3 DEF memmove, Copy
  <2>5. Done(i, call.n)' /\ IsMem(mem')
    BY <1>1, <1>2, <1>6, <2>1, <2>4, DoneDown
  <2>6. i' \in 0 .. call'.n
    BY <1>1, <1>3, <2>1, <2>4
  <2>7. LoopInv'
    BY <1>1, <1>6, <2>4, <2>5, <2>6 DEF LoopInv
  <2> QED
    BY <1>1, <1>2, <2>4, <2>5, <2>7, GoesOn
<1>7. CASE IF call.dst < call.src THEN ~(i < call.n) ELSE i = 0
  <2>1. Done(0, call.n)
    <3>1. call.dst < call.src => i = call.n
      BY <1>2, <1>3, <1>7
    <3> QED
      BY <1>2, <1>7, <3>1
  <2>2. pc' = "string_returned" /\ ret' = call.dst /\ mem' = mem
    BY <1>7 DEF memmove, Returns
  <2>3. StringsExact'
    BY <1>1, <1>2, <2>1, <2>2, CopyReturns
  <2> QED
    BY <1>1, <1>2, <2>2, <2>3, Ends
<1> QED
  BY <1>5, <1>6, <1>7

\* One turn of memset's loop.
LEMMA MemsetKeeps ==
  ASSUME IInv, memset
  PROVE  StringInv' /\ pc' \in {"memset", "string_returned"}
<1>1. pc = "memset" /\ pc \in Strings /\ call' = call
  BY DEF memset, Strings
<1>2. /\ StringInv /\ call \in Calls /\ Permitted(call) /\ IsMem(mem) /\ call.fn = "memset"
      /\ i \in 0 .. call.n /\ Done(0, i)
  BY <1>1, Running DEF LoopInv
<1>3. call.dst \in 1 .. Cells + 1 /\ call.n \in Nat /\ i \in Nat /\ Cells \in Nat
  BY <1>2, CallFacts, MemoryAssumption
<1>4. call.dst + call.n <= Cells + 1
  BY <1>2 DEF Permitted, Within
<1>5. \A a : Goal(a) = call.c % Bytes
  BY <1>2 DEF Goal
<1>6. CASE i < call.n
  <2>1. Dst \in 1 .. Cells
    BY <1>3, <1>4, <1>6 DEF Dst
  <2>2. mem' = [mem EXCEPT ![Dst] = Goal(Dst)] /\ i' = i + 1 /\ pc' = pc
    BY <1>5, <1>6 DEF memset, Continue
  <2>3. Done(0, i)' /\ IsMem(mem')
    BY <1>1, <1>2, <1>3, <2>1, <2>2, DoneUp
  <2>4. i' \in 0 .. call'.n
    BY <1>1, <1>3, <1>6, <2>2
  <2>5. LoopInv'
    BY <1>1, <2>2, <2>3, <2>4 DEF LoopInv
  <2> QED
    BY <1>1, <1>2, <2>2, <2>3, <2>5, GoesOn
<1>7. CASE ~(i < call.n)
  <2>1. i = call.n
    BY <1>2, <1>3, <1>7
  <2>2. pc' = "string_returned" /\ ret' = call.dst /\ mem' = mem
    BY <1>7 DEF memset, Returns
  <2>3. \A a \in 1 .. Cells :
          mem[a] = IF a \in call.dst .. call.dst + call.n - 1 THEN call.c % Bytes ELSE call.was[a]
    BY <1>2, <1>3, <1>5, <2>1 DEF Done
  <2>4. StringsExact'
    BY <1>1, <1>2, <2>2, <2>3 DEF StringsExact, Promises, Leaves
  <2> QED
    BY <1>1, <1>2, <2>2, <2>4, Ends
<1> QED
  BY <1>6, <1>7

\* One turn of strcpy's loop.
LEMMA StrcpyKeeps ==
  ASSUME IInv, strcpy
  PROVE  StringInv' /\ pc' \in {"strcpy", "string_returned"}
<1> DEFINE len == SrcLen
<1>1. pc = "strcpy" /\ pc \in Strings /\ call' = call
  BY DEF strcpy, Strings
<1>2. /\ StringInv /\ call \in Calls /\ Permitted(call) /\ IsMem(mem) /\ call.fn = "strcpy"
      /\ i \in 0 .. len /\ Done(0, i)
  BY <1>1, Running DEF LoopInv
<1>3. /\ call.dst \in 1 .. Cells + 1 /\ call.src \in 1 .. Cells + 1 /\ Cells \in Nat
  BY <1>2, CallFacts, MemoryAssumption
<1>4. /\ IsString(call.was, call.src) /\ call.dst + (len + 1) <= Cells + 1
      /\ call.dst + (len + 1) <= call.src \/ call.src + (len + 1) <= call.dst
  BY <1>2 DEF Permitted, Within, Apart, SrcLen
<1>5. /\ len \in 0 .. Cells /\ call.src + (len + 1) <= Cells + 1
      /\ call.was[call.src + len] = 0 /\ \A k \in 0 .. len - 1 : call.was[call.src + k] # 0
  BY <1>3, <1>4, LengthFacts DEF SrcLen, Within
<1>6. len' = len
  BY <1>1 DEF SrcLen, Length
<1> HIDE DEF len
<1>7. /\ i \in Nat /\ len \in Nat /\ Dst \in 1 .. Cells /\ Src \in 1 .. Cells
      /\ Src < call.dst \/ call.dst <= call.src
  BY <1>2, <1>3, <1>4, <1>5 DEF Dst, Src
<1>8. mem[Src] = call.was[Src] /\ mem[Src] = Goal(Dst)
  BY <1>2, <1>7, SourceIntact, CopiedByte
<1>9. mem' = [mem EXCEPT ![Dst] = Goal(Dst)]
  BY <1>8 DEF strcpy, Copy
<1>10. CASE mem[Src] # 0
  <2>1. i' = i + 1 /\ pc' = pc
    BY <1>10 DEF strcpy, Continue
  <2>2. Done(0, i)' /\ IsMem(mem')
    BY <1>1, <1>2, <1>7, <1>9, <2>1, DoneUp
  <2>3. i # len
    BY <1>5, <1>8, <1>10 DEF Src
  <2>4. i' \in 0 .. len'
    BY <1>2, <1>6, <1>7, <2>1, <2>3
  <2>5. LoopInv'
    BY <1>1, <2>1, <2>2, <2>4 DEF LoopInv, len
  <2> QED
    BY <1>1, <1>2, <2>1, <2>2, <2>5, GoesOn
<1>11. CASE mem[Src] = 0
  <2>1. pc' = "string_returned" /\ ret' = call.dst
    BY <1>11 DEF strcpy
  <2>2. i = len
    <3>1. i \notin 0 .. len - 1
      BY <1>5, <1>8, <1>11 DEF Src
    <3> QED
      BY <1>2, <1>7, <3>1
  <2>3. /\ \A a \in 1 .. Cells : mem'[a] = IF a \in call.dst + 0 .. call.dst + (i + 1) - 1
                                          THEN Goal(a) ELSE call.was[a]
        /\ IsMem(mem')
    BY <1>1, <1>2, <1>7, <1>9, DoneMore
  <2>4. \A a \in 1 .. Cells :
          mem'[a] = IF a \in call.dst .. call.dst + (len + 1) - 1
                    THEN call.was[call.src + (a - call.dst)] ELSE call.was[a]
    BY <1>2, <1>3, <1>7, <2>2, <2>3 DEF Goal
  <2>5. StringsExact'
    BY <1>1, <1>2, <2>1, <2>4 DEF StringsExact, Promises, Leaves, SrcLen, len
  <2> QED
    BY <1>1, <1>2, <2>1, <2>3, <2>5, Ends
<1> QED
  BY <1>10, <1>11

\* The bytes strncpy has to write: the string's, then 0.
LEMMA PaddedByte ==
  ASSUME call \in Calls, i \in Nat, call.fn = "strncpy", SrcLen \in Nat
  PROVE  Goal(Dst) = IF i < SrcLen THEN call.was[Src] ELSE 0
<1>1. call.dst \in Nat /\ call.src \in Nat
  BY CallFacts, MemoryAssumption
<1>2. call.src + (Dst - call.dst) = Src /\ Dst - call.dst = i
  BY <1>1 DEF Dst, Src
<1> QED
  BY <1>2 DEF Goal, SrcLen

\* One turn of strncpy's copying loop.
LEMMA StrncpyKeeps ==
  ASSUME IInv, strncpy
  PROVE  StringInv' /\ pc' \in {"strncpy", "strncpy_pad"}
<1> DEFINE len == SrcLen
<1>1. pc = "strncpy" /\ pc \in Strings /\ call' = call
  BY DEF strncpy, Strings
<1>2. /\ StringInv /\ call \in Calls /\ Permitted(call) /\ IsMem(mem) /\ call.fn = "strncpy"
      /\ i \in 0 .. call.n /\ i <= len /\ Done(0, i)
  BY <1>1, Running DEF LoopInv
<1>3. /\ call.dst \in 1 .. Cells + 1 /\ call.src \in 1 .. Cells + 1 /\ call.n \in Nat /\ Cells \in Nat
  BY <1>2, CallFacts, MemoryAssumption
<1>4. /\ IsString(call.was, call.src) /\ call.dst + call.n <= Cells + 1
      /\ call.dst + call.n <= call.src \/ call.src + len < call.dst
  BY <1>2 DEF Permitted, Within, SrcLen
<1>5. /\ len \in 0 .. Cells /\ call.src + (len + 1) <= Cells + 1
      /\ call.was[call.src + len] = 0 /\ \A k \in 0 .. len - 1 : call.was[call.src + k] # 0
  BY <1>3, <1>4, LengthFacts DEF SrcLen, Within
<1>6. len' = len
  BY <1>1 DEF SrcLen, Length
<1>7. i \in Nat /\ len \in Nat /\ Goal(Dst) = IF i < len THEN call.was[Src] ELSE 0
  BY <1>2, <1>3, <1>5, PaddedByte
<1> HIDE DEF len
<1>8. ASSUME i < call.n
      PROVE  /\ Dst \in 1 .. Cells /\ Src \in 1 .. Cells
             /\ mem[Src] = call.was[Src]
             /\ mem[Src] # 0 <=> i < len
  <2>1. /\ Dst \in 1 .. Cells /\ Src \in 1 .. Cells
        /\ Src < call.dst \/ call.dst <= call.src
    BY <1>2, <1>3, <1>4, <1>5, <1>7, <1>8 DEF Dst, Src
  <2>2. mem[Src] = call.was[Src]
    BY <1>2, <1>7, <2>1, SourceIntact
  <2>3. CASE i < len
    <3>1. i \in 0 .. len - 1
      BY <1>7, <2>3
    <3> QED
      BY <1>5, <2>1, <2>2, <2>3, <3>1 DEF Src
  <2>4. CASE ~(i < len)
    <3>1. i = len
      BY <1>2, <1>7, <2>4
    <3> QED
      BY <1>5, <2>1, <2>2, <2>4, <3>1 DEF Src
  <2> QED
    BY <2>3, <2>4
<1>9. CASE i < call.n /\ mem[Src] # 0
  <2>1. mem' = [mem EXCEPT ![Dst] = mem[Src]] /\ i' = i + 1 /\ pc' = pc
    BY <1>9 DEF strncpy, Copy, Continue
  <2>2. mem' = [mem EXCEPT ![Dst] = Goal(Dst)]
    BY <1>7, <1>8, <1>9, <2>1
  <2>3. Done(0, i)' /\ IsMem(mem')
    BY <1>1, <1>2, <1>7, <1>8, <1>9, <2>1, <2>2, DoneUp
  <2>4. i' \in 0 .. call'.n /\ i' <= len'
    BY <1>1, <1>3, <1>6, <1>7, <1>8, <1>9, <2>1
  <2>5. LoopInv'
    BY <1>1, <2>1, <2>3, <2>4 DEF LoopInv, len
  <2> QED
    BY <1>1, <1>2, <2>1, <2>3, <2>5, GoesOn
<1>10. CASE ~(i < call.n /\ mem[Src] # 0)
  <2>1. mem' = mem /\ i' = i /\ pc' = "strncpy_pad"
    BY <1>10 DEF strncpy
  <2>2. i = call.n \/ len <= i
    BY <1>2, <1>3, <1>7, <1>8, <1>10
  <2>3. Done(0, i)'
    BY <1>1, <1>2, <2>1 DEF Done, Goal
  <2>4. LoopInv'
    BY <1>1, <1>2, <1>6, <2>1, <2>2, <2>3 DEF LoopInv, len
  <2> QED
    BY <1>1, <1>2, <2>1, <2>4, GoesOn
<1> QED
  BY <1>9, <1>10

\* One turn of strncpy's padding loop.
LEMMA StrncpyPadKeeps ==
  ASSUME IInv, strncpy_pad
  PROVE  StringInv' /\ pc' \in {"strncpy_pad", "string_returned"}
<1> DEFINE len == SrcLen
<1>1. pc = "strncpy_pad" /\ call' = call
  BY DEF strncpy_pad
<1>2. /\ StringInv /\ call \in Calls /\ Permitted(call) /\ IsMem(mem) /\ call.fn = "strncpy"
      /\ i \in 0 .. call.n /\ Done(0, i) /\ (i = call.n \/ len <= i)
  BY <1>1, Running DEF LoopInv
<1>3. /\ call.dst \in 1 .. Cells + 1 /\ call.src \in 1 .. Cells + 1 /\ call.n \in Nat /\ Cells \in Nat
  BY <1>2, CallFacts, MemoryAssumption
<1>4. IsString(call.was, call.src) /\ call.dst + call.n <= Cells + 1
  BY <1>2 DEF Permitted, Within
<1>5. len \in Nat
  BY <1>3, <1>4, LengthFacts DEF SrcLen
<1>6. len' = len
  BY <1>1 DEF SrcLen, Length
<1>7. i \in Nat /\ Goal(Dst) = IF i < len THEN call.was[Src] ELSE 0
  BY <1>2, <1>3, <1>5, PaddedByte
<1>8. CASE i < call.n
  <2> HIDE DEF len
  <2>1. Dst \in 1 .. Cells
    BY <1>3, <1>4, <1>7, <1>8 DEF Dst
  <2>2. mem' = [mem EXCEPT ![Dst] = 0] /\ i' = i + 1 /\ pc' = pc
    BY <1>8 DEF strncpy_pad, Continue
  <2>3. Goal(Dst) = 0
    BY <1>2, <1>3, <1>5, <1>7, <1>8
  <2>4. Done(0, i)' /\ IsMem(mem')
    BY <1>1, <1>2, <1>7, <2>1, <2>2, <2>3, DoneUp
  <2>5. i' \in 0 .. call'.n /\ len' <= i'
    BY <1>1, <1>2, <1>3, <1>5, <1>6, <1>7, <1>8, <2>2
  <2>6. LoopInv'
    BY <1>1, <2>2, <2>4, <2>5 DEF LoopInv, len
  <2> QED
    BY <1>1, <1>2, <2>2, <2>4, <2>6, GoesOn
<1>9. CASE ~(i < call.n)
  <2>1. i = call.n
    BY <1>2, <1>3, <1>9
  <2>2. pc' = "string_returned" /\ ret' = call.dst /\ mem' = mem
    BY <1>9 DEF strncpy_pad, Returns
  <2>3. \A a \in 1 .. Cells :
          mem[a] = IF a \in call.dst .. call.dst + call.n - 1
                   THEN IF a - call.dst < len THEN call.was[call.src + (a - call.dst)] ELSE 0
                   ELSE call.was[a]
    <3> SUFFICES ASSUME NEW a \in 1 .. Cells
                 PROVE  mem[a] = IF a \in call.dst .. call.dst + call.n - 1
                                 THEN IF a - call.dst < len THEN call.was[call.src + (a - call.dst)] ELSE 0
                                 ELSE call.was[a]
      OBVIOUS
    <3>1. Goal(a) = IF a - call.dst < len THEN call.was[call.src + (a - call.dst)] ELSE 0
      BY <1>2, <1>3, <1>5 DEF Goal, SrcLen
    <3>2. mem[a] = IF a \in call.dst + 0 .. call.dst + i - 1 THEN Goal(a) ELSE call.was[a]
      BY <1>2 DEF Done
    <3> QED
      BY <1>3, <2>1, <3>1, <3>2
  <2>4. StringsExact'
    BY <1>1, <1>2, <2>2, <2>3 DEF StringsExact, Promises, Leaves, SrcLen
  <2> QED
    BY <1>1, <1>2, <2>2, <2>4, Ends
<1> QED
  BY <1>8, <1>9

\* The least element is the one CHOOSE names.
LEMMA FirstIs ==
  ASSUME NEW S, S \subseteq Int, NEW x \in S, \A l \in S : x <= l
  PROVE  (CHOOSE k \in S : \A l \in S : k <= l) = x
<1> DEFINE y == CHOOSE k \in S : \A l \in S : k <= l
<1>1. y \in S /\ \A l \in S : y <= l
  OBVIOUS
<1> HIDE DEF y
<1>2. y = x
  BY <1>1
<1> QED
  BY <1>2 DEF y

\* memcmp stops at the first place where the regions differ.
LEMMA MemcmpKeeps ==
  ASSUME IInv, memcmp
  PROVE  StringInv' /\ pc' \in {"memcmp", "string_returned"}
<1>1. pc = "memcmp" /\ pc \in Strings /\ call' = call
  BY DEF memcmp, Strings
<1>2. /\ StringInv /\ call \in Calls /\ Permitted(call) /\ IsMem(mem) /\ call.fn = "memcmp"
      /\ mem = call.was /\ i \in Nat /\ i <= call.n
      /\ \A k \in 0 .. i - 1 : call.was[call.dst + k] = call.was[call.src + k]
  BY <1>1, Running DEF LoopInv
<1>3. /\ call.dst \in 1 .. Cells + 1 /\ call.src \in 1 .. Cells + 1 /\ call.n \in Nat /\ Cells \in Nat
  BY <1>2, CallFacts, MemoryAssumption
<1>4. call.dst + call.n <= Cells + 1 /\ call.src + call.n <= Cells + 1
  BY <1>2 DEF Permitted, Within
<1>5. ASSUME i # call.n
      PROVE  /\ i \in 0 .. call.n - 1 /\ Dst \in 1 .. Cells /\ Src \in 1 .. Cells
             /\ mem[Dst] \in Int /\ mem[Src] \in Int
             /\ mem[Dst] = call.was[call.dst + i] /\ mem[Src] = call.was[call.src + i]
  <2>1. i \in 0 .. call.n - 1 /\ Dst \in 1 .. Cells /\ Src \in 1 .. Cells
    BY <1>2, <1>3, <1>4, <1>5 DEF Dst, Src
  <2>2. call.was[Dst] \in 0 .. Bytes - 1 /\ call.was[Src] \in 0 .. Bytes - 1
    BY <1>2, <2>1, CallFacts
  <2> QED
    BY <1>2, <2>1, <2>2 DEF Dst, Src
<1> DEFINE D == {k \in 0 .. call'.n - 1 : call'.was[call'.dst + k] # call'.was[call'.src + k]}
           First == CHOOSE k \in D : \A l \in D : k <= l
<1>6. CASE i = call.n
  <2>1. pc' = "string_returned" /\ ret' = 0 /\ mem' = mem
    BY <1>6 DEF memcmp, Returns
  <2>2. D = {}
    BY <1>1, <1>2, <1>6
  <2>3. StringsExact'
    BY <1>1, <1>2, <2>1, <2>2 DEF StringsExact, Promises
  <2> QED
    BY <1>1, <1>2, <2>1, <2>3, Ends
<1>7. CASE i # call.n /\ mem[Dst] # mem[Src]
  <2>1. pc' = "string_returned" /\ mem' = mem /\ ret' = IF mem[Dst] < mem[Src] THEN -1 ELSE 1
    BY <1>5, <1>7 DEF memcmp, Returns
  <2>2. i \in D
    BY <1>1, <1>5, <1>7
  <2>3. \A l \in D : i <= l
    <3> SUFFICES ASSUME NEW l \in D, l < i PROVE FALSE
      BY <1>2, <1>1, <1>3
    <3>1. l \in 0 .. i - 1 /\ call.was[call.dst + l] # call.was[call.src + l]
      BY <1>1, <1>2, <1>3
    <3> QED
      BY <1>2, <3>1
  <2>4. First = i
    <3>1. D \subseteq Int
      OBVIOUS
    <3> HIDE DEF D
    <3> QED
      BY <2>2, <2>3, <3>1, FirstIs
  <2>5. ret' = IF call'.was[call'.dst + First] < call'.was[call'.src + First] THEN -1 ELSE 1
    <3> HIDE DEF First
    <3> QED
      BY <1>1, <1>5, <1>7, <2>1, <2>4
  <2>6. D # {} /\ mem' = call'.was /\ call'.fn = "memcmp"
    BY <1>1, <1>2, <2>1, <2>2
  <2>7. StringsExact'
    BY <2>5, <2>6 DEF StringsExact, Promises
  <2> QED
    BY <1>1, <1>2, <2>1, <2>7, Ends
<1>8. CASE i # call.n /\ mem[Dst] = mem[Src]
  <2>1. mem' = mem /\ i' = i + 1 /\ pc' = pc
    BY <1>5, <1>8 DEF memcmp, Continue
  <2>2. i' \in Nat /\ i' <= call.n
    BY <1>2, <1>3, <1>5, <1>8, <2>1
  <2>3. \A k \in 0 .. i' - 1 : call.was[call.dst + k] = call.was[call.src + k]
    <3> SUFFICES ASSUME NEW k \in 0 .. i' - 1
                 PROVE  call.was[call.dst + k] = call.was[call.src + k]
      OBVIOUS
    <3>1. k \in 0 .. i - 1 \/ k = i
      BY <1>2, <2>1
    <3> QED
      BY <1>2, <1>5, <1>8, <3>1
  <2>4. LoopInv'
    BY <1>1, <1>2, <2>1, <2>2, <2>3 DEF LoopInv
  <2> QED
    BY <1>1, <1>2, <2>1, <2>4, GoesOn
<1> QED
  BY <1>6, <1>7, <1>8

\* One turn of memchr's loop.
LEMMA MemchrKeeps ==
  ASSUME IInv, memchr
  PROVE  StringInv' /\ pc' \in {"memchr", "string_returned"}
<1>1. pc = "memchr" /\ pc \in Strings /\ call' = call
  BY DEF memchr, Strings
<1> DEFINE c == call.c % Bytes
<1>2. /\ StringInv /\ call \in Calls /\ Permitted(call) /\ IsMem(mem) /\ call.fn = "memchr"
      /\ mem = call.was /\ i \in Nat /\ i <= call.n
      /\ \A k \in 0 .. i - 1 : call.was[call.dst + k] # c
  BY <1>1, Running DEF LoopInv
<1>3. call.dst \in 1 .. Cells + 1 /\ call.n \in Nat /\ Cells \in Nat
  BY <1>2, CallFacts, MemoryAssumption
<1> DEFINE Found == {a \in call'.dst .. call'.dst + call'.n - 1 : call'.was[a] = call'.c % Bytes}
           First == CHOOSE k \in Found : \A l \in Found : k <= l
<1>4. ASSUME NEW a \in Found PROVE call.dst + i <= a
  <2> SUFFICES ASSUME a < call.dst + i PROVE FALSE
    BY <1>1, <1>2, <1>3, <1>4
  <2>1. a - call.dst \in 0 .. i - 1 /\ call.dst + (a - call.dst) = a /\ call.was[a] = c
    BY <1>1, <1>2, <1>3
  <2> QED
    BY <1>2, <2>1
<1>5. CASE i = call.n
  <2>1. pc' = "string_returned" /\ ret' = NULL /\ mem' = mem
    BY <1>5 DEF memchr, Returns
  <2>2. Found = {}
    <3> SUFFICES ASSUME NEW a \in Found PROVE FALSE
      OBVIOUS
    <3>1. call.dst + i <= a /\ a \in call.dst .. call.dst + call.n - 1
      BY <1>1, <1>4
    <3> QED
      BY <1>3, <1>5, <3>1
  <2>3. StringsExact'
    BY <1>1, <1>2, <2>1, <2>2 DEF StringsExact, Promises
  <2> QED
    BY <1>1, <1>2, <2>1, <2>3, Ends
<1>6. CASE i # call.n /\ mem[Dst] = c
  <2>1. pc' = "string_returned" /\ ret' = Dst /\ mem' = mem
    BY <1>6 DEF memchr, Returns
  <2>2. Dst \in Found
    BY <1>1, <1>2, <1>3, <1>6 DEF Dst
  <2>3. First = Dst
    <3>1. Found \subseteq Int /\ \A a \in Found : Dst <= a
      BY <1>4 DEF Dst
    <3> HIDE DEF Found
    <3> QED
      BY <2>2, <3>1, FirstIs
  <2>4. Found # {} /\ mem' = call'.was /\ call'.fn = "memchr" /\ ret' = First
    <3> HIDE DEF First
    <3> QED
      BY <1>1, <1>2, <2>1, <2>2, <2>3
  <2>5. ret' = IF Found = {} THEN NULL ELSE First
    BY <2>4
  <2>6. StringsExact'
    BY <2>4, <2>5 DEF StringsExact, Promises, Leaves
  <2> QED
    BY <1>1, <1>2, <2>1, <2>6, Ends
<1>7. CASE i # call.n /\ mem[Dst] # c
  <2>1. mem' = mem /\ i' = i + 1 /\ pc' = pc
    BY <1>7 DEF memchr, Continue
  <2>2. i' \in Nat /\ i' <= call.n
    BY <1>2, <1>3, <1>7, <2>1
  <2>3. \A k \in 0 .. i' - 1 : call.was[call.dst + k] # c
    <3> SUFFICES ASSUME NEW k \in 0 .. i' - 1 PROVE call.was[call.dst + k] # c
      OBVIOUS
    <3>1. k \in 0 .. i - 1 \/ k = i
      BY <1>2, <2>1
    <3>2. call.was[call.dst + i] # c
      BY <1>2, <1>7 DEF Dst
    <3> QED
      BY <1>2, <3>1, <3>2
  <2>4. LoopInv'
    BY <1>1, <1>2, <2>1, <2>2, <2>3 DEF LoopInv
  <2> QED
    BY <1>1, <1>2, <2>1, <2>4, GoesOn
<1> QED
  BY <1>5, <1>6, <1>7

\* One turn of strlen's loop.
LEMMA StrlenKeeps ==
  ASSUME IInv, strlen
  PROVE  StringInv' /\ pc' \in {"strlen", "string_returned"}
<1> DEFINE len == Length(call.was, call.dst)
<1>1. pc = "strlen" /\ pc \in Strings /\ call' = call
  BY DEF strlen, Strings
<1>2. /\ StringInv /\ call \in Calls /\ Permitted(call) /\ IsMem(mem) /\ call.fn = "strlen"
      /\ mem = call.was /\ i \in Nat /\ i <= len
  BY <1>1, Running DEF LoopInv
<1>3. call.dst \in 1 .. Cells + 1 /\ IsString(call.was, call.dst)
  BY <1>2, CallFacts DEF Permitted
<1>4. /\ len \in Nat /\ call.was[call.dst + len] = 0
      /\ \A k \in 0 .. len - 1 : call.was[call.dst + k] # 0
  BY <1>3, LengthFacts, MemoryAssumption
<1>5. len' = len
  BY <1>1
<1> HIDE DEF len
<1>6. CASE mem[Dst] = 0
  <2>1. pc' = "string_returned" /\ ret' = i /\ mem' = mem
    BY <1>6 DEF strlen, Returns
  <2>2. i = len
    <3>1. i \notin 0 .. len - 1
      BY <1>2, <1>4, <1>6 DEF Dst
    <3> QED
      BY <1>2, <1>4, <3>1
  <2>3. StringsExact'
    BY <1>1, <1>2, <1>5, <2>1, <2>2 DEF StringsExact, Promises, len
  <2> QED
    BY <1>1, <1>2, <2>1, <2>3, Ends
<1>7. CASE mem[Dst] # 0
  <2>1. mem' = mem /\ i' = i + 1 /\ pc' = pc
    BY <1>7 DEF strlen, Continue
  <2>2. i # len
    BY <1>2, <1>4, <1>7 DEF Dst
  <2>3. i' \in Nat /\ i' <= len'
    BY <1>2, <1>4, <1>5, <2>1, <2>2
  <2>4. LoopInv'
    BY <1>1, <1>2, <2>1, <2>3 DEF LoopInv, len
  <2> QED
    BY <1>1, <1>2, <2>1, <2>4, GoesOn
<1> QED
  BY <1>6, <1>7

\* A call begins with nothing done.
LEMMA CallBegins ==
  ASSUME IInv, NEW c \in Calls, string_call(c)
  PROVE  StringInv' /\ pc' \in Strings
<1>1. /\ Permitted(c) /\ call' = c /\ mem' = c.was /\ pc' = c.fn
      /\ i' = IF c.fn = "memmove" /\ c.dst >= c.src THEN c.n ELSE 0
  BY DEF string_call
<1>2. /\ c.fn \in Strings /\ c.dst \in 1 .. Cells + 1 /\ c.src \in 1 .. Cells + 1 /\ c.n \in Nat
      /\ Cells \in Nat
  BY CallFacts, MemoryAssumption
<1>3. IsMem(c.was)
  BY CallFacts DEF IsMem
<1>4. pc' # "string_returned" /\ pc' # "strncpy_pad" /\ pc' \in Strings
  BY <1>1, <1>2 DEF Strings
<1>5. ASSUME NEW k \in Nat PROVE \A a \in 1 .. Cells : a \notin c.dst + k .. c.dst + k - 1
  BY <1>2
<1>6. i' = 0 => Done(0, i)'
  <2>1. \A a \in 1 .. Cells : a \notin c.dst + 0 .. c.dst + 0 - 1
    BY <1>5
  <2> QED
    BY <1>1, <2>1 DEF Done
<1>7. i' = c.n => Done(i, call.n)'
  <2>1. \A a \in 1 .. Cells : a \notin c.dst + c.n .. c.dst + c.n - 1
    BY <1>2, <1>5
  <2> QED
    BY <1>1, <2>1 DEF Done
<1>8. c.fn # "memmove" => i' = 0
  BY <1>1
<1>9. c.fn = "memmove" => /\ i' \in 0 .. c.n
                          /\ IF c.dst < c.src THEN i' = 0 ELSE i' = c.n
  BY <1>1, <1>2
<1>10. c.fn \in {"strcpy", "strncpy"} => Length(c.was, c.src) \in Nat
  <2>1. c.fn \in {"strcpy", "strncpy"} => IsString(c.was, c.src)
    BY <1>1 DEF Permitted
  <2> QED
    BY <1>2, <2>1, LengthFacts
<1>11. c.fn = "strlen" => Length(c.was, c.dst) \in Nat
  <2>1. c.fn = "strlen" => IsString(c.was, c.dst)
    BY <1>1 DEF Permitted
  <2> QED
    BY <1>2, <2>1, LengthFacts
<1>12. LoopInv'
  <2>1. CASE c.fn \in {"memcpy", "memset"}
    BY <1>1, <1>2, <1>6, <1>8, <2>1 DEF LoopInv
  <2>2. CASE c.fn = "memmove"
    BY <1>1, <1>6, <1>7, <1>9, <2>2 DEF LoopInv
  <2>3. CASE c.fn = "strcpy"
    BY <1>1, <1>6, <1>8, <1>10, <2>3 DEF LoopInv, SrcLen
  <2>4. CASE c.fn = "strncpy"
    BY <1>1, <1>2, <1>6, <1>8, <1>10, <2>4 DEF LoopInv, SrcLen
  <2>5. CASE c.fn \in {"memcmp", "memchr"}
    BY <1>1, <1>2, <1>8, <2>5 DEF LoopInv
  <2>6. CASE c.fn = "strlen"
    BY <1>1, <1>8, <1>11, <2>6 DEF LoopInv
  <2> QED
    BY <1>2, <2>1, <2>2, <2>3, <2>4, <2>5, <2>6 DEF Strings
<1>13. StringsExact'
  BY <1>4 DEF StringsExact
<1>14. call' \in Calls /\ Permitted(call') /\ IsMem(mem')
  BY <1>1, <1>3
<1> QED
  BY <1>1, <1>4, <1>12, <1>13, <1>14 DEF StringInv, Calls, Memory, IsMem

(***************************************************************************)
(* Together.                                                               *)
(***************************************************************************)
Stringing ==
    \/ pc = "idle" /\ \E c \in Calls : string_call(c)
    \/ memcpy \/ memmove \/ memset \/ memcmp \/ memchr
    \/ strlen \/ strcpy \/ strncpy \/ strncpy_pad

\* A step outside the string functions leaves none of them running.
LEMMA NoString ==
  ASSUME pc' \notin InString
  PROVE  StringInv'
BY DEF StringInv, InString

\* Outside the conversions nothing is claimed of the buffer.
LEMMA NoNumber ==
  ASSUME pc' \notin Converting
  PROVE  NumberInv'
BY DEF NumberInv, Converting

\* A step of a string function keeps the invariant.
LEMMA StringingKeeps ==
  ASSUME IInv, Stringing
  PROVE  IInv'
<1>1. StringInv' /\ pc' \in InString
  <2>1. ASSUME NEW c \in Calls, string_call(c) PROVE StringInv' /\ pc' \in InString
    BY <2>1, CallBegins DEF InString, Strings
  <2>2. CASE memcpy
    BY <2>2, MemcpyKeeps DEF InString, Strings
  <2>3. CASE memmove
    BY <2>3, MemmoveKeeps DEF InString, Strings
  <2>4. CASE memset
    BY <2>4, MemsetKeeps DEF InString, Strings
  <2>5. CASE memcmp
    BY <2>5, MemcmpKeeps DEF InString, Strings
  <2>6. CASE memchr
    BY <2>6, MemchrKeeps DEF InString, Strings
  <2>7. CASE strlen
    BY <2>7, StrlenKeeps DEF InString, Strings
  <2>8. CASE strcpy
    BY <2>8, StrcpyKeeps DEF InString, Strings
  <2>9. CASE strncpy
    BY <2>9, StrncpyKeeps DEF InString, Strings
  <2>10. CASE strncpy_pad
    BY <2>10, StrncpyPadKeeps DEF InString, Strings
  <2> QED
    BY <2>1, <2>2, <2>3, <2>4, <2>5, <2>6, <2>7, <2>8, <2>9, <2>10 DEF Stringing
<1>2. UNCHANGED stdio
  BY DEF Stringing, string_call, memcpy, memmove, memset, memcmp, memchr, strlen, strcpy,
         strncpy, strncpy_pad
<1>3. /\ format' = format /\ written' = written /\ printed' = printed /\ buffer' = buffer
      /\ pc' \notin Converting /\ pc' # "returned" /\ pc' # "digits"
  BY <1>1, <1>2 DEF stdio, number, Converting, InString, Strings
<1>4. WriteInv'
  BY <1>3 DEF IInv, WriteInv, INT_MAX
<1> QED
  BY <1>1, <1>3, <1>4, NoNumber DEF IInv, Places

\* The steps of vprintf that print nothing.
LEMMA ReadingKeeps ==
  ASSUME IInv, (\E f \in Formats : vprintf(f)) \/ long_other \/ vprintf_return \/ Answered
  PROVE  IInv'
<1>1. WriteInv
  BY DEF IInv
<1>2. WriteInv' /\ pc' \in {"vprintf", "returned", "idle"}
  <2>1. ASSUME NEW f \in Formats, vprintf(f) PROVE WriteInv' /\ pc' \in {"vprintf", "returned", "idle"}
    <3>1. f \in Seq(Directives)
      BY FormatAssumption
    <3> QED
      BY <1>1, <2>1, <3>1 DEF vprintf, WriteInv, Converting, number, INT_MAX
  <2>2. CASE long_other
    <3>1. pc' = "vprintf" /\ format' = Tail(format) /\ format # << >>
      BY <2>2 DEF long_other, At
    <3>2. Tail(format) \in Seq(Directives)
      BY <1>1, <3>1, TailOfFormat
    <3> QED
      BY <1>1, <2>2, <3>1, <3>2 DEF long_other, WriteInv, Converting, number, INT_MAX
  <2>3. CASE vprintf_return
    BY <1>1, <2>3 DEF vprintf_return, WriteInv, Converting, number, INT_MAX
  <2>4. CASE Answered
    BY <1>1, <2>4, IntMax, EmptySequences DEF Answered, WriteInv, Converting, number, INT_MAX
  <2> QED
    BY <2>1, <2>2, <2>3, <2>4
<1>3. pc' \notin InString /\ pc' \notin Converting /\ pc' \in Places
  BY <1>2 DEF InString, Strings, Converting, Places
<1> QED
  BY <1>2, <1>3, NoString, NoNumber DEF IInv

\* The invariant looks at nothing but the variables.
LEMMA StutterKeeps ==
  ASSUME IInv, UNCHANGED vars
  PROVE  IInv'
<1>1. /\ pc' = pc /\ format' = format /\ written' = written /\ result' = result /\ printed' = printed
      /\ arg' = arg /\ value' = value /\ isNegative' = isNegative /\ base' = base
      /\ buffer' = buffer /\ mem' = mem /\ i' = i /\ call' = call /\ ret' = ret
  BY DEF vars, stdio, number, string
<1>2. WriteInv'
  BY <1>1 DEF IInv, WriteInv, INT_MAX
<1>3. NumberInv'
  <2> SUFFICES ASSUME pc \in Converting, ~Odd' PROVE NumberInv'
    BY <1>1 DEF NumberInv, Converting
  <2>1. ~Odd
    BY <1>1 DEF Odd, INT_MIN
  <2>2. PICK q, s :
          /\ s \in Seq(Int) /\ Divided(q, s) /\ base \in {10, 16}
          /\ pc = "digits" => s = buffer /\ value = q[Len(s)] /\ (s # << >> => value # 0)
          /\ pc # "digits" => s # << >> /\ q[Len(s)] = 0
          /\ pc = "reverse" => s = buffer
          /\ pc = "append" => buffer = Reverse(s)
    BY <2>1 DEF IInv, NumberInv
  <2>3. Divided(q, s)'
    BY <1>1, <2>2 DEF Divided
  <2> QED
    BY <1>1, <2>2, <2>3 DEF NumberInv
<1>4. StringInv'
  <2>1. CASE pc \in Strings \cup {"strncpy_pad"}
    <3>1. StringInv /\ LoopInv /\ IsMem(mem)
      BY <2>1, Running
    <3>2. \A a : Goal(a)' = Goal(a)
      BY <1>1 DEF Goal
    <3>3. (Done(0, i) => Done(0, i)') /\ (Done(i, call.n) => Done(i, call.n)')
      BY <1>1, <3>2 DEF Done
    <3>4. SrcLen' = SrcLen /\ Length(call'.was, call'.dst) = Length(call.was, call.dst)
      BY <1>1 DEF SrcLen
    <3>5. LoopInv'
      BY <1>1, <3>1, <3>3, <3>4 DEF LoopInv
    <3> QED
      BY <1>1, <2>1, <3>1, <3>5, GoesOn
  <2>2. CASE pc = "string_returned"
    <3>1. call \in Calls /\ Permitted(call) /\ IsMem(mem) /\ Promises(call, mem, ret)
      BY <2>2 DEF IInv, StringInv, InString, StringsExact
    <3>2. call' \in Calls /\ Permitted(call') /\ IsMem(mem') /\ Promises(call', mem', ret')
      BY <1>1, <3>1
    <3>3. StringsExact' /\ LoopInv' /\ pc' \notin Strings /\ pc' # "strncpy_pad"
      BY <1>1, <2>2, <3>2 DEF StringsExact, LoopInv, Strings
    <3> QED
      BY <3>2, <3>3 DEF StringInv, Calls, Memory, IsMem
  <2>3. CASE pc \notin InString
    BY <1>1, <2>3, NoString
  <2> QED
    BY <2>1, <2>2, <2>3 DEF InString
<1> QED
  BY <1>1, <1>2, <1>3, <1>4 DEF IInv

\* Every step preserves the invariant.
LEMMA NextKeeps == IInv /\ [Next]_vars => IInv'
<1> SUFFICES ASSUME IInv, [Next]_vars PROVE IInv'
  OBVIOUS
<1>1. CASE Printing
  <2>1. WriteInv' /\ pc' \in {"vprintf", "returned"}
    BY <1>1, PrintingCounts
  <2>2. pc' \notin InString /\ pc' \notin Converting /\ pc' \in Places
    BY <2>1 DEF InString, Strings, Converting, Places
  <2> QED
    BY <2>1, <2>2, NoString, NoNumber DEF IInv
<1>2. CASE Converts \/ digit \/ reverse
  <2>1. WriteInv' /\ NumberInv' /\ pc' \in Converting
    BY <1>2, ConvertsBegin, DigitKeeps, ReverseKeeps DEF Converting
  <2>2. pc' \notin InString /\ pc' \in Places
    BY <2>1 DEF InString, Strings, Converting, Places
  <2> QED
    BY <2>1, <2>2, NoString DEF IInv
<1>3. CASE Stringing
  BY <1>3, StringingKeeps
<1>4. CASE (\E f \in Formats : vprintf(f)) \/ long_other \/ vprintf_return \/ Answered
  BY <1>4, ReadingKeeps
<1>5. CASE UNCHANGED vars
  BY <1>5, StutterKeeps
<1> QED
  BY <1>1, <1>2, <1>3, <1>4, <1>5 DEF Next, Printing, Converts, Stringing

\* The invariant holds in every reachable state.
LEMMA Invariant == Spec => []IInv
BY InitInv, NextKeeps, PTL DEF Spec

\* vprintf's count is what it printed and never leaves the range of int; it returns
\* the count, or EOVERFLOW with what did not fit unprinted (__append, internal.c).
THEOREM CountIsPrinted == Spec => []WrittenCounts
<1>1. IInv => WrittenCounts
  BY IntMax DEF IInv, WriteInv, WrittenCounts
<1> QED
  BY <1>1, Invariant, PTL

\* What the number conversions hand to __append is the shortest numeral of the
\* argument, for integers of every width, INT_MIN in %d excepted.
THEOREM NumeralsExact == Spec => []NumbersExact
BY NumeralExact, Invariant, PTL

\* Each string function leaves in memory, and returns, what the bytes before the
\* call determine, for a memory of any size and any permitted overlap.
THEOREM StringFunctionsExact == Spec => []StringsExact
<1>1. IInv => StringsExact
  BY DEF IInv, StringInv, InString, StringsExact
<1> QED
  BY <1>1, Invariant, PTL
=============================================================================
