------------------------------- MODULE Printk -------------------------------
(***************************************************************************)
(* printk (common/printk.c): simple_vsprintf walks the format, parses a   *)
(* directive's flags, width and length modifiers, takes the argument      *)
(* through a local union u and prints it with printk_write_num or prints. *)
(* Each printk call is one step; what it sends to the UART is compared    *)
(* with what C's printf rules say the format and arguments print.         *)
(*                                                                         *)
(* A character is a one-character string; the format is the sequence of  *)
(* its characters, without the terminating NUL.  The widths of char,      *)
(* short, int and long are constants (scaled down from 8/16/32/64 bits).  *)
(* The union u is LongBits wide; a member store writes its low bits       *)
(* (AArch64 is little-endian) and leaves the others as they were.  u is   *)
(* never initialised, so its first contents are a nondeterministic value. *)
(***************************************************************************)
EXTENDS Integers, Sequences, TLC

SX == INSTANCE SequencesExt

CONSTANTS
  CharBits, ShortBits, IntBits, LongBits,
  Formats,     \* formats of the printk calls
  ArgVals,     \* integer (bit pattern) values passed as arguments
  StaleVals,   \* contents u may have before its first store
  Str          \* the characters of the string a non-NULL %s argument points to

ASSUME 0 < CharBits /\ CharBits < ShortBits /\ ShortBits < IntBits
       /\ IntBits < LongBits

PAD_ZERO == "PAD_ZERO"
PAD_RIGHT == "PAD_RIGHT"

\* The characters '0'..'9', 'a'..'f' and 'A'..'F'; DIG[t + 1] is digit t.
DIG == <<"0", "1", "2", "3", "4", "5", "6", "7", "8", "9">>
LOWER == <<"a", "b", "c", "d", "e", "f">>
UPPER == <<"A", "B", "C", "D", "E", "F">>

\* A '%c' of character code n is sent as the character named "chr<n>".
Chr(n) == "chr" \o ToString(n)

\* Bits of an integer of width w.
Low(x, w) == x % (2 ^ w)
Signed(x, w) == IF Low(x, w) >= 2 ^ (w - 1) THEN Low(x, w) - 2 ^ w ELSE Low(x, w)
\* A store of x to a member of width w of the union u.
Store(u, x, w) == u - Low(u, w) + Low(x, w)

Pad(n, c) == [k \in 1 .. n |-> c]

\* The C string at s: what the loops over *string read, up to the NUL.
CStr(s) ==
  LET z == SX!SelectInSeq(s, LAMBDA ch : ch = Chr(0))
  IN  IF z = 0 THEN s ELSE SubSeq(s, 1, z - 1)

-----------------------------------------------------------------------------
(* prints and printk_write_num *)

\* A '0' pad character written as the integer 0 sends NUL bytes.
prints_nulpad(s, width, flags) ==
  LET cs == CStr(s)
      w == IF width > 0 THEN IF Len(cs) >= width THEN 0 ELSE width - Len(cs)
           ELSE width
      c == IF width > 0 /\ PAD_ZERO \in flags THEN "NUL" ELSE " "
  IN  IF PAD_RIGHT \notin flags THEN Pad(w, c) \o cs ELSE cs \o Pad(w, c)

\* prints(out, string, width, flags): the string up to its NUL, padded to
\* width with '0' (PAD_ZERO) or ' ', on the left unless PAD_RIGHT.  A
\* width <= 0 pads nothing.
prints(s, width, flags) ==
  LET cs == CStr(s)
      w == IF width > 0 THEN IF Len(cs) >= width THEN 0 ELSE width - Len(cs)
           ELSE width
      c == IF width > 0 /\ PAD_ZERO \in flags THEN "0" ELSE " "
  IN  IF PAD_RIGHT \notin flags THEN Pad(w, c) \o cs ELSE cs \o Pad(w, c)

\* The digit character of t: letbase is the character 'a' or 'A'.
DigitChar(t, letbase) ==
  IF t < 10 THEN DIG[t + 1]
  ELSE IF letbase # 0 THEN LOWER[t - 9] ELSE UPPER[t - 9]

\* The loop filling print_buf from its end: least significant digit first.
RECURSIVE BufDigits(_, _, _)
BufDigits(u, base, letbase) ==
  IF u = 0 THEN <<>>
  ELSE BufDigits(u \div base, base, letbase) \o <<DigitChar(u % base, letbase)>>

\* printk_write_num(out, i, base, sign, width, flags, letbase), i a long
\* long: a negative signed decimal prints '-' before the zero padding, or
\* before the digits otherwise.
printk_write_num_signlast(i, base, sign, width, flags, letbase) ==
  LET neg == sign = 1 /\ base = 10 /\ i < 0
      s == BufDigits(IF neg THEN -i ELSE Low(i, LongBits), base, letbase)
  IN  IF i = 0 THEN prints(<<"0">>, width, flags)
      ELSE IF neg THEN prints(<<"-">> \o s, width, flags)
      ELSE prints(s, width, flags)

printk_write_num(i, base, sign, width, flags, letbase) ==
  LET neg == sign = 1 /\ base = 10 /\ i < 0
      s == BufDigits(IF neg THEN -i ELSE Low(i, LongBits), base, letbase)
  IN  IF i = 0 THEN prints(<<"0">>, width, flags)
      ELSE IF neg /\ width # 0 /\ PAD_ZERO \in flags
           THEN <<"-">> \o prints(s, width - 1, flags)
      ELSE IF neg THEN prints(<<"-">> \o s, width, flags)
      ELSE prints(s, width, flags)

-----------------------------------------------------------------------------
(* simple_vsprintf *)

\* The character at k; past the last one, the terminating NUL.
At(f, k) == IF k <= Len(f) THEN f[k] ELSE "NUL"
DigitOf(c) == CHOOSE t \in 0 .. 9 : DIG[t + 1] = c

\* while (*format == '0') ++format; and the width digits after it.
RECURSIVE SkipZeros(_, _)
SkipZeros(f, k) == IF At(f, k) = "0" THEN SkipZeros(f, k + 1) ELSE k

RECURSIVE ParseWidth(_, _, _)
ParseWidth(f, k, w) ==
  IF At(f, k) \in {DIG[t] : t \in 1 .. 10}
  THEN ParseWidth(f, k + 1, w * 10 + DigitOf(At(f, k)))
  ELSE [width |-> w, next |-> k]

Convs == {"d", "u", "o", "x", "X"}

\* The switch on *format, with the nested switches after 'l', "ll", 'h'
\* and "hh": the length modifier and conversion selected (conv "" for a
\* default case) and the position of the last character they read.
Conversion(f, k) ==
  LET c1 == At(f, k) c2 == At(f, k + 1) c3 == At(f, k + 2)
      Sel(m, c, l) == [mod |-> m, conv |-> c, last |-> l]
  IN  CASE c1 \in Convs \cup {"p", "c", "s"} -> Sel("", c1, k)
        [] c1 \in {"l", "h"} /\ c2 \in Convs -> Sel(c1, c2, k + 1)
        [] c1 \in {"l", "h"} /\ c2 = c1 ->
             Sel(c1 \o c1, IF c3 \in Convs THEN c3 ELSE "", k + 2)
        [] c1 \in {"l", "h"} /\ c2 \notin Convs \cup {c1} -> Sel(c1, "", k + 1)
        [] c1 \notin Convs \cup {"p", "c", "s", "l", "h"} -> Sel("", "", k)

\* What a case stores in u (st: the width of the member va_arg's value is
\* written to), which member it passes on (rd: its width, sg: whether it
\* is signed), and the base and letbase of printk_write_num.  The unsigned
\* 'h' and "hh" cases store u.hu or u.hhu and pass u.lli.
Case(m, c) ==
  LET st == CASE c = "p" \/ m \in {"l", "ll"} -> LongBits
              [] m = "h" -> ShortBits
              [] m = "hh" -> CharBits
              [] m = "" /\ c # "p" -> IntBits
      rd == IF m \in {"h", "hh"} /\ c # "d" THEN LongBits ELSE st
  IN  [st |-> st, rd |-> rd, sg |-> c = "d" \/ rd # st,
       base |-> CASE c = "o" -> 8 [] c \in {"x", "X", "p"} -> 16
                  [] c \in {"d", "u"} -> 10,
       sign |-> IF c = "d" THEN 1 ELSE 0,
       letbase |-> IF c = "X" THEN 65 ELSE 97]

NullStr == <<"(", "n", "u", "l", "l", ")">>

\* A directive as the loop parsed it, with the argument it took and what
\* it sent.
Piece(cv, width, flags, x, out) ==
  [mod |-> cv.mod, conv |-> cv.conv, width |-> width, flags |-> flags,
   arg |-> x, out |-> out]

\* The for loop of simple_vsprintf from format position i, with a[j] the
\* next va_arg and u the union: sent is what simple_outputchar sent,
\* pieces the directives printed, used the arguments taken, and overread
\* whether a directive cut short by the NUL made ++format step past it.
RECURSIVE Loop(_, _, _, _, _)
Loop(f, i, a, j, u) ==
  LET Emit(out, r) == [r EXCEPT !.sent = out \o @]
      Stop(over) == [sent |-> <<>>, pieces |-> <<>>, used |-> j - 1, over |-> over]
      k == i + 1
      right == At(f, k) = "-"
      k1 == IF right THEN k + 1 ELSE k
      k2 == SkipZeros(f, k1)
      flags == (IF right THEN {PAD_RIGHT} ELSE {}) \cup
               (IF k2 > k1 THEN {PAD_ZERO} ELSE {})
      star == At(f, k2) = "*"
      pw == ParseWidth(f, k2, 0)
      width == IF star THEN Signed(a[j], IntBits) ELSE pw.width
      j1 == IF star THEN j + 1 ELSE j
      cv == Conversion(f, IF star THEN k2 + 1 ELSE pw.next)
      x == a[j1]
      cs == Case(cv.mod, cv.conv)
      st == CASE cv.conv = "c" -> CharBits [] cv.conv = "s" -> LongBits
              [] cv.conv \notin {"c", "s"} -> cs.st
      u1 == IF cv.conv = "" THEN u ELSE Store(u, x, st)
      v == IF cs.sg THEN Signed(u1, cs.rd) ELSE Low(u1, cs.rd)
      out == CASE cv.conv = "" -> <<>>
               [] cv.conv = "c" -> prints(<<Chr(Low(u1, CharBits))>>, width, flags)
               [] cv.conv = "s" -> prints(IF x = 0 THEN NullStr ELSE Str, width, flags)
               [] cv.conv \notin {"", "c", "s"} ->
                    printk_write_num(Signed(v, LongBits), cs.base, cs.sign,
                                     width, flags, cs.letbase)
      j2 == IF cv.conv = "" THEN j1 ELSE j1 + 1
      rest == IF cv.last > Len(f)
              THEN [sent |-> <<>>, pieces |-> <<>>, used |-> j2 - 1, over |-> TRUE]
              ELSE Loop(f, cv.last + 1, a, j2, u1)
      this == Piece(cv, width, flags, x, out)
  IN  CASE i > Len(f) -> Stop(FALSE)
        [] i <= Len(f) /\ f[i] # "%" -> Emit(<<f[i]>>, Loop(f, i + 1, a, j, u))
        [] i <= Len(f) /\ f[i] = "%" /\ At(f, k) = "NUL" -> Stop(FALSE)
        [] i <= Len(f) /\ f[i] = "%" /\ At(f, k) = "%" -> Emit(<<"%">>, Loop(f, i + 2, a, j, u))
        [] i <= Len(f) /\ f[i] = "%" /\ At(f, k) \notin {"NUL", "%"} ->
             LET r == Emit(out, rest) IN
             IF cv.conv = "" THEN r ELSE [r EXCEPT !.pieces = <<this>> \o @]

simple_vsprintf(f, a, u0) == Loop(f, 1, a, 1, u0)

-----------------------------------------------------------------------------

VARIABLES
  fmt,       \* the format of the last printk call
  args,      \* its arguments
  sent,      \* the characters it sent to the UART
  printed,   \* the directives it printed
  overread   \* whether it read past the format's NUL

vars == <<fmt, args, sent, printed, overread>>

\* The arguments a call with format f passes: one per va_arg.
ArgsFor(f) == [1 .. simple_vsprintf(f, [k \in 1 .. Len(f) + 1 |-> 0], 0).used -> ArgVals]

\* printk(fmt, ...): simple_vsprintf(NULL, fmt, va) on a stack slot u of
\* any earlier contents.
printk(f, a) ==
  \E u0 \in StaleVals :
    LET r == simple_vsprintf(f, a, u0) IN
    /\ fmt' = f /\ args' = a
    /\ sent' = r.sent /\ printed' = r.pieces /\ overread' = r.over

Init ==
  /\ fmt = <<>> /\ args = <<>> /\ sent = <<>> /\ printed = <<>>
  /\ overread = FALSE

Next == \E f \in Formats : \E a \in ArgsFor(f) : printk(f, a)

Spec == Init /\ [][Next]_vars

-----------------------------------------------------------------------------
(* What C's printf prints for a directive (the reference). *)

\* The width of the type a length modifier names.
TypeBits(m) == CASE m = "" -> IntBits [] m \in {"l", "ll"} -> LongBits
                 [] m = "h" -> ShortBits [] m = "hh" -> CharBits

\* The argument converted to the type of the conversion.
CValue(p) ==
  CASE p.conv = "d" -> Signed(p.arg, TypeBits(p.mod))
    [] p.conv = "p" -> Low(p.arg, LongBits)
    [] p.conv \in {"u", "o", "x", "X"} -> Low(p.arg, TypeBits(p.mod))

RECURSIVE NDigits(_, _)
NDigits(n, b) == IF n < b THEN 1 ELSE 1 + NDigits(n \div b, b)

\* The digits of n >= 0 in base b, most significant first.
CDigits(n, b, upper) ==
  LET N == NDigits(n, b) IN
  [k \in 1 .. N |->
     LET t == (n \div b ^ (N - k)) % b IN
     IF t < 10 THEN DIG[t + 1] ELSE IF upper THEN UPPER[t - 9] ELSE LOWER[t - 9]]

\* Field width: '-' (or a negative '*' width) left-justifies with spaces;
\* otherwise '0' pads a number with zeros after its sign, or spaces go on
\* the left.
CField(sign, body, p, numeric) ==
  LET w == IF p.width < 0 THEN -p.width ELSE p.width
      n == IF w > Len(sign) + Len(body) THEN w - Len(sign) - Len(body) ELSE 0
  IN  CASE PAD_RIGHT \in p.flags \/ p.width < 0 -> sign \o body \o Pad(n, " ")
        [] ~(PAD_RIGHT \in p.flags \/ p.width < 0) /\ numeric /\ PAD_ZERO \in p.flags
             -> sign \o Pad(n, "0") \o body
        [] ~(PAD_RIGHT \in p.flags \/ p.width < 0) /\ ~(numeric /\ PAD_ZERO \in p.flags)
             -> Pad(n, " ") \o sign \o body

RefPiece(p) ==
  CASE p.conv = "c" -> CField(<<>>, <<Chr(Low(p.arg, CharBits))>>, p, FALSE)
    [] p.conv = "s" -> CField(<<>>, IF p.arg = 0 THEN NullStr ELSE Str, p, FALSE)
    [] p.conv \notin {"c", "s"} ->
         LET v == CValue(p)
             b == CASE p.conv = "o" -> 8 [] p.conv \in {"x", "X", "p"} -> 16
                    [] p.conv \in {"d", "u"} -> 10
         IN  CField(IF v < 0 THEN <<"-">> ELSE <<>>,
                    CDigits(IF v < 0 THEN -v ELSE v, b, p.conv = "X"), p, TRUE)

-----------------------------------------------------------------------------

OutChars ==
  UNION {{f[k] : k \in DOMAIN f} : f \in Formats} \cup {DIG[t] : t \in 1 .. 10}
  \cup {LOWER[t] : t \in 1 .. 6} \cup {UPPER[t] : t \in 1 .. 6}
  \cup {"-", " ", "%"} \cup {Chr(n) : n \in 0 .. 2 ^ CharBits - 1}
  \cup {Str[k] : k \in DOMAIN Str} \cup {NullStr[k] : k \in DOMAIN NullStr}

TypeOK ==
  /\ sent \in Seq(OutChars)
  /\ overread \in BOOLEAN

\* A %c directive whose argument, converted to char, is 0.
NulChar(p) == p.conv = "c" /\ Low(p.arg, CharBits) = 0

\* Every directive simple_vsprintf printed (through printk_write_num or
\* prints), a %c of NUL aside (NulCharAsC), sends what C's printf sends
\* for it: the argument converted to the conversion's type, its digits in
\* the base, '-' for a negative decimal, padded to the width as the flags
\* say.
FormatsAsC ==
  \A k \in 1 .. Len(printed) :
    ~NulChar(printed[k]) => printed[k].out = RefPiece(printed[k])

\* A %c of the character 0 sends the NUL byte, as C's printf does, padded
\* to the width.  simple_vsprintf puts it in scr[0] and hands scr to
\* prints, whose loops stop at that NUL: nothing but the padding is sent.
NulCharAsC ==
  \A k \in 1 .. Len(printed) :
    NulChar(printed[k]) => printed[k].out = RefPiece(printed[k])

\* simple_vsprintf never reads past the NUL ending the format.
NoOverread == ~overread
====
