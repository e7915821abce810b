------------------------------- MODULE MCPrintk -------------------------------
(* char, short, int and long of 2, 3, 4 and 6 bits.                        *)
EXTENDS Printk

\* Formats whose directives printf prints the same way: decimal, octal and
\* lowercase hex of each length, zero and left padding, a width narrower
\* than the number, characters, strings, NULL, pointers, "%%".
MC_Formats ==
  { <<"%", "d">>, <<"%", "0", "4", "d">>, <<"%", "-", "3", "x">>,
    <<"%", "l", "d">>, <<"%", "o">>, <<"%", "h", "d">>, <<"%", "h", "h", "d">>,
    <<"%", "3", "l", "l", "x">>, <<"%", "p">>, <<"%", "0", "2", "u">>,
    <<"%", "c">>, <<"%", "4", "s">>, <<"a", "%", "%", "%", "u", "%", "d">> }
\* %X.
MC_FormatsUpper == { <<"%", "X">> }
\* '-' and '0' together.
MC_FormatsLeftZero == { <<"%", "-", "0", "3", "d">> }
\* An unsigned short.
MC_FormatsShort == { <<"%", "h", "u">>, <<"%", "d", "%", "h", "x">> }
\* A width from the arguments.
MC_FormatsStar == { <<"%", "*", "d">> }
\* A directive cut short by the end of the format.
MC_FormatsCut == { <<"%", "l">>, <<"%", "-">> }

\* Int arguments of both signs, the least int, one above the int range, zero.
MC_ArgVals == {-8, -3, 0, 1, 6, 13}
\* What an earlier stack frame may have left in u.
MC_StaleVals == {0, 63}
MC_Str == <<"o", "k">>
=============================================================================
