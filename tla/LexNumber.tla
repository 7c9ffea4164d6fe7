------------------------------- MODULE LexNumber -------------------------------
(***************************************************************************)
(* lx_strscan_scan(): what kind of number a literal is, and its value.      *)
(* A literal is a sequence of bytes; it comes from number() of the lexer,   *)
(* so that it starts with a digit or with a point and a digit, and has no   *)
(* sign.  A value is a triple m, e2, e10 that stands for the exact number   *)
(* m * 2^e2 * 10^e10: how it is rounded to a double, and which is too large *)
(* for one, is left out.  Of the width of integers only the order matters.  *)
(* Definitions marked "variant" are mistakes the code could have made; no   *)
(* definition uses them.                                                    *)
(***************************************************************************)
EXTENDS LexChars, SequencesExt

At(s, i) == IF i \in DOMAIN s THEN s[i] ELSE 0
\* the first place from i on that a test does not hold for
AfterAll(s, i, Test(_)) == CHOOSE j \in i..Len(s) + 1 :
    /\ \A k \in i..j - 1 : Test(s[k])
    /\ j > Len(s) \/ ~Test(s[j])

Digits(s) == SelectSeq(s, LAMBDA c : c # Ch["."])
Horner(ds, base) == FoldLeft(LAMBDA x, d : x * base + d, 0, ds)
Exact(x) == <<x, 0, 0>>
Result(fmt, value) == [fmt |-> fmt, value |-> value]
Malformed == Result("ERROR", Exact(0))
Fits(x, bits) == x < 2 ^ bits

(***************************************************************************)
(* The parsers for each base are given the digits from the first that is    *)
(* not 0 on, without trailing zeros of the fraction, the format so far and  *)
(* the exponent.                                                             *)
(***************************************************************************)
strscan_hex(ds, fmt, opt, ex2) ==
    LET x == Horner(ds, 16)
        u32 == IF Len(ds) > Bits32 \div 4 THEN Malformed ELSE Result("U32", Exact(x))
    IN CASE fmt = "INT" -> IF Fits(x, Bits32 - 1) THEN Result("INT", Exact(x))
                           ELSE IF "c" \notin opt THEN Result("NUM", <<x, ex2, 0>>) ELSE u32
         [] fmt = "U32" -> u32
         [] fmt \in {"I64", "U64"} ->
              IF Len(ds) > Bits64 \div 4 THEN Malformed ELSE Result(fmt, Exact(x))
         [] OTHER -> Result(fmt, <<x, ex2, 0>>)

strscan_bin(ds, fmt, opt, ex2) ==
    LET x == Horner(ds, 2)
        u32 == IF Len(ds) > Bits32 THEN Malformed ELSE Result("U32", Exact(x))
    IN IF ex2 # 0 \/ Len(ds) > Bits64 \/ \E i \in DOMAIN ds : ds[i] > 1 THEN Malformed
       ELSE CASE fmt = "INT" -> IF Fits(x, Bits32 - 1) THEN Result("INT", Exact(x))
                                ELSE IF "c" \notin opt THEN Result("NUM", Exact(x)) ELSE u32
              [] fmt = "U32" -> u32
              [] OTHER -> Result(fmt, Exact(x))

strscan_oct(ds, fmt) ==
    LET x == Horner(ds, 8)
        fmt1 == IF fmt = "INT" /\ ~Fits(x, Bits32 - 1) THEN "U32" ELSE fmt
    IN IF (\E i \in DOMAIN ds : ds[i] > 7) \/ ~Fits(x, Bits64) THEN Malformed
       ELSE IF fmt1 \in {"INT", "U32"} /\ ~Fits(x, Bits32) THEN Malformed
       ELSE Result(fmt1, Exact(x))

\* The digits in pairs, so that the exponent is even: the first alone when there
\* is one too many, a 0 after the last when it is left alone.
AlignByLength(ds, ex10) == Len(ds) % 2 = 1                      \* variant
AlignByBoth(ds, ex10) == (ex10 + Len(ds)) % 2 = 1
Paired(ds, ex10) ==
    LET lead == IF AlignByBoth(ds, ex10) THEN 1 ELSE 0
        odd  == (Len(ds) - lead) % 2
        even == SubSeq(ds, lead + 1, Len(ds)) \o (IF odd = 1 THEN <<0>> ELSE << >>)
    IN [xi |-> SubSeq(ds, 1, lead) \o
               [i \in 1..Len(even) \div 2 |-> 10 * even[2 * i - 1] + even[2 * i]],
        ex10 |-> ex10 - odd, dig |-> Len(ds) + odd]
\* with a positive exponent the zeros are written out, as far as 20 digits go
Simplified(b) ==
    LET room == (20 - b.dig) \div 2
        wanted == (b.ex10 + 1) \div 2
        n == IF b.ex10 <= 0 \/ room <= 0 THEN 0 ELSE IF room < wanted THEN room ELSE wanted
    IN [xi |-> b.xi \o [i \in 1..n |-> 0], ex10 |-> b.ex10 - 2 * n, dig |-> b.dig + 2 * n]

strscan_dec(ds, fmt, opt, ex10) ==
    LET b == IF ds = << >> THEN [xi |-> <<0>>, ex10 |-> 0, dig |-> 0]
             ELSE Simplified(Paired(ds, ex10))
        x == Horner(b.xi, 100)
        scaled == <<x, 0, 2 * (b.ex10 \div 2)>>     \* the exponent counts pairs of digits
        inexact == IF fmt = "INT" /\ "c" \notin opt THEN Result("NUM", scaled)
                   ELSE IF fmt \in {"NUM", "IMAG"} THEN Result(fmt, scaled)
                   ELSE Malformed
    IN IF b.dig > 20 \/ b.ex10 # 0 \/ ~Fits(x, Bits64) THEN inexact
       ELSE CASE fmt = "INT" /\ Fits(x, Bits32 - 1) -> Result("INT", Exact(x))
              [] fmt = "INT" /\ "c" \notin opt -> Result("NUM", Exact(x))
              [] fmt = "U32" \/ (fmt = "INT" /\ "c" \in opt) ->
                   IF Fits(x, Bits32) THEN Result("U32", Exact(x)) ELSE Malformed
              [] OTHER -> Result(fmt, Exact(x))
-------------------------------------------------------------------------------
(***************************************************************************)
(* The suffix from place i on: the format it makes of fmt, or "ERROR" when  *)
(* it is none or not one for these options.                                  *)
(***************************************************************************)
LongIs64 == TRUE    \* sizeof(long) == 8
wide(fmt) == IF fmt = "U32" THEN "U64" ELSE "I64"
suffix(s, i, fmt0, opt) ==
    LET u1 == fmt0 = "INT" /\ casecmp(At(s, i), "u")
        i1 == IF u1 THEN i + 1 ELSE i
        f1 == IF u1 THEN "U32" ELSE fmt0
        l  == fmt0 = "INT" /\ casecmp(At(s, i1), "l")
        ll == l /\ casecmp(At(s, i1 + 1), "l")
        i2 == i1 + (IF ll THEN 2 ELSE IF l THEN 1 ELSE 0)
        f2 == IF ll \/ (l /\ LongIs64) THEN wide(f1) ELSE f1
        u2 == casecmp(At(s, i2), "u") /\ f2 \in {"INT", "I64"}
        i3 == IF u2 THEN i2 + 1 ELSE i2
        f3 == IF ~u2 THEN f2 ELSE IF f2 = "INT" THEN "U32" ELSE "U64"
    IN IF i > Len(s) THEN fmt0
       ELSE IF casecmp(s[i], "i") THEN (IF "imag" \in opt /\ i = Len(s) THEN "IMAG" ELSE "ERROR")
       ELSE IF (l /\ ~ll /\ "c" \notin opt) \/ (f3 = "U32" /\ "c" \notin opt)
               \/ (f3 \in {"I64", "U64"} /\ "ll" \notin opt) \/ i3 <= Len(s) THEN "ERROR"
       ELSE f3

\* an exponent from place i on: where it ends, its value, and whether it is right
exponent(s, i, base) ==
    LET marked == base >= 10 /\ casecmp(At(s, i), IF base = 16 THEN "p" ELSE "e")
        signed == At(s, i + 1) \in {Ch["+"], Ch["-"]}
        from   == IF signed THEN i + 2 ELSE i + 1
        to     == AfterAll(s, from, isdigit)
        xx     == Horner([k \in 1..to - from |-> digit(s[from + k - 1])], 10)
    IN IF ~marked THEN [to |-> i, ex |-> 0, num |-> FALSE, ok |-> TRUE]
       ELSE [to |-> to, ex |-> IF At(s, i + 1) = Ch["-"] THEN -xx ELSE xx, num |-> TRUE, ok |-> to > from]

\* how many zeros end a fraction of n digits
trailing_zeros(ds, n) ==
    LET m == IF n < Len(ds) THEN n ELSE Len(ds)
    IN CHOOSE k \in 0..m : /\ \A i \in Len(ds) - k + 1..Len(ds) : ds[i] = 0
                           /\ k = m \/ ds[Len(ds) - k] # 0

\* a number that is an integer of 32 bits is made one
Power(n) == IF n > 0 THEN n ELSE 0
over(v)  == v[1] * 2 ^ Power(v[2]) * 10 ^ Power(v[3])
under(v) == 2 ^ Power(-v[2]) * 10 ^ Power(-v[3])
is_int32(v) == over(v) % under(v) = 0 /\ Fits(over(v) \div under(v), Bits32 - 1)
to_int(r, opt) ==
    IF r.fmt = "NUM" /\ "toint" \in opt /\ is_int32(r.value)
    THEN Result("INT", Exact(over(r.value) \div under(r.value))) ELSE r

\* the digits of a mantissa from the first on that is not 0, and the length of
\* its fraction
significant(all) ==
    LET some == AfterAll(all, 1, LAMBDA c : c = Ch["0"])
    IN [i \in 1..Len(all) - some + 1 |-> digit(all[some + i - 1])]
fraction(mant) ==
    LET dots == {i \in DOMAIN mant : mant[i] = Ch["."]}
    IN IF dots = {} THEN 0 ELSE Len(mant) - CHOOSE i \in dots : TRUE

strscan_digits(ds, base, fmt, opt, ex) ==
    IF base = 0 /\ fmt \notin {"NUM", "IMAG"} THEN strscan_oct(ds, fmt)
    ELSE to_int(CASE base = 16 -> strscan_hex(ds, fmt, opt, ex)
                  [] base = 2 -> strscan_bin(ds, fmt, opt, ex)
                  [] OTHER -> strscan_dec(ds, fmt, opt, ex), opt)
strscan_fraction(ds, frac, cut, base, fmt, opt, ex) ==
    strscan_digits(SubSeq(ds, 1, Len(ds) - cut), base, fmt, opt,
                   (cut - frac) * (IF base = 16 THEN 4 ELSE 1) + ex)
strscan_mantissa(ds, frac, base, fmt, opt, ex) ==
    strscan_fraction(ds, frac, trailing_zeros(ds, frac), base, fmt, opt, ex)

\* a literal with the mantissa mant, and the exponent e after it
strscan_literal(s, mant, e, base, opt) ==
    LET all == Digits(mant)
        dots == Len(mant) - Len(all)
        ds == significant(all)
        fmt == suffix(s, e.to, IF dots > 0 \/ e.num THEN "NUM" ELSE "INT", opt)
    IN IF dots > 1 \/ all = << >> \/ ~e.ok \/ fmt = "ERROR" THEN Malformed
       ELSE strscan_mantissa(ds, IF ds = << >> THEN 0 ELSE fraction(mant), base, fmt, opt, e.ex)
strscan_from(s, first, base, opt) ==
    LET to == AfterAll(s, first, LAMBDA c : c = Ch["."] \/ (IF base = 16 THEN isxdigit(c) ELSE isdigit(c)))
    IN strscan_literal(s, SubSeq(s, first, to - 1), exponent(s, to, base), base, opt)

lx_strscan_scan(s, opt) ==
    LET prefix(small) == At(s, 1) = Ch["0"] /\ casecmp(At(s, 2), small)
        base == CASE prefix("x") -> 16 [] prefix("b") -> 2
                  [] "c" \in opt /\ At(s, 1) = Ch["0"] /\ ~prefix("x") /\ ~prefix("b") -> 0 [] OTHER -> 10
    IN strscan_from(s, IF base \in {2, 16} THEN 3 ELSE 1, base, opt)
===============================================================================
