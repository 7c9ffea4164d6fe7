------------------------------- MODULE LexSource --------------------------------
(***************************************************************************)
(* What a text means, said without scanning it.  A source is a sequence of   *)
(* items, each a token or something between tokens, that are joined to make   *)
(* the text; the lexer is to find the items in the text again.                *)
(***************************************************************************)
EXTENDS LexChars, SequencesExt, FiniteSetsExt

Item(text, tok, value) == [text |-> text, tok |-> tok, value |-> value]
Between == {"BLANK", "BREAK", "SHORT", "LONG"}
Text(items) == FlattenSeq([k \in DOMAIN items |-> items[k].text])
\* where item k starts in the text, counted from 1; the last k is the end
Start(items, k) == 1 + Len(Text(SubSeq(items, 1, k - 1)))

\* a line break is one or two different of \n and \r
BreakAt(s) == LET at[i \in 0..Len(s)] == i > 0 /\ iseol(s[i]) /\ ~(at[i - 1] /\ s[i - 1] # s[i])
              IN at
LineOf(s, p) == 1 + Cardinality({i \in 1..p - 1 : BreakAt(s)[i]})
ColumnOf(s, p) == p - Max({0} \cup {i \in 1..p - 1 : iseol(s[i])})
\* a text with each line break as \n
Lines(s) == LET at == BreakAt(s)
                keep == SelectSeq([i \in DOMAIN s |-> i], LAMBDA i : at[i] \/ ~iseol(s[i]))
            IN [k \in DOMAIN keep |-> IF iseol(s[keep[k]]) THEN LF ELSE s[keep[k]]]

(***************************************************************************)
(* Items between tokens, names, symbols and strings.  A piece of a string is *)
(* a pair: how it is written, and the bytes it stands for.                    *)
(***************************************************************************)
Blank(bytes) == Item(bytes, "BLANK", << >>)
Break(bytes) == Item(bytes, "BREAK", << >>)
ShortComment(bytes) == Item(Bytes("--") \o bytes, "SHORT", << >>)
Bracketed(level, bytes) ==
    LET eqs == [i \in 1..level |-> Ch["="]]
    IN <<Ch["["]>> \o eqs \o <<Ch["["]>> \o bytes \o <<Ch["]"]>> \o eqs \o <<Ch["]"]>>
LongComment(level, bytes) == Item(Bytes("--") \o Bracketed(level, bytes), "LONG", << >>)
LongString(level, bytes) ==
    LET l == Lines(bytes)
    IN Item(Bracketed(level, bytes), "STRING", IF l # << >> /\ l[1] = LF THEN Tail(l) ELSE l)
Name(text) == Item(Bytes(text), "NAME", Bytes(text))
Symbol(text, tok) == Item(Bytes(text), tok, IF tok = "CHAR" THEN Bytes(text) ELSE << >>)
Wrong(bytes, err) == Item(bytes, "ERROR", err)
Number(bytes) == Item(bytes, "NUMBER", << >>)
Quoted(delim, pieces) ==
    LET part(n) == FlattenSeq([k \in DOMAIN pieces |-> pieces[k][n]])
    IN Item(<<delim>> \o part(1) \o <<delim>>, "STRING", part(2))

\* a sequence of bytes is UTF-8 for the code point c when the bits in it are those
\* of c and no shorter sequence would do
Utf8Of(c) ==
    LET bits(k) == c \div 64 ^ k % 64
        n == CASE c < 2 ^ 7 -> 1 [] c \in 2 ^ 7..2 ^ 11 - 1 -> 2
               [] c \in 2 ^ 11..2 ^ 16 - 1 -> 3 [] OTHER -> 4
        lead == <<0, 192, 224, 240>>[n]
    IN [i \in 1..n |-> IF i = 1 THEN lead + c \div 64 ^ (n - 1) ELSE 128 + bits(n - i)]
-------------------------------------------------------------------------------
(***************************************************************************)
(* Numbers: a text is split into digits with a point, exponent and suffix;   *)
(* the split is unique.  The value is a quotient.                             *)
(***************************************************************************)
NumberSuffixes == { <<"", "INT", {}>>, <<"i", "IMAG", {"imag"}>>, <<"u", "U32", {"c"}>>,
              <<"l", "I64", {"c", "ll"}>>, <<"ul", "U64", {"c", "ll"}>>, <<"lu", "U64", {"c", "ll"}>>,
              <<"ll", "I64", {"ll"}>>, <<"ull", "U64", {"ll"}>>, <<"llu", "U64", {"ll"}>> }
Small(s) == [i \in DOMAIN s |-> IF s[i] \in 65..90 THEN s[i] + 32 ELSE s[i]]
Radix(s, opt) == CASE IsPrefix(Bytes("0x"), Small(s)) -> 16
                   [] IsPrefix(Bytes("0b"), Small(s)) -> 2
                   [] "c" \in opt /\ s[1] = Ch["0"] /\ ~IsPrefix(Bytes("0x"), Small(s))
                      /\ ~IsPrefix(Bytes("0b"), Small(s)) -> 8
                   [] OTHER -> 10
Points(s) == {i \in DOMAIN s : s[i] = Ch["."]}
IsMantissa(s, radix) ==
    /\ Cardinality(Points(s)) <= 1 /\ Len(s) > Cardinality(Points(s))
    /\ \A i \in DOMAIN s \ Points(s) : IF radix = 16 THEN isxdigit(s[i]) ELSE isdigit(s[i])
Signed(s) == s # << >> /\ s[1] \in Range(Bytes("+-"))
IsExponent(s, radix) ==
    \/ s = << >>
    \/ /\ radix \in {10, 16} /\ s[1] = Ch[IF radix = 16 THEN "p" ELSE "e"]
       /\ LET ds == SubSeq(s, IF Signed(Tail(s)) THEN 3 ELSE 2, Len(s))
          IN ds # << >> /\ \A i \in DOMAIN ds : isdigit(ds[i])
Splits(s, radix) ==
    {p \in (0..Len(s)) \X (0..Len(s)) : /\ p[1] <= p[2]
                                        /\ IsMantissa(SubSeq(s, 1, p[1]), radix)
                                        /\ IsExponent(SubSeq(s, p[1] + 1, p[2]), radix)
                                        /\ \E x \in NumberSuffixes : SubSeq(s, p[2] + 1, Len(s)) = Bytes(x[1])}
Positional(ds, base) == FoldSet(LAMBDA i, x : x + digit(ds[i]) * base ^ (Len(ds) - i), 0, DOMAIN ds)

Malformed_number == [fmt |-> "ERROR", num |-> 0, den |-> 1]
\* a number with value num / den, digits ds in base and a suffix; real when it has
\* a point or an exponent
Typed(num, den, ds, base, suf, real, opt) ==
    LET below(bits) == num % den = 0 /\ num \div den < 2 ^ bits
        as(fmt) == [fmt |-> fmt, num |-> num, den |-> den]
    IN CASE \/ \E i \in DOMAIN ds : digit(ds[i]) >= base
            \/ ~(suf[3] \subseteq opt)
            \/ base = 2 /\ ~below(Bits64)
            \/ real /\ suf[2] \notin {"INT", "IMAG"} -> Malformed_number
         [] OTHER ->
            CASE suf[2] = "IMAG" -> as("IMAG")
              [] suf[2] = "INT" /\ below(Bits32 - 1) /\ (real => "toint" \in opt) -> as("INT")
              [] OTHER ->
                 CASE suf[2] = "INT" /\ (real \/ "c" \notin opt) -> as("NUM")
                   [] suf[2] \in {"INT", "U32"} /\ below(Bits32) -> as("U32")
                   [] suf[2] \in {"I64", "U64"} /\ below(Bits64) -> as(suf[2])
                   [] OTHER -> Malformed_number
Valued(mant, ex, suf, radix, real, opt) ==
    LET base == IF radix = 8 /\ (real \/ suf[2] = "IMAG") THEN 10 ELSE radix
        ds   == SelectSeq(mant, LAMBDA c : c # Ch["."])
        after == IF Points(mant) = {} THEN 0 ELSE Len(mant) - Max(Points(mant))
        xs   == Positional(SelectSeq(ex, isdigit), 10)
        down == IF Bytes("-")[1] \in Range(ex) THEN xs ELSE 0
        exp  == IF radix = 16 THEN 2 ELSE 10
    IN Typed(Positional(ds, base) * exp ^ (xs - down), base ^ after * exp ^ down,
             ds, base, suf, real, opt)
Divided(s, p, radix, opt) ==
    LET mant == SubSeq(s, 1, p[1])
        suf  == CHOOSE x \in NumberSuffixes : SubSeq(s, p[2] + 1, Len(s)) = Bytes(x[1])
    IN Valued(mant, SubSeq(s, p[1] + 1, p[2]), suf, radix, Points(mant) # {} \/ p[1] < p[2], opt)
Divisions(s, splits, radix, opt) ==
    IF splits = {} THEN Malformed_number ELSE Divided(s, CHOOSE p \in splits : TRUE, radix, opt)
Parsed(s, radix, opt) == Divisions(s, Splits(s, radix), radix, opt)
Written(text, radix) == Small(IF radix \in {2, 16} THEN SubSeq(text, 3, Len(text)) ELSE text)
NumberIn(text, radix, opt) == Parsed(Written(text, radix), radix, opt)
NumberOf(text, opt) == NumberIn(text, Radix(text, opt), opt)
\* the texts that the lexer takes for one number: a sign only after the letter of
\* an exponent
IsNumberText(s) ==
    /\ isdigit(s[1]) \/ (s[1] = Ch["."] /\ Len(s) > 1 /\ isdigit(s[2]))
    /\ \A i \in 2..Len(s) :
         \/ isident(s[i]) \/ s[i] = Ch["."]
         \/ /\ s[i] \in Range(Bytes("+-"))
            /\ Small(s)[i - 1] = Ch[IF IsPrefix(Bytes("0x"), Small(s)) THEN "p" ELSE "e"]
===============================================================================
