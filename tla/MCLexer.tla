-------------------------------- MODULE MCLexer ---------------------------------
(* Texts in which each thing the scanner tells apart stands next to others.     *)
EXTENDS Lexer

UpTo(n, S) == UNION {[1..k -> S] : k \in 0..n}
B(text) == Bytes(text)

\* blanks, line breaks and comments around names and long strings
Parts == { Blank(<<32>>), Break(<<LF>>), Break(<<CR, LF>>), ShortComment(B("[=a")),
           LongComment(0, <<CR>>), LongComment(1, B("]]=a")), Name("a"),
           LongString(1, <<LF, CR, LF>> \o B("]]")), Symbol("-", "CHAR") }
Follows(a, b) ==
    /\ a.tok = "SHORT" => b.tok = "BREAK"
    /\ a.tok = "NAME" => b.tok # "NAME"
    /\ a.text = B("-") => b.text[1] # Ch["-"]
    /\ iseol(a.text[Len(a.text)]) /\ iseol(b.text[1]) => a.text[Len(a.text)] = b.text[1]
Joined(S, n) == {s \in UpTo(n, S) : \A k \in 1..Len(s) - 1 : Follows(s[k], s[k + 1])}
Layouts == Joined(Parts, 4)

\* symbols, next to each other where they do not make another one
Symbols == { <<"=", "CHAR">>, <<"==", "EQ">>, <<"<", "CHAR">>, <<"<<", "LSHIFT">>, <<"<=", "LE">>,
             <<">", "CHAR">>, <<">>", "RSHIFT">>, <<">=", "GE">>, <<"~", "CHAR">>, <<"~=", "NE">>,
             <<":", "CHAR">>, <<"::", "LABEL">>, <<".", "CHAR">>, <<"..", "CONCAT">>, <<"...", "DOTS">>,
             <<"-", "CHAR">>, <<"->", "FUNC_PTR">>, <<"[", "CHAR">>, <<"]", "CHAR">>, <<"+", "CHAR">> }
Longer == {B(s[1]) : s \in Symbols} \cup {B("--"), B("[="), B("[[")}
Operators == {s \in UpTo(2, {Symbol(x[1], x[2]) : x \in Symbols}) :
                 Len(s) = 2 => \A n \in 1..Len(s[2].text) :
                                  s[1].text \o SubSeq(s[2].text, 1, n) \notin Longer}

\* strings of up to two pieces, with a name after them
Escape(text) == <<Ch["\\"]>> \o B(text)
CodePoints == { <<"7f", 127>>, <<"80", 128>>, <<"7Ff", 2047>>, <<"800", 2048>>, <<"d7ff", 55295>>,
                <<"E000", 57344>>, <<"ffff", 65535>>, <<"10000", 65536>>, <<"0010ffff", 1114111>> }
Pieces == { <<B("a"), B("a")>>, <<B("1"), B("1")>>, <<Escape("n"), <<LF>> >>, <<Escape("v"), <<11>> >>,
            <<Escape("\""), B("\"")>>, <<Escape("\\"), B("\\")>>,
            <<Escape("x4a"), B("J")>>, <<Escape("xfF"), <<255>> >>,
            <<Escape("0"), <<0>> >>, <<Escape("65"), B("A")>>, <<Escape("255"), <<255>> >>,
            <<Escape("z") \o <<32, CR, LF, 9, LF>>, << >> >>, <<Escape("") \o <<LF, CR>>, <<LF>> >> }
          \cup {<<Escape("u{") \o B(p[1]) \o B("}"), Utf8Of(p[2])>> : p \in CodePoints}
Ambiguous(a, b) == a[1] \in {Escape("0"), Escape("65")} /\ b[1] = B("1")
Strings == {<<Quoted(Ch["\""], s), Name("a")>> :
                s \in {s \in UpTo(2, Pieces) : Len(s) = 2 => ~Ambiguous(s[1], s[2])}}
           \cup {<<LongString(n, b), Name("a")>> : n \in 0..2,
                   b \in {<< >>, <<LF>>, <<CR, LF>>, B("]=a"), B("[=["), <<CR, LF, CR>>, B("a]=") \o <<LF>>}}

\* what is no token
Bad == { <<Escape("q"), "XESC">>, <<Escape("xg"), "XESC">>, <<Escape("x4"), "XESC">>,
         <<Escape("256"), "XESC">>, <<Escape("u4"), "XESC">>, <<Escape("u{}"), "XESC">>,
         <<Escape("u{d800}"), "XESC">>, <<Escape("u{110000}"), "XESC">>,
         <<Escape("u{0000000000000000001"), "XESC">>, <<Escape(""), "XSTR">>, << << >>, "XSTR">> }
Errors == {<<Wrong(<<Ch["\""]>> \o p \o b[1], b[2])>> : p \in {<< >>, B("a"), Escape("\"")}, b \in Bad}
          \cup {<<Wrong(B("\"a") \o <<LF>> \o B("\""), "XSTR")>>,
                <<Wrong(B("[=a[[]]"), "XLDELIM")>>, <<Wrong(B("[==[]=]"), "XLSTR")>>,
                <<Blank(<<9>>), Wrong(B("--[=[]]") \o <<LF>>, "XLCOM")>>}

\* numbers of all forms, about the limits of their types, and with each suffix
Literals(n, alphabet) == {s \in UpTo(n, Range(B(alphabet))) : s # << >> /\ IsNumberText(s)}
Exponents(n, alphabet) ==
    {s \in Literals(n, alphabet) : \A i \in DOMAIN s : casecmp(s[i], "e") =>
                                       Cardinality({j \in i..Len(s) : isdigit(s[j])}) <= 1}
Limits == {B(t) : t \in {
    "127", "128", "255", "256", "65535", "65536", "00127", "1.28e2", "1270e-1", "12.80e1", "1275e-1", "90e-3",
    "0x7f", "0x80", "0xFF", "0x100", "0xffff", "0x10000", "0x0.0fep11", "0x1p7", "0xfep-1", "0x7f.8",
    "0177", "0200", "0377", "0400", "0177777", "0200000", "08", "08.5", "0e1", "01", "1e0", "1.",
    "0b1111111", "0b10000000", "0B11111111", "0b100000000", "0b1111111111111111", "0b10000000000000000",
    "0b2", "0b1.0", "0b1.1", "0x", "0b", "1e", "1e+", "1..", "0x1p", "0X1P-2"}}
Tails == UpTo(2, Range(B("uLi"))) \cup {B("ull"), B("LLU"), B("lll"), B("ulu")}
Numbers == {<<Number(s)>> : s \in Exponents(5, "02.e-") \cup Literals(4, "0x1f.p") \cup Literals(5, "0b1")
                                  \cup {a \o b : a \in Limits, b \in Tails}}

MCOptions == {{"toint", "ll", "imag", "c"}}
MCSources == Layouts \cup Operators \cup Strings \cup Errors \cup Numbers
===============================================================================
