-------------------------------- MODULE LexChars --------------------------------
(***************************************************************************)
(* The bytes the lexer reads, as their codes, and the classes of            *)
(* lx_char_bits that it asks for.  Ch["a"] is the code of a.                *)
(***************************************************************************)
EXTENDS Integers, Sequences

CONSTANTS Bits32, Bits64   \* the widths of the two integer types: multiples of 4

\* the characters of the codes 32..126, but for the backquote, which is not used
Printable == " !\"#$%&'()*+,-./0123456789:;<=>?@ABCDEFGHIJKLMNOPQRSTUVWXYZ[\\]^_\tabcdefghijklmnopqrstuvwxyz{|}~"
Letter(text, i) == SubSeq(text, i, i)
Ch == [x \in {Letter(Printable, i) : i \in 1..95} |->
          31 + CHOOSE i \in 1..95 : Letter(Printable, i) = x]
\* the bytes of a text
Bytes(text) == [i \in 1..Len(text) |-> Ch[Letter(text, i)]]

EOF == -1   LF == 10   CR == 13

isdigit(c)  == c \in 48..57
isxdigit(c) == c \in 48..57 \cup 65..70 \cup 97..102
isident(c)  == c \in 48..57 \cup 65..90 \cup 97..122 \cup {95} \cup 128..255
isspace(c)  == c \in 9..13 \cup {32}
iseol(c)    == c \in {LF, CR}
casecmp(c, small) == c \in {Ch[small], Ch[small] - 32}
\* the value of a digit
digit(c) == IF c > 57 THEN (c + 9) % 16 ELSE c % 16
===============================================================================
