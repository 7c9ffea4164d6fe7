-------------------------------- MODULE LexScan ---------------------------------
(***************************************************************************)
(* The scanner of the lexer, csrc/lx/lx.c: what one call does to LX_State.   *)
(* Each operator takes the state ls and gives the state after the call.      *)
(* tok is the token found; for a token of one character, chr is that         *)
(* character.  sb holds the bytes of the token buffer, the part that offset   *)
(* and len select once a string is complete.  unread is what the reader has   *)
(* not given out yet, chunk at most how much it gives at a time.             *)
(* The limit on the number of lines (LX_MAX_LINE) is left out.               *)
(* Definitions marked "variant" are mistakes the code could have made; no     *)
(* definition uses them.                                                      *)
(***************************************************************************)
EXTENDS LexNumber

more(ls) == LET n == IF ls.chunk < Len(ls.unread) THEN ls.chunk ELSE Len(ls.unread)
            IN IF n = 0 THEN [ls EXCEPT !.c = EOF]
               ELSE [ls EXCEPT !.c = ls.unread[1],
                               !.buf = SubSeq(ls.unread, 2, n),
                               !.unread = SubSeq(ls.unread, n + 1, Len(ls.unread))]
next(ls) ==
    LET at == [ls EXCEPT !.linepos = @ + 1, !.filepos = @ + 1]
    IN IF ls.buf = << >> THEN more(at) ELSE [at EXCEPT !.c = Head(ls.buf), !.buf = Tail(ls.buf)]

save(ls, c)   == [ls EXCEPT !.sb = Append(@, c)]
savenext(ls)  == next(save(ls, ls.c))
reset(ls)     == [ls EXCEPT !.sb = << >>]
Token(ls, t)  == [ls EXCEPT !.tok = t]
Single(ls, c) == [ls EXCEPT !.tok = "CHAR", !.chr = c]
Fail(ls, e)   == [ls EXCEPT !.tok = "ERROR", !.err = e]
Failed(ls)    == ls.err # "NONE"

newline_one_byte(ls) == [next(ls) EXCEPT !.line = @ + 1, !.linepos = 1]     \* variant
newline(ls) ==
    LET n == next(ls)
        m == IF iseol(n.c) /\ n.c # ls.c THEN next(n) ELSE n
    IN [m EXCEPT !.line = @ + 1, !.linepos = 1]

RECURSIVE number_rest(_, _, _)
number_rest(ls, c, xp) ==
    IF isident(ls.c) \/ ls.c = Ch["."] \/ (ls.c \in {Ch["-"], Ch["+"]} /\ casecmp(c, xp))
    THEN number_rest(savenext(ls), ls.c, xp) ELSE ls
number_token(ls, r) ==
    LET l == [save(ls, 0) EXCEPT !.tok = r.fmt, !.tv = r.value]
    IN IF r.fmt = "ERROR" THEN Fail(l, "XNUMBER") ELSE l
number_end(ls) == number_token(ls, lx_strscan_scan(ls.sb, ls.opt))
number_start(ls, c, zero) == number_end(number_rest(ls, c, IF zero /\ casecmp(ls.c, "x") THEN "p" ELSE "e"))
number(ls) == LET zero == ls.c = Ch["0"]
              IN number_start(IF zero THEN savenext(ls) ELSE ls, ls.c, zero)

\* [ or ] with the = after it, and the number of them; negative when the same
\* bracket does not follow them
RECURSIVE skip_equals(_, _)
skip_equals(ls, n) == IF ls.c = Ch["="] THEN skip_equals(savenext(ls), n + 1)
                      ELSE [ls |-> ls, count |-> n]
skipeq(ls) == LET r == skip_equals(savenext(ls), 0)
              IN [ls |-> r.ls, sep |-> IF r.ls.c = ls.c THEN r.count ELSE -r.count - 1]

RECURSIVE long_rest(_, _, _)
long_rest(ls, sep, isstring) ==
    CASE ls.c = EOF -> Fail(ls, IF isstring THEN "XLSTR" ELSE "XLCOM")
      [] ls.c = Ch["]"] -> LET s == skipeq(ls)
                           IN IF s.sep = sep THEN savenext(s.ls) ELSE long_rest(s.ls, sep, isstring)
      [] iseol(ls.c) -> LET n == newline(save(ls, LF))
                        IN long_rest(IF isstring THEN n ELSE reset(n), sep, isstring)
      [] OTHER -> long_rest(savenext(ls), sep, isstring)
longstring(ls, sep, isstring) ==
    LET l1 == savenext(ls)
        l2 == long_rest(IF iseol(l1.c) THEN newline(l1) ELSE l1, sep, isstring)
    IN IF isstring /\ ~Failed(l2)
       THEN [l2 EXCEPT !.sb = SubSeq(@, 3 + sep, Len(@) - 2 - sep)] ELSE l2
-------------------------------------------------------------------------------
(***************************************************************************)
(* Strings in quotes.  The operators of the escapes are given the state at   *)
(* the character after the backslash.                                         *)
(***************************************************************************)
Meaning == [c \in {Ch["a"], Ch["b"], Ch["t"], Ch["n"], Ch["v"], Ch["f"], Ch["r"],
                   Ch["\\"], Ch["\""], Ch["'"]} |->
            CASE c = Ch["a"] -> 7  [] c = Ch["b"] -> 8  [] c = Ch["t"] -> 9 [] c = Ch["n"] -> 10
              [] c = Ch["v"] -> 11 [] c = Ch["f"] -> 12 [] c = Ch["r"] -> 13 [] OTHER -> c]

xesc(ls) == Fail(ls, "XESC")
hex_escape(ls) ==
    LET h == next(ls)  l == next(h)
    IN IF ~isxdigit(h.c) THEN xesc(h) ELSE IF ~isxdigit(l.c) THEN xesc(l)
       ELSE next(save(l, digit(h.c) * 16 + digit(l.c)))

RECURSIVE decimal_rest(_, _, _)
decimal_rest(ls, c, n) ==
    IF n < 3 /\ isdigit(ls.c) THEN decimal_rest(next(ls), c * 10 + digit(ls.c), n + 1)
    ELSE IF c > 255 THEN xesc(ls) ELSE save(ls, c)
decimal_escape(ls) == decimal_rest(ls, 0, 0)

continuation(c) == 128 + (c % 64)
utf8_from(c, two) ==
    CASE c < 128   -> <<c>>
      [] c \in 128..two - 1 -> << 192 + (c \div 64), continuation(c) >>
      [] c \in two..65535   -> << 224 + (c \div 4096), continuation(c \div 64), continuation(c) >>
      [] OTHER     -> << 240 + (c \div 262144), continuation(c \div 4096),
                         continuation(c \div 64), continuation(c) >>
utf8(c) == utf8_from(c, 2048)
RECURSIVE code_rest(_, _)
code_rest(ls, c) ==
    LET d == c * 16 + digit(ls.c)
    IN IF ~isxdigit(ls.c) \/ d >= 1114112 THEN xesc(ls)
       ELSE LET n == next(ls)
            IN IF n.c # Ch["}"] THEN code_rest(n, d)
               ELSE IF d \in 55296..57343 THEN xesc(n)
               ELSE next([n EXCEPT !.sb = @ \o utf8(d)])
unicode_escape(ls) ==
    LET n == next(ls) IN IF n.c # Ch["{"] THEN xesc(n) ELSE code_rest(next(n), 0)

RECURSIVE skip_space(_)
skip_space(ls) == IF iseol(ls.c) THEN skip_space(newline(ls))
                  ELSE IF isspace(ls.c) THEN skip_space(next(ls)) ELSE ls

escape(ls) ==
    CASE ls.c \in DOMAIN Meaning -> next(save(ls, Meaning[ls.c]))
      [] ls.c = Ch["x"]  -> hex_escape(ls)
      [] ls.c = Ch["u"]  -> unicode_escape(ls)
      [] ls.c = Ch["z"]  -> skip_space(next(ls))
      [] iseol(ls.c)     -> newline(save(ls, LF))
      [] isdigit(ls.c)   -> decimal_escape(ls)
      [] ls.c = EOF      -> ls
      [] OTHER           -> xesc(ls)

RECURSIVE string_rest(_, _)
string_rest(ls, delim) ==
    IF Failed(ls) THEN ls
    ELSE IF ls.c = delim THEN savenext(ls)
    ELSE IF ls.c = EOF \/ iseol(ls.c) THEN Fail(ls, "XSTR")
    ELSE string_rest(IF ls.c = Ch["\\"] THEN escape(next(ls)) ELSE savenext(ls), delim)
string(ls) == LET l == string_rest(savenext(ls), ls.c)
              IN IF Failed(l) THEN l
                 ELSE [l EXCEPT !.tok = "STRING", !.sb = SubSeq(@, 2, Len(@) - 1)]
-------------------------------------------------------------------------------
Pairs == { <<"=", "=", "EQ">>, <<"<", "<", "LSHIFT">>, <<"<", "=", "LE">>,
           <<">", ">", "RSHIFT">>, <<">", "=", "GE">>, <<"~", "=", "NE">>, <<":", ":", "LABEL">> }
symbol(ls) ==
    LET n == next(ls)
        found == {p \in Pairs : Ch[p[1]] = ls.c /\ Ch[p[2]] = n.c}
    IN IF found = {} THEN Single(n, ls.c) ELSE Token(next(n), (CHOOSE p \in found : TRUE)[3])

dots(ls) ==
    LET n == savenext(ls)  m == next(n)
    IN IF n.c = Ch["."] THEN (IF m.c = Ch["."] THEN Token(next(m), "DOTS") ELSE Token(m, "CONCAT"))
       ELSE IF isdigit(n.c) THEN number(n) ELSE Single(n, Ch["."])

bracket(ls) ==
    LET s == skipeq(ls)
    IN CASE s.sep >= 0 -> LET l == longstring(s.ls, s.sep, TRUE)
                          IN IF Failed(l) THEN l ELSE Token(l, "STRING")
         [] s.sep = -1 -> Single(s.ls, Ch["["])
         [] OTHER      -> Fail(s.ls, "XLDELIM")

RECURSIVE name(_), short_comment(_), scan_from(_)
name(ls) == IF isident(ls.c) THEN name(savenext(ls)) ELSE Token(ls, "NAME")
short_comment(ls) == IF iseol(ls.c) \/ ls.c = EOF THEN ls ELSE short_comment(next(ls))

\* what follows the two minus signs; a long comment may have an error in it
comment_dirty(ls) ==                                                        \* variant
    LET s == skipeq(ls)
    IN IF ls.c # Ch["["] THEN short_comment(ls)
       ELSE IF s.sep >= 0 THEN reset(longstring(reset(s.ls), s.sep, FALSE)) ELSE short_comment(s.ls)
comment(ls) ==
    LET s == skipeq(ls)
    IN IF ls.c # Ch["["] THEN short_comment(ls)
       ELSE IF s.sep >= 0 THEN reset(longstring(reset(s.ls), s.sep, FALSE))
       ELSE short_comment(reset(s.ls))
minus(ls) ==
    LET n == next(ls)
    IN IF n.c = Ch[">"] THEN Token(next(n), "FUNC_PTR")
       ELSE IF n.c # Ch["-"] THEN Single(n, Ch["-"])
       ELSE LET c == comment(next(n)) IN IF Failed(c) THEN c ELSE scan_from(c)

blank(ls) == [next(ls) EXCEPT !.start_linepos = @ + 1, !.start_filepos = @ + 1]
line_break(ls) == LET n == newline(ls)
                  IN [n EXCEPT !.start_line = n.line, !.start_linepos = n.linepos, !.start_filepos = @ + 1]
scan_from(ls) ==
    CASE isdigit(ls.c)           -> number(ls)
      [] isident(ls.c) /\ ~isdigit(ls.c) -> name(ls)
      [] iseol(ls.c)             -> scan_from(line_break(ls))
      [] ls.c \in {9, 11, 12, Ch[" "]} -> scan_from(blank(ls))
      [] ls.c = Ch["-"]          -> minus(ls)
      [] ls.c = Ch["["]          -> bracket(ls)
      [] ls.c \in {Ch["\""], Ch["'"]} -> string(ls)
      [] ls.c = Ch["."]          -> dots(ls)
      [] ls.c = EOF              -> Token(ls, "EOF")
      [] OTHER                   -> symbol(ls)
scan(ls) == scan_from([reset(ls) EXCEPT !.start_line = ls.line, !.start_linepos = ls.linepos,
                                        !.start_filepos = ls.filepos])

\* the lexer that lx_state_create() gives for a text and a reader
lx_state_create(text, chunk, opt) ==
    next([opt |-> opt, tv |-> Exact(0), buf |-> << >>, unread |-> text, chunk |-> chunk, c |-> 0,
          tok |-> "NONE", chr |-> 0, sb |-> << >>, line |-> 1, linepos |-> 0, filepos |-> 0,
          start_line |-> 0, start_linepos |-> 0, start_filepos |-> 0, err |-> "NONE"])
lx_len(ls) == ls.filepos - ls.start_filepos
===============================================================================
