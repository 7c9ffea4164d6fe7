--------------------------------- MODULE Lexer ----------------------------------
(***************************************************************************)
(* The lexer of Lua texts, csrc/lx/lx.c, as its host lx.lua drives it: a     *)
(* lexer is made for a reader that gives the text in chunks, the options for  *)
(* numbers may be changed before the first token, and tokens are taken one    *)
(* at a time up to the end or an error, which the host raises.                *)
(***************************************************************************)
EXTENDS LexScan, LexSource

CONSTANTS Sources,      \* the texts, as sequences of items
          ChunkSizes,   \* how much a reader gives at most at a time
          MoreOptions   \* sets of options for lx_set_strscan_opt()

VARIABLES source,   \* the text
          ls,       \* LX_State
          tokens    \* what the host was given, oldest first
vars == <<source, ls, tokens>>

Default == {"toint", "ll", "imag"}
Init == /\ source \in Sources
        /\ \E n \in ChunkSizes : ls = lx_state_create(Text(source), n, Default)
        /\ tokens = << >>

lx_set_strscan_opt(opt) == /\ tokens = << >> /\ ls.opt = Default
                           /\ ls' = [ls EXCEPT !.opt = opt]
                           /\ UNCHANGED <<source, tokens>>

\* the token as the host sees it through the accessors
Seen(l) == [tok |-> l.tok,
            value |-> CASE l.tok \in {"NAME", "STRING"} -> l.sb
                        [] l.tok = "CHAR"  -> <<l.chr>>
                        [] l.tok = "ERROR" -> l.err
                        [] l.tok \in {"NUM", "IMAG", "INT", "U32", "I64", "U64"} -> l.tv
                        [] OTHER -> << >>,
            line |-> l.start_line, linepos |-> l.start_linepos,
            filepos |-> l.start_filepos, len |-> lx_len(l)]
Over == tokens # << >> /\ tokens[Len(tokens)].tok \in {"EOF", "ERROR"}
lx_next == /\ ~Over
           /\ ls' = scan(ls)
           /\ tokens' = Append(tokens, Seen(ls'))
           /\ UNCHANGED source

Next == lx_next \/ \E opt \in MoreOptions : lx_set_strscan_opt(opt)
Spec == Init /\ [][Next]_vars
-------------------------------------------------------------------------------
\* the places in the source of the tokens, and what is expected of each
Places == SelectSeq([k \in 1..Len(source) + 1 |-> k],
                    LAMBDA k : k > Len(source) \/ source[k].tok \notin Between)
Expected(k) == IF k > Len(source) THEN Item(<< >>, "EOF", << >>) ELSE source[k]
Numeric(k)  == Expected(k).tok = "NUMBER"

\* Whatever the chunks the text comes in, the tokens are those of the text, in
\* order: names, symbols of the greatest length, strings with their escapes and
\* line breaks replaced, and the right error for what is none of them (scan).
TokensExact ==
    /\ Len(tokens) <= Len(Places)
    /\ \A n \in DOMAIN tokens :
         LET e == Expected(Places[n])
         IN IF e.tok = "NUMBER" THEN tokens[n].tok \notin {"NAME", "STRING", "CHAR", "EOF"}
            ELSE tokens[n].tok = e.tok /\ tokens[n].value = e.value

\* A literal is given the type and the exact value that its digits, its exponent
\* and its suffix have, or is refused (lx_strscan_scan).
NumbersExact ==
    \A n \in DOMAIN tokens : Numeric(Places[n]) =>
        LET t == tokens[n]
            x == NumberOf(source[Places[n]].text, ls.opt)
        IN /\ t.tok = x.fmt
           /\ IF t.tok = "ERROR" THEN t.value = "XNUMBER"
              ELSE over(t.value) * x.den = x.num * under(t.value)

\* Where a token starts and how long it is, as the host needs them to cut the
\* token out of the text.  After a comment the line and the column are those of
\* the comment until a line break follows, and the place in the file is wrong
\* after a comment or a line break of two bytes (scan).
PositionsExact ==
    \A n \in DOMAIN tokens :
        LET k == Places[n]
            from == IF n = 1 THEN 1 ELSE Places[n - 1] + 1
            comments == {i \in from..k - 1 : source[i].tok \in {"SHORT", "LONG"}}
            breaks == {i \in from..k - 1 : source[i].tok = "BREAK"}
            at == Start(source, k)
            t == tokens[n]
        IN /\ (\A i \in comments : \E j \in breaks : i < j) =>
                 t.line = LineOf(Text(source), at) /\ t.linepos = ColumnOf(Text(source), at)
           /\ (comments = {} /\ \A i \in breaks : Len(source[i].text) = 1) =>
                 t.filepos = at /\ (t.tok # "ERROR" => t.len = Len(Expected(k).text))
===============================================================================
