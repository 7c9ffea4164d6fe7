------------------------------ MODULE CommandLine -------------------------------
(***************************************************************************)
(* The command line of the interpreter: what is meant by one, how it is      *)
(* written, and how csrc/bundle/luajit.c takes it apart.  An argument is a    *)
(* record of its first characters, which say which option it is, and the      *)
(* rest of it.  argv[1] is the first argument; the name of the program comes  *)
(* before it.                                                                  *)
(* Definitions marked "variant" are mistakes the code could have made; no      *)
(* definition uses them.                                                       *)
(***************************************************************************)
EXTENDS Integers, Sequences, SequencesExt

CONSTANTS Halves,   \* the arguments with a = in them: what is before the first one, and after it
          Pieces    \* those with a comma: what is between the commas, which may be nothing

Arg(head, tail) == [head |-> head, tail |-> tail]
Word(tail) == Arg("word", tail)
Nothing == Arg("", "")
Dashes == Arg("--", "")
Stdin == Arg("-", "")

(***************************************************************************)
(* A command is a sequence of options, each with an operand that is joined   *)
(* to it or is the next argument, whether -- ends them, a script and its      *)
(* arguments.                                                                  *)
(***************************************************************************)
Option(opt, operand, joined) == [opt |-> opt, operand |-> operand, joined |-> joined]
Written(o) == CASE o.operand = Nothing -> <<Arg(o.opt, "")>>
                [] o.joined            -> <<Arg(o.opt, o.operand.tail)>>
                [] OTHER               -> <<Arg(o.opt, ""), o.operand>>
Argv(cmd) == FlattenSeq([k \in DOMAIN cmd.options |-> Written(cmd.options[k])])
             \o (IF cmd.dashes THEN <<Dashes>> ELSE << >>)
             \o (IF cmd.script = Nothing THEN << >> ELSE <<cmd.script>>) \o cmd.rest

Has(cmd, opt) == \E k \in DOMAIN cmd.options : cmd.options[k].opt = opt
\* how a command is written: an operand that is joined to its option has characters of
\* its own, and only those of -e, -l and -j may be the next argument; what follows -b, or an
\* option whose operand was forgotten, is no option; without -- a script is none either
TakesNext == {"-e", "-l", "-j"}
Argument == [head : STRING, tail : STRING]
ASSUME SpellingAssumption ==
    /\ \A a \in DOMAIN Halves : Halves[a] \in [before : Argument, after : Argument]
    /\ \A a \in DOMAIN Pieces : Pieces[a] \in Seq(Argument)
WellWritten(cmd) ==
    /\ cmd.options \in Seq([opt : STRING, operand : Argument, joined : BOOLEAN])
    /\ cmd.dashes \in BOOLEAN /\ cmd.script \in Argument /\ cmd.rest \in Seq(Argument)
    /\ \A k \in DOMAIN cmd.options :
        LET o == cmd.options[k]
        IN /\ o.opt \in TakesNext \cup {"-O", "-i", "-v", "-E", "-b", "-x"}
           /\ \/ o.operand = Nothing
              \/ o.joined /\ o.operand = Word(o.operand.tail) /\ o.operand.tail # ""
              \/ ~o.joined /\ o.opt \in TakesNext
           /\ o.opt = "-b" => k = Len(cmd.options)
           /\ o.opt \in TakesNext /\ o.operand = Nothing =>
                k = Len(cmd.options) /\ ~cmd.dashes /\ cmd.script = Nothing
    /\ cmd.script = Nothing => cmd.rest = << >>
    /\ cmd.dashes \/ Has(cmd, "-b") \/ cmd.script = Nothing \/ cmd.script.head \in {"word", "-"}

\* a command that the usage message does not allow
Misused(cmd) == \E k \in DOMAIN cmd.options :
    LET o == cmd.options[k]
    IN \/ o.opt = "-x"
       \/ o.opt \in {"-i", "-v"} /\ o.operand # Nothing
       \/ o.opt \in {"-e", "-l", "-j"} /\ o.operand = Nothing
       \/ o.opt = "-b" /\ \E n \in 1..k - 1 : cmd.options[n].opt # "-O"

\* what an option, and a command, ask to be run, in order; LUA_INIT comes first
Asks(o) == IF o.opt \in {"-e", "-l", "-j", "-O", "-b"} THEN << <<o.opt, o.operand>> >> ELSE << >>
Plan(cmd, init, tty) ==
    LET runs == FlattenSeq([k \in DOMAIN cmd.options |-> Asks(cmd.options[k])])
        plain == cmd.script = Nothing /\ \A opt \in {"-e", "-i", "-v"} : ~Has(cmd, opt)
    IN (IF init /\ ~Has(cmd, "-E") THEN << <<"init", Nothing>> >> ELSE << >>)
       \o runs
       \o (IF Has(cmd, "-b") \/ cmd.script = Nothing THEN << >>
           ELSE << <<"script", IF cmd.script = Stdin /\ cmd.dashes THEN Word("-") ELSE cmd.script>> >>)
       \o (IF plain /\ ~Has(cmd, "-b") /\ ~tty THEN << <<"stdin", Nothing>> >> ELSE << >>)
-------------------------------------------------------------------------------
(***************************************************************************)
(* collectargs(): the place of the first argument that is no option, 0 when  *)
(* the usage is wrong, and the flags.                                         *)
(***************************************************************************)
At(argv, i) == IF i \in DOMAIN argv THEN argv[i] ELSE Nothing
Collected(argn, flags) == [argn |-> argn, flags |-> flags]
Flags == {"INTERACTIVE", "VERSION", "OPTION", "EXEC", "NOENV"}
collectargs(argv) ==
    LET collect[i \in 1..Len(argv) + 1] == [flags \in SUBSET Flags |->
            LET a == argv[i]
                whole == a.tail = ""
                more(n, f) == collect[n][flags \cup f]
                wrong == Collected(0, flags)
            IN IF i > Len(argv) THEN Collected(i, flags)
               ELSE CASE a.head \in {"word", "-"} -> Collected(i, flags)
                      [] a.head = "--" -> IF whole THEN Collected(i + 1, flags) ELSE wrong
                      [] a.head = "-i" -> IF whole THEN more(i + 1, {"INTERACTIVE", "VERSION"}) ELSE wrong
                      [] a.head = "-v" -> IF whole THEN more(i + 1, {"VERSION"}) ELSE wrong
                      [] a.head \in {"-e", "-l", "-j"} ->
                           IF whole /\ i = Len(argv) THEN wrong
                           ELSE more(IF whole THEN i + 2 ELSE i + 1,
                                     {"OPTION"} \cup (IF a.head = "-e" THEN {"EXEC"} ELSE {}))
                      [] a.head = "-O" -> more(i + 1, {})
                      [] a.head = "-b" -> IF flags = {} THEN Collected(i + 1, {"EXEC"}) ELSE wrong
                      [] a.head = "-E" -> more(i + 1, {"NOENV"})
                      [] OTHER         -> wrong]
    IN collect[1][{}]

\* what runargs() takes as the operand of the option at i, and where it goes on
takes_operand_always(argv, i) == argv[i].head \in {"-e", "-l", "-j", "-O"} /\ argv[i].tail = ""  \* variant
takes_operand(argv, i) == argv[i].head \in {"-e", "-l", "-j"} /\ argv[i].tail = ""
operand(argv, i) == IF takes_operand(argv, i) THEN At(argv, i + 1)
                    ELSE IF argv[i].tail = "" THEN Nothing ELSE Word(argv[i].tail)
next_option(argv, i) == IF takes_operand(argv, i) THEN i + 2 ELSE i + 1

\* -j takes what precedes the = for a name, and what follows it for arguments; without =
\* there are none.  An argument of -bx has a hyphen put before the x.
before_equals(op) == IF op \in DOMAIN Halves THEN Halves[op].before ELSE op
after_equals(op)  == IF op \in DOMAIN Halves THEN Halves[op].after ELSE Nothing
hyphenated(op) == IF op = Nothing THEN << >> ELSE <<Arg("-", op.tail)>>

\* the file of handle_script(); Stdin for the standard input
script_file(argv, argn) ==
    IF argv[argn] = Stdin /\ At(argv, argn - 1) = Dashes THEN Word("-") ELSE argv[argn]

\* the values of the global arg, from the program's name on
createargtable(argv, argf) ==
    [table |-> TRUE, at |-> [k \in -argf..Len(argv) - argf |->
                                IF k = -argf THEN Word("luajit") ELSE argv[k + argf]]]
===============================================================================
