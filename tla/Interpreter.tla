------------------------------ MODULE Interpreter -------------------------------
(***************************************************************************)
(* The interpreter that modules are bundled with: main() of                  *)
(* csrc/bundle/luajit.c, the Lua code it runs, and Ctrl-C at any moment.      *)
(* pc is where main() is; call is the Lua code that is running, or that has    *)
(* returned while its caller has not gone on yet.  The Lua stack holds tagged   *)
(* values.  How a chunk ends, what is typed and whether a module is broken is   *)
(* chosen freely.  The build is the one of the bundles: LUAPOWER_BUILD is not   *)
(* defined, BUNDLE_MAIN is.                                                     *)
(* Definitions marked "variant" are mistakes the code could have made; no       *)
(* definition uses them.                                                        *)
(***************************************************************************)
EXTENDS CommandLine, Bundle

CONSTANTS Commands, Environments,   \* command lines, and what else is given
          MaxSignals, MaxLines      \* bounds: of Ctrl-C and of lines typed

ASSUME CommandsAssumption == \A c \in Commands : WellWritten(c)
\* a table of values that the code may leave in the global arg is finite
ASSUME EnvironmentsAssumption == \A e \in Environments : \A a \in e.args : IsFiniteSet(DOMAIN a.at)

VARIABLES cmd, env,    \* what the program is given
          pc, i,       \* where main() is, and the argument runargs() is at
          stack,       \* of the Lua state
          arg,         \* the global arg
          registry,    \* the libraries with an entry
          call,        \* the Lua code that runs
          handler,     \* of SIGINT: "default", which ends the process, or "laction"
          hook,        \* lstop() is set as a hook
          late,        \* how many calls began since it was
          signals,     \* how often Ctrl-C was pressed
          typed, lines,\* the lines of the statement being read, and how many were typed
          ran,         \* what has been run
          exit         \* "none", "success", "failure" or "killed"
input   == <<cmd, env>>
lua     == <<stack, arg, registry>>
sigint  == <<handler, hook, late, signals>>
console == <<typed, lines>>
vars    == <<input, pc, i, lua, call, sigint, console, ran, exit>>

argv    == Argv(cmd)
argn    == collectargs(argv).argn
flags   == collectargs(argv).flags
loaders == bundle_add_loaders(<<"files">>)
Idle    == [what |-> "none"]
Nil     == <<"nil">>
Message == <<"message">>
Value(x) == <<"value", x>>

Init == /\ cmd \in Commands /\ env \in Environments
        /\ pc = "start" /\ i = 1
        /\ stack = << >> /\ registry = {} /\ arg = [table |-> FALSE, at |-> << >>]
        /\ call = Idle /\ handler = "default" /\ hook = FALSE /\ late = 0 /\ signals = 0
        /\ typed = << >> /\ lines = 0 /\ ran = << >> /\ exit = "none"
-------------------------------------------------------------------------------
(***************************************************************************)
(* A call of the Lua code at the top of the stack s, with narg arguments     *)
(* above it.  guard says how: docall(), lua_pcall() alone, or lua_call().     *)
(* With docall() the handler of errors goes under the function, and SIGINT    *)
(* sets the hook until it returns.                                             *)
(***************************************************************************)
Unguarded == IF call # Idle /\ call.guard = "docall" THEN "default" ELSE handler
Begin(what, op, s, narg, guard) ==
    LET base == Len(s) - narg
    IN /\ call' = [what |-> what, operand |-> op, guard |-> guard, base |-> base, outcome |-> "running",
                   fn |-> s[base], args |-> SubSeq(s, base + 1, Len(s)), results |-> << >>,
                   interrupted |-> hook]
       /\ stack' = IF guard = "docall" THEN InsertAt(s, base, <<"traceback">>) ELSE s
       /\ handler' = IF guard = "docall" THEN "laction" ELSE Unguarded
       /\ late' = IF hook THEN late + 1 ELSE late
       /\ UNCHANGED <<hook, signals>>

Running(what) == call # Idle /\ call.outcome = "running" /\ call.what = what
Returned(what) == call # Idle /\ call.outcome # "running" /\ call.what = what
Failed == call.outcome # "ok"
\* the call is over: what it leaves takes the place of the function and its arguments
Leaves(outcome, results) ==
    LET fn == IF call.guard = "docall" THEN call.base + 1 ELSE call.base
    IN /\ call' = [call EXCEPT !.outcome = outcome, !.results = results]
       /\ stack' = SubSeq(stack, 1, fn - 1) \o results

Many == {"script", "line", "status"}   \* called for all their results
Results(what) ==
    CASE what \in {"bundle_loader", "main"} -> {<<Value("function")>>, <<Value("true")>>, <<Nil>>}
      [] what = "add-on" -> {<<Value("module")>>, <<Value("other")>>}
      [] what \in Many -> {<< >>, <<Value(1), Nil>>}
      [] OTHER -> {<< >>}
\* all the code that runs between the making of the global arg and the script may change it
Rewriters == {"init", "-e", "-l", "-O", "add-on", "-j", "-b"}
\* code that is there ends as it may; only code that began without the hook set gets to
CanEnd == call # Idle /\ call.outcome = "running" /\ ~call.interrupted
Missing == call.what \in {"bundle_loader", "-l", "add-on"} /\ Source(loaders, env.has, call.operand.tail) = "none"
Return == /\ CanEnd /\ ~Missing
          /\ \E r \in Results(call.what) : Leaves("ok", r)
          /\ arg' \in {arg} \cup (IF call.what \in Rewriters THEN env.args ELSE {})
          /\ UNCHANGED <<input, pc, i, registry, sigint, console, ran, exit>>
\* an error with a message, or with nil; "absent" when the message says that a module
\* was not found, be it one that the module asked for needs
Throw == /\ CanEnd
         /\ \/ ~Missing /\ Leaves("error", <<Message>>)
            \/ ~Missing /\ Leaves("error", <<Nil>>)
            \/ (Missing \/ call.what \in {"bundle_loader", "add-on"}) /\ Leaves("absent", <<Message>>)
         /\ UNCHANGED <<input, pc, i, arg, registry, sigint, console, ran, exit>>

(***************************************************************************)
(* Ctrl-C.  lstop() raises an error in the Lua code that runs next; that      *)
(* code may catch it, unless it has only just been called.                     *)
(***************************************************************************)
Sigint == /\ exit = "none" /\ signals < MaxSignals
          /\ signals' = signals + 1
          /\ IF handler = "laction"
             THEN handler' = "default" /\ hook' = TRUE /\ late' = 0 /\ UNCHANGED exit
             ELSE exit' = "killed" /\ UNCHANGED <<handler, hook, late>>
          /\ UNCHANGED <<input, pc, i, lua, call, console, ran>>
unhook_never == UNCHANGED hook                                    \* variant
unhook == hook' = FALSE
lstop == /\ hook /\ exit = "none" /\ call # Idle /\ call.outcome = "running"
         /\ unhook
         /\ \/ Leaves("interrupted", <<Message>>)
            \/ ~call.interrupted /\ UNCHANGED <<call, stack>>
         /\ UNCHANGED <<input, pc, i, arg, registry, handler, late, signals, console, ran, exit>>
-------------------------------------------------------------------------------
(***************************************************************************)
(* What main() does when a call has returned.  docall() takes its handlers    *)
(* away; report() takes the message off the stack, but not a nil.              *)
(***************************************************************************)
AfterCall == IF call.guard = "docall" THEN RemoveAt(stack, call.base) ELSE stack
report(failed, s) == IF failed /\ Last(s) # Nil THEN Front(s) ELSE s
GoOn == /\ exit = "none"
        /\ ran' = Append(ran, [what |-> call.what, operand |-> call.operand, fn |-> call.fn,
                               args |-> call.args, results |-> call.results, outcome |-> call.outcome])
        /\ UNCHANGED <<input, arg, registry, console>>
Over == call' = Idle /\ handler' = Unguarded /\ UNCHANGED <<hook, late, signals>>
Exit(failed) == exit' = IF failed THEN "failure" ELSE "success"
Goto(place) == pc' = place /\ UNCHANGED exit
Step(place) == /\ pc = place /\ exit = "none" /\ call = Idle
               /\ UNCHANGED <<input, ran>>
Quiet == UNCHANGED <<call, sigint>>

\* an error of lua_call() goes through pmain() to main()
Escapes == /\ \E w \in {"main", "status"} : Returned(w) /\ Failed
           /\ GoOn /\ Over /\ Exit(TRUE) /\ UNCHANGED <<pc, i, stack>>

main == /\ Step("start") /\ Quiet /\ UNCHANGED <<i, lua, console>>
        /\ IF argn = 0 THEN Exit(TRUE) /\ UNCHANGED pc ELSE Goto("bundle")

\* bundle_main(): the main function of a bundle, or nothing to run
bundle_main == /\ Step("bundle") /\ Goto("bundle") /\ UNCHANGED <<i, arg, console>>
               /\ Begin("bundle_loader", Word("bundle_loader"),
                        stack \o <<Value("require"), Word("bundle_loader")>>, 1, "pcall")
               /\ registry' = ll_register(registry, loaders, env.has, "bundle_loader")
Fallback == Goto("arg") /\ UNCHANGED arg
bundle_loaded ==
    /\ Returned("bundle_loader") /\ exit = "none"
    /\ UNCHANGED <<input, i, registry, console, ran>>
    /\ CASE call.outcome = "absent" ->
              Fallback /\ call' = Idle /\ stack' = << >> /\ UNCHANGED sigint
         [] call.outcome = "ok" /\ Last(stack) = Value("function") ->
              /\ arg' = [createargtable(argv, 0) EXCEPT !.at = [k \in -1..Len(argv) |->
                            IF k = -1 THEN Word("BUNDLE_MAIN") ELSE @[k]]]
              /\ Begin("main", Nothing, stack \o argv, Len(argv), "call")
              /\ UNCHANGED <<pc, exit>>
         [] call.outcome = "ok" /\ Last(stack) = Value("true") ->
              Fallback /\ call' = Idle /\ stack' = << >> /\ UNCHANGED sigint
         [] call.outcome = "ok" /\ Last(stack) = Nil ->
              Exit(FALSE) /\ call' = Idle /\ stack' = << >> /\ UNCHANGED <<pc, arg, sigint>>
         [] OTHER -> Exit(TRUE) /\ call' = Idle /\ UNCHANGED <<pc, stack, arg, sigint>>
main_returned ==
    /\ Returned("main") /\ ~Failed /\ GoOn /\ Over /\ stack' = << >> /\ UNCHANGED i
    /\ IF Last(stack) = Nil THEN Exit(FALSE) /\ UNCHANGED pc ELSE Goto("arg")

arg_table == /\ Step("arg") /\ Quiet /\ Goto("init")
             /\ arg' = createargtable(argv, argn)
             /\ UNCHANGED <<i, stack, registry, console>>
-------------------------------------------------------------------------------
\* a chunk that does not compile, or a file that is not there
NoChunk(place) == /\ Step(place) /\ Quiet /\ Exit(TRUE)
                  /\ stack' = report(TRUE, Append(stack, Message))
                  /\ UNCHANGED <<pc, i, arg, registry, console>>
Chunk(what, op) == Append(stack, <<"chunk", what, op>>)

handle_luainit ==
    /\ Step("init") /\ UNCHANGED <<i, arg, registry, console>>
    /\ IF env.init /\ "NOENV" \notin flags
       THEN Goto("init") /\ Begin("init", Nothing, Chunk("init", Nothing), 0, "docall")
       ELSE Goto("options") /\ Quiet /\ UNCHANGED stack
init_bad == env.init /\ "NOENV" \notin flags /\ NoChunk("init")

\* the options that runargs() has not come to
Option_at(heads) == Step("options") /\ i < argn /\ argv[i].head \in heads
Op == operand(argv, i)
flag_option == /\ Option_at({"-i", "-v", "-E", "--"}) /\ Quiet /\ Goto("options")
               /\ i' = i + 1 /\ UNCHANGED <<lua, console>>
dostring == /\ Option_at({"-e"}) /\ Goto("options")
            /\ Begin("-e", Op, Chunk("-e", Op), 0, "docall")
            /\ UNCHANGED <<i, arg, registry, console>>
dostring_bad == Option_at({"-e"}) /\ NoChunk("options")
dolibrary == /\ Option_at({"-l"}) /\ Goto("options")
             /\ Begin("-l", Op, stack \o <<Value("require"), Op>>, 1, "docall")
             /\ registry' = ll_register(registry, loaders, env.has, Op.tail)
             /\ UNCHANGED <<i, arg, console>>

\* dojitcmd(), dojitopt() and dobytecode(): a function of the jit library, or that
\* of an add-on module, which leaves its name or not on the stack.  The function of -j is
\* found by its name.  The arguments are cut at the commas; of an empty one comes a nil.
Function(opt, op) == <<"function", opt, IF opt = "-j" THEN before_equals(op) ELSE Nothing>>
Options(text) ==
    LET pieces == IF text \in DOMAIN Pieces THEN Pieces[text] ELSE <<text>>
    IN IF text = Nothing THEN << >>
       ELSE [k \in 1..Len(pieces) |-> IF pieces[k] = Nothing THEN Nil ELSE pieces[k]]
OptionsOf(opt, op) == Options(IF opt = "-j" THEN after_equals(op) ELSE op)
runcmdopt == /\ Option_at({"-j", "-O"}) /\ Goto("options")
             /\ LET opt == argv[i].head
                IN Begin(opt, Op, Append(stack, Function(opt, Op)) \o OptionsOf(opt, Op),
                         Len(OptionsOf(opt, Op)), "pcall")
             /\ UNCHANGED <<i, arg, registry, console>>
loadjitmodule == /\ Option_at({"-j", "-b"}) /\ Goto("options")
                 /\ LET name == IF argv[i].head = "-b" THEN Word("bcsave") ELSE before_equals(Op)
                    IN /\ Begin("add-on", name, stack \o <<name, Value("require"), name>>, 1, "pcall")
                       /\ registry' = ll_register(registry, loaders, env.has, name.tail)
                 /\ UNCHANGED <<i, arg, console>>
BytecodeArgs == hyphenated(Op) \o SubSeq(argv, i + 1, Len(argv))
add_on_loaded ==
    /\ Returned("add-on") /\ exit = "none"
    /\ UNCHANGED <<input, i, arg, registry, console, ran>>
    /\ IF Failed \/ Last(stack) = Value("other")
       THEN /\ Exit(TRUE) /\ call' = Idle /\ UNCHANGED <<pc, sigint>>
            /\ stack' = IF call.outcome \in {"error", "interrupted"} THEN report(TRUE, stack) ELSE stack
       ELSE LET name == stack[Len(stack) - 1]
                start == Function(argv[i].head, Op)
                below == SubSeq(stack, 1, Len(stack) - 2)
            IN /\ UNCHANGED <<pc, exit>>
               /\ IF argv[i].head = "-b"
                  THEN Begin("-b", Op, below \o <<name, start>> \o BytecodeArgs, Len(BytecodeArgs), "pcall")
                  ELSE Begin("-j", Op, below \o <<start>> \o OptionsOf("-j", Op),
                             Len(OptionsOf("-j", Op)), "pcall")

\* runargs() stops at an option that fails, and at -b in any case
StopsUnlessO == Failed /\ call.what # "-O"                        \* variant
Stops == Failed
option_done ==
    /\ \E w \in {"init", "-e", "-l", "-j", "-O", "-b"} : Returned(w)
    /\ GoOn /\ Over
    /\ stack' = report(Failed, AfterCall)
    /\ CASE call.what = "-b" -> Exit(FALSE) /\ UNCHANGED <<pc, i>>
         [] call.what # "-b" /\ Stops -> Exit(TRUE) /\ UNCHANGED <<pc, i>>
         [] call.what = "init" /\ ~Stops -> Goto("options") /\ UNCHANGED i
         [] OTHER -> Goto("options") /\ i' = next_option(argv, i)
options_done == /\ Step("options") /\ i >= argn /\ Quiet
                /\ Goto(IF Len(argv) >= argn THEN "script" ELSE "last")
                /\ UNCHANGED <<i, lua, console>>
-------------------------------------------------------------------------------
\* handle_script(): the chunk, the table, its elements up to a nil; then the nil and
\* the table are taken away
remove_first(s, n) == RemoveAt(s, 1)                              \* variant
remove_table(s, n) == RemoveAt(s, Len(s) - n)
ScriptStack ==
    LET s == Chunk("script", script_file(argv, argn))
        n == CHOOSE k \in 0..Cardinality(DOMAIN arg.at) : k + 1 \notin DOMAIN arg.at /\ \A m \in 1..k : m \in DOMAIN arg.at
    IN IF arg.table THEN remove_table(s \o <<Value("arg")>> \o [k \in 1..n |-> arg.at[k]], n) ELSE s
handle_script ==
    LET s == ScriptStack
    IN /\ Step("script") /\ Goto("script")
       /\ Begin("script", script_file(argv, argn), s, Len(s) - Len(stack) - 1, "docall")
       /\ UNCHANGED <<i, arg, registry, console>>
script_bad == NoChunk("script")
script_done == /\ Returned("script") /\ GoOn /\ Over /\ UNCHANGED i
               /\ stack' = report(Failed, AfterCall)
               /\ IF Failed THEN Exit(TRUE) /\ UNCHANGED pc ELSE Goto("last")

\* the console, the standard input as a script, or the end
Console == \/ "INTERACTIVE" \in flags
           \/ /\ Len(argv) < argn /\ flags \cap {"EXEC", "VERSION"} = {} /\ env.tty
print_jit_status == /\ Step("last") /\ Console /\ Goto("last")
                    /\ Begin("status", Nothing, Append(stack, Value("status")), 0, "call")
                    /\ UNCHANGED <<i, arg, registry, console>>
status_done == /\ Returned("status") /\ ~Failed /\ GoOn /\ Over /\ UNCHANGED i
               /\ stack' = << >> /\ Goto("loadline")
dofile == /\ Step("last") /\ ~Console /\ UNCHANGED <<i, arg, registry, console>>
          /\ IF Len(argv) >= argn \/ flags \cap {"EXEC", "VERSION"} # {}
             THEN Exit(FALSE) /\ Quiet /\ UNCHANGED <<pc, stack>>
             ELSE \/ Goto("last") /\ Begin("stdin", Nothing, Chunk("stdin", Nothing), 0, "docall")
                  \/ Exit(FALSE) /\ Quiet /\ UNCHANGED <<pc, stack>>
stdin_done == /\ Returned("stdin") /\ GoOn /\ Over /\ UNCHANGED <<pc, i>>
              /\ stack' = report(Failed, AfterCall) /\ Exit(FALSE)
-------------------------------------------------------------------------------
(***************************************************************************)
(* dotty(): a statement is read, as many lines as it takes, and run; what it  *)
(* returns is printed.  loadline() looks for the line at the bottom of the     *)
(* stack.                                                                       *)
(***************************************************************************)
empty_stack == << >>
Typing == /\ lines < MaxLines /\ lines' = lines + 1
end_of_input == /\ pc \in {"loadline", "addline"} /\ Step(pc) /\ Quiet
                /\ stack' = << >> /\ Exit(FALSE)
                /\ UNCHANGED <<pc, i, arg, registry, console>>
pushline == /\ Step("loadline") /\ Quiet /\ Typing /\ Goto("loadbuffer")
            /\ typed' = <<lines'>>
            /\ stack' = Append(empty_stack, <<"text", typed'>>)
            /\ UNCHANGED <<i, arg, registry>>
incomplete == /\ Step("loadbuffer") /\ Quiet /\ Goto("addline")
              /\ UNCHANGED <<i, lua, console>>
addline == /\ Step("addline") /\ Quiet /\ Typing /\ Goto("loadbuffer")
           /\ typed' = Append(typed, lines')
           /\ stack' = Append(Front(stack), <<"text", Append(Last(stack)[2], lines')>>)
           /\ UNCHANGED <<i, arg, registry>>
line_bad == /\ Step("loadbuffer") /\ Quiet /\ Goto("loadline")
            /\ stack' = report(TRUE, RemoveAt(Append(stack, Message), 1))
            /\ UNCHANGED <<i, arg, registry, console>>
line_loaded == LET s == RemoveAt(Append(stack, <<"line", stack[1]>>), 1)
               IN /\ Step("loadbuffer") /\ Goto("loadbuffer") /\ Begin("line", typed, s, 0, "docall")
                  /\ UNCHANGED <<i, arg, registry, console>>
line_done ==
    LET s == report(Failed, AfterCall)
    IN /\ Returned("line") /\ GoOn /\ Goto("loadline") /\ UNCHANGED i
       /\ IF Failed \/ s = << >> THEN Over /\ stack' = s
          ELSE Begin("print", Nothing, <<Value("print")>> \o s, Len(s), "pcall")
print_done == /\ Returned("print") /\ GoOn /\ Over /\ UNCHANGED i /\ Goto("loadline")
              /\ stack' = IF Failed THEN stack \o <<Message>> ELSE stack

Next == \/ Return \/ Throw \/ Sigint \/ lstop \/ Escapes
        \/ main \/ bundle_main \/ bundle_loaded \/ main_returned \/ arg_table
        \/ handle_luainit \/ init_bad \/ flag_option \/ dostring \/ dostring_bad \/ dolibrary
        \/ runcmdopt \/ loadjitmodule \/ add_on_loaded \/ option_done \/ options_done
        \/ handle_script \/ script_bad \/ script_done
        \/ print_jit_status \/ status_done \/ dofile \/ stdin_done
        \/ end_of_input \/ pushline \/ incomplete \/ addline
        \/ line_bad \/ line_loaded \/ line_done \/ print_done
Spec == Init /\ [][Next]_vars
-------------------------------------------------------------------------------
\* what of a record of a call was asked for
Asked(r) == IF r.what \in {"main", "status", "line", "print"} THEN << >> ELSE << <<r.what, r.operand>> >>
\* What the command line asks for is run, in its order, each option with its own
\* operand, and all of it when the interpreter ends well; a script on the standard
\* input may fail to compile.  The - after an operand -- is taken for a file.
RunsWhatIsAsked ==
    LET plan == Plan(cmd, env.init, env.tty)
        done == FlattenSeq([k \in DOMAIN ran |-> Asked(ran[k])])
        dash == cmd.script = Stdin /\ ~cmd.dashes /\ cmd.options # << >>
                /\ cmd.options[Len(cmd.options)].operand = Dashes
    IN /\ Misused(cmd) => ran = << >> /\ exit # "success"
       /\ ~Misused(cmd) /\ ~dash => IsPrefix(done, plan)
       /\ exit = "success" /\ pc # "bundle" /\ ~dash =>
            plan \in {done, Append(done, <<"stdin", Nothing>>)}

\* A failure ends the run and shows in the exit status, but for a script on the
\* standard input, the code of the console and the saving of bytecode.
ExitTellsFailure ==
    \A k \in DOMAIN ran :
        /\ k < Len(ran) /\ ran[k].what \notin {"line", "print"} => ran[k].outcome = "ok"
        /\ ran[k].outcome # "ok" /\ exit = "success" => ran[k].what \in {"stdin", "line", "print", "-b"}

\* What is called is the chunk that was compiled for it, or the function that is named,
\* with the arguments meant for it: that of -j with what follows the =, cut at commas, and
\* with none if there is no =; that of -b with all that follows it; the script with the words
\* after it or those the global arg was given by code that ran before; a line with none,
\* print with what the line returned.
Positional(a) == [k \in {m \in (DOMAIN a.at) \cap Nat : m > 0 /\ 1..m \subseteq DOMAIN a.at} |-> a.at[k]]
CallsAreExact ==
    \A k \in DOMAIN ran :
        LET r == ran[k]
            before == \E m \in 1..k - 1 : ran[m].what \in Rewriters
        IN CASE r.what = "main" -> r.args = argv
             [] r.what = "-l"   -> r.fn = Value("require") /\ r.args = <<r.operand>>
             [] r.what = "line" -> r.fn = <<"line", <<"text", r.operand>>>> /\ r.args = << >>
             [] r.what = "print" -> r.fn = Value("print") /\ r.args = ran[k - 1].results
             [] r.what = "status" -> r.fn = Value("status") /\ r.args = << >>
             [] r.what = "-j" -> /\ r.fn = <<"function", "-j", before_equals(r.operand)>>
                                 /\ r.args = Options(after_equals(r.operand))
             [] r.what = "-O" -> r.fn = <<"function", "-O", Nothing>> /\ r.args = Options(r.operand)
             [] r.what = "-b" -> r.fn = <<"function", "-b", Nothing>> /\ r.args = hyphenated(r.operand) \o
                                   (IF cmd.dashes THEN <<Dashes>> ELSE << >>) \o
                                   (IF cmd.script = Nothing THEN << >> ELSE <<cmd.script>>) \o cmd.rest
             [] r.what = "script" ->
                  /\ r.fn = <<"chunk", "script", r.operand>>
                  /\ r.args \in {cmd.rest} \cup
                       (IF before THEN {IF a.table THEN Positional(a) ELSE << >> : a \in env.args} ELSE {})
             [] OTHER -> r.fn = <<"chunk", r.what, r.operand>> /\ r.args = << >>

\* Ctrl-C interrupts the code it was pressed in or, when that is just over, the code
\* that runs next, and no other; and no more than once.
InterruptsOnce ==
    /\ hook => late <= 1
    /\ Cardinality({k \in DOMAIN ran : ran[k].outcome = "interrupted"}) <= signals
===============================================================================
