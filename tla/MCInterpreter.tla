------------------------------ MODULE MCInterpreter -----------------------------
(* Command lines of up to two options, and two that are wrong; Ctrl-C twice; two lines on the console.   *)
EXTENDS Interpreter

MCNames == ("" :> << >>) @@ ("bundle_loader" :> <<"loader">>) @@ ("bcsave" :> <<"jit", ".", "save">>)
           @@ ("m" :> <<"v", "-", "a", ".", "b">>) @@ ("x" :> <<"a", "_", "b">>)

MCHalves == (Word("x=3,,up") :> [before |-> Word("x"), after |-> Word("3,,up")])
            @@ (Word("x=") :> [before |-> Word("x"), after |-> Nothing])
MCPieces == (Word("3,,up") :> <<Word("3"), Nothing, Word("up")>>)
            @@ (Word("3,fold") :> <<Word("3"), Word("fold")>>)

Opts == { Option("-e", Word("x"), FALSE), Option("-e", Dashes, FALSE),
          Option("-l", Word("m"), TRUE), Option("-j", Word("x"), FALSE),
          Option("-j", Word("x=3,,up"), TRUE), Option("-j", Word("x="), TRUE),
          Option("-O", Nothing, FALSE), Option("-O", Word("3,fold"), TRUE), Option("-i", Nothing, FALSE),
          Option("-E", Nothing, FALSE), Option("-b", Nothing, FALSE), Option("-b", Word("x"), TRUE) }
Bad == { Option("-v", Word("x"), TRUE), Option("-x", Nothing, FALSE) }
Ends == { [dashes |-> FALSE, script |-> Nothing, rest |-> << >>],
          [dashes |-> TRUE, script |-> Nothing, rest |-> << >>],
          [dashes |-> FALSE, script |-> Word("f"), rest |-> <<Arg("-i", ""), Word("b")>>],
          [dashes |-> TRUE, script |-> Stdin, rest |-> << >>],
          [dashes |-> FALSE, script |-> Stdin, rest |-> <<Word("f")>>] }
Command(os, e) == [options |-> os, dashes |-> e.dashes, script |-> e.script, rest |-> e.rest]
\* every option alone, and pairs; what follows -b is for the module that saves the bytecode
First == {o \in Opts : o.opt \in {"-e", "-l"}}
Second == {o \in Opts : o.opt \in {"-e", "-j", "-i", "-b"}} \ {Option("-j", Word("x="), TRUE)}
Lists == {<< >>} \cup {<<o>> : o \in Opts} \cup {<<o, p>> : o \in First, p \in Second}
MCCommands == {Command(os, e) : os \in Lists, e \in Ends}
              \cup {Command(os \o <<b>>, e) : os \in {<< >>, <<Option("-E", Nothing, FALSE)>>}, b \in Bad, e \in Ends}
              \cup {Command(<<Option("-e", Nothing, FALSE)>>, CHOOSE e \in Ends : ~e.dashes /\ e.script = Nothing)}

Has0 == [files |-> {}, lua |-> {<<"a", "_", "b">>}, c |-> {<<"a", "_", "b">>}]
HasAll == [files |-> {<<"jit", ".", "save">>}, lua |-> {<<"loader">>}, c |-> {<<"a", "_", "b">>}]
NewArg == [table |-> TRUE, at |-> (1 :> Word("x"))]
NoArg  == [table |-> FALSE, at |-> << >>]
MCEnvironments == { [init |-> FALSE, tty |-> FALSE, has |-> Has0, args |-> {NewArg}],
                    [init |-> TRUE, tty |-> TRUE, has |-> HasAll, args |-> {NoArg}] }
===============================================================================
