--------------------------------- MODULE Bundle ---------------------------------
(***************************************************************************)
(* The loaders that csrc/bundle/bundle.c adds to those of require(), for     *)
(* the modules that are linked to the executable.  The name of a module and   *)
(* the symbol made of it are sequences of letters.                            *)
(***************************************************************************)
EXTENDS Integers, Sequences, SequencesExt, FiniteSetsExt

CONSTANT Names   \* how the modules are spelled: a function from words

\* what follows the first hyphen, with each point as an underscore
mksymname(name) ==
    LET hyphens == {i \in DOMAIN Names[name] : Names[name][i] = "-"}
        from == IF hyphens = {} THEN 1 ELSE Min(hyphens) + 1
    IN [i \in 1..Len(Names[name]) - from + 1 |->
           IF Names[name][from + i - 1] = "." THEN "_" ELSE Names[name][from + i - 1]]

\* which loader gives the module; "files" stands for the loaders of Lua itself
bundle_loader_lua(has, name) == mksymname(name) \in has.lua
bundle_loader_c(has, name)   == mksymname(name) \in has.c
Gives(loader, has, name) == CASE loader = "files" -> Names[name] \in has.files
                              [] loader = "lua"   -> bundle_loader_lua(has, name)
                              [] loader = "c"     -> bundle_loader_c(has, name)
bundle_add_loaders(loaders) == loaders \o <<"lua", "c">>

\* require() asks the loaders in turn
Source(loaders, has, name) ==
    LET k == SelectInSeq(loaders, LAMBDA l : Gives(l, has, name))
    IN IF k = 0 THEN "none" ELSE loaders[k]
\* the libraries that ll_register() has an entry for, after it was asked for one
ll_register(registry, loaders, has, name) ==
    IF Source(loaders, has, name) \in {"c", "none"} THEN registry \cup {name} ELSE registry
===============================================================================
