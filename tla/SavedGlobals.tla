---------------------------- MODULE SavedGlobals ----------------------------
(* Globals of the engine that the library swaps around a call: the name of   *)
(* the SAPI in cli_direct(), and the compiler's tree and mode in             *)
(* parse_string().  The call may be in a hook of zend_ast_process, while the *)
(* engine compiles a file, or in an error handler that a routine of          *)
(* cli_direct() has called, and it may throw.                                *)
EXTENDS Naturals, Sequences

CONSTANTS Cli, Hosts,  \* "cli"; the names SAPIs may have
          Null,        \* no tree
          MaxDepth,    \* calls in progress
          MaxTrees

Trees == 1..MaxTrees

ASSUME GlobalsAssumption ==
    /\ Cli \in Hosts /\ Null \notin Hosts /\ Null \notin Nat
    /\ MaxDepth \in Nat /\ MaxTrees \in Nat

VARIABLES
    php74,           \* the library parses by itself; later the engine does it
    host,            \* the SAPI's own name
    name,            \* sapi_module->name: its text
    in_compilation,  \* CG(in_compilation)
    ast,             \* CG(ast) and CG(ast_arena)
    trees,           \* trees so far
    stack,           \* calls in progress, the innermost last
    conduct,         \* which of Deeds the program has done
    over             \* the request has ended

compiler_vars == <<in_compilation, ast, trees>>
vars == <<php74, host, name, compiler_vars, stack, conduct, over>>

\* An exception that left cli_direct() or a parse of PHP 7.4; a parse while a
\* file is compiled, since PHP 8.0.
Deeds == {"escaped", "failed", "nested"}

\* What is in progress, the tree it is about and what it has saved.
Frame == [what : {"compile", "parse", "direct"}, tree : Trees \cup {Null},
          name : Hosts, in_compilation : BOOLEAN, ast : Trees \cup {Null}]

Call(what, tree) == [what |-> what, tree |-> tree, name |-> name,
                     in_compilation |-> in_compilation, ast |-> ast]

Top == stack[Len(stack)]
Inside(what) == stack # <<>> /\ Top.what = what
InProgress(whats) == \E i \in DOMAIN stack : stack[i].what \in whats

Push(frame) == Len(stack) < MaxDepth /\ stack' = Append(stack, frame)
Pop == stack' = SubSeq(stack, 1, Len(stack) - 1)

Does(deeds) == conduct' = conduct \cup deeds

\* The program runs: its script, a hook, or what a routine calls.
Running == ~over /\ ~Inside("parse")

-----------------------------------------------------------------------------
(* The engine compiles a file.                                             *)

\* zend_compile() has parsed the file and calls zend_ast_process().
Compile ==
    /\ Running /\ trees < MaxTrees
    /\ Push(Call("compile", trees + 1))
    /\ trees' = trees + 1 /\ ast' = trees' /\ in_compilation' = TRUE
    /\ UNCHANGED <<php74, host, name, conduct, over>>

\* It compiles CG(ast), and puts back what was there.
Compiled ==
    /\ ~over /\ Inside("compile")
    /\ ast' = Top.ast /\ in_compilation' = Top.in_compilation
    /\ Pop
    /\ UNCHANGED <<php74, host, name, trees, conduct, over>>

-----------------------------------------------------------------------------
(* parse_string()                                                          *)

\* Mutant of Lexical: zend_save_lexical_state() is left out.
LexicalUnsaved == [Call("parse", trees + 1) EXCEPT !.ast = Null]

Lexical == Call("parse", trees + 1)

\* PHP 7.4: up to zendparse().
zendparse ==
    /\ Running /\ php74 /\ trees < MaxTrees
    /\ Push(Lexical)
    /\ trees' = trees + 1 /\ ast' = Null /\ in_compilation' = TRUE
    /\ UNCHANGED <<php74, host, name, conduct, over>>

\* Mutant of Parsed: CG(in_compilation) stays on.
ParsedOn ==
    /\ ~over /\ Inside("parse")
    /\ ast' = Top.ast
    /\ Pop
    /\ UNCHANGED <<php74, host, name, in_compilation, trees, conduct, over>>

\* zendparse() succeeds.
Parsed ==
    /\ ~over /\ Inside("parse")
    /\ ast' = Top.ast /\ in_compilation' = Top.in_compilation
    /\ Pop
    /\ UNCHANGED <<php74, host, name, trees, conduct, over>>

\* It does not: its ParseError is thrown as soon as it returns, and what is
\* written for this case below the call does not run.
ParseError ==
    /\ ~over /\ Inside("parse")
    /\ Pop
    /\ Does({"failed"})
    /\ UNCHANGED <<php74, host, name, compiler_vars, over>>

\* Since PHP 8.0: zend_compile_string_to_ast() saves and restores, and the
\* library then makes the new tree the compiler's.  A ParseError comes before.
parse_string ==
    /\ Running /\ ~php74 /\ trees < MaxTrees
    /\ trees' = trees + 1 /\ ast' = trees'
    /\ Does(IF InProgress({"compile"}) THEN {"nested"} ELSE {})
    /\ UNCHANGED <<php74, host, name, in_compilation, stack, over>>

-----------------------------------------------------------------------------
(* cli_direct()                                                            *)

cli_direct ==
    /\ Running
    /\ Push(Call("direct", Null))
    /\ name' = Cli
    /\ UNCHANGED <<php74, host, compiler_vars, conduct, over>>

\* Mutant of Restored: the name is not put back.
RestoredNever(old) == name

Restored(old) == IF old # Cli THEN old ELSE name

\* The routine returns.
Returned ==
    /\ ~over /\ Inside("direct")
    /\ name' = Restored(Top.name)
    /\ Pop
    /\ UNCHANGED <<php74, host, compiler_vars, conduct, over>>

\* It throws.
Escaped ==
    /\ ~over /\ Inside("direct")
    /\ Pop
    /\ Does({"escaped"})
    /\ UNCHANGED <<php74, host, name, compiler_vars, over>>

-----------------------------------------------------------------------------
\* The script ends, also by an exception that leaves it or a hook, or by exit().
EndRequest ==
    /\ Running
    /\ over' = TRUE
    /\ UNCHANGED <<php74, host, name, compiler_vars, stack, conduct>>

Terminated == over /\ UNCHANGED vars

Init ==
    /\ php74 \in BOOLEAN /\ host \in Hosts /\ name = host
    /\ in_compilation = FALSE /\ ast = Null /\ trees = 0
    /\ stack = <<>> /\ conduct = {} /\ over = FALSE

Next ==
    \/ Compile \/ Compiled
    \/ zendparse \/ Parsed \/ ParseError \/ parse_string
    \/ cli_direct \/ Returned \/ Escaped
    \/ EndRequest \/ Terminated

Spec == Init /\ [][Next]_vars

-----------------------------------------------------------------------------
(* Properties.                                                             *)

TypeOK ==
    /\ php74 \in BOOLEAN /\ host \in Hosts /\ name \in Hosts
    /\ in_compilation \in BOOLEAN /\ ast \in Trees \cup {Null} /\ trees \in 0..MaxTrees
    /\ stack \in Seq(Frame) /\ Len(stack) <= MaxDepth
    /\ conduct \subseteq Deeds /\ over \in BOOLEAN

\* Until an exception leaves a routine, the SAPI is called "cli" while a routine
\* runs, whatever runs in it, and has its own name otherwise.
NameKept ==
    "escaped" \notin conduct =>
        name = IF InProgress({"direct"}) THEN Cli ELSE host

\* Whatever a hook compiles and parses, the engine goes on with the tree of its
\* own file; unless the hook parses, since PHP 8.0, or catches a ParseError.
OwnTreeCompiled ==
    conduct \cap {"nested", "failed"} = {} =>
        (Inside("compile") => ast = Top.tree)

\* The engine is in compilation while it compiles or parses and not afterwards,
\* at any depth, unless a parse failed.
CompilationEnds ==
    "failed" \notin conduct =>
        in_compilation = InProgress({"compile", "parse"})
=============================================================================
