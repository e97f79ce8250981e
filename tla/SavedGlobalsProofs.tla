------------------------- MODULE SavedGlobalsProofs -------------------------
(* SavedGlobals: types, and what is put back however deep calls are nested. *)
EXTENDS SavedGlobals, SequenceTheorems, TLAPS

-----------------------------------------------------------------------------
(* The two ways in which the stack of calls changes, and types.            *)

LEMMA Pushed ==
    ASSUME TypeOK, NEW f \in Frame, Push(f)
    PROVE  /\ Len(stack) \in Nat /\ Len(stack') = Len(stack) + 1 /\ Len(stack') <= MaxDepth
           /\ stack' \in Seq(Frame) /\ DOMAIN stack = 1..Len(stack)
           /\ DOMAIN stack' = 1..(Len(stack) + 1) /\ stack'[Len(stack) + 1] = f
           /\ \A k \in 1..Len(stack) : stack'[k] = stack[k]
  BY AppendProperties, GlobalsAssumption DEF TypeOK, Push

LEMMA Popped ==
    ASSUME TypeOK, stack # <<>>, Pop
    PROVE  /\ Len(stack) \in Nat \ {0} /\ Len(stack') = Len(stack) - 1 /\ Len(stack') <= MaxDepth
           /\ stack' \in Seq(Frame) /\ DOMAIN stack = 1..Len(stack)
           /\ DOMAIN stack' = 1..(Len(stack) - 1)
           /\ Top \in Frame /\ Top = stack[Len(stack)]
           /\ \A k \in 1..(Len(stack) - 1) : stack'[k] = stack[k]
  <1> USE GlobalsAssumption DEF TypeOK
  <1>1. Len(stack) \in Nat \ {0} /\ DOMAIN stack = 1..Len(stack)
    OBVIOUS
  <1>2. Top \in Frame /\ Top = stack[Len(stack)]
    BY <1>1 DEF Top
  <1>3. /\ stack' \in Seq(Frame) /\ Len(stack') = Len(stack) - 1
        /\ \A k \in 1..(Len(stack) - 1) : stack'[k] = stack[k]
    BY <1>1, SubSeqProperties DEF Pop
  <1>4. DOMAIN stack' = 1..(Len(stack) - 1)
    BY <1>3
  <1> QED BY <1>1, <1>2, <1>3, <1>4

LEMMA CallTypes ==
    ASSUME TypeOK, NEW what \in {"compile", "parse", "direct"}, NEW tree \in Trees \cup {Null}
    PROVE  /\ Call(what, tree) \in Frame /\ Call(what, tree).what = what
           /\ Call(what, tree).tree = tree /\ Call(what, tree).name = name
           /\ Call(what, tree).in_compilation = in_compilation /\ Call(what, tree).ast = ast
  BY DEF TypeOK, Call, Frame

\* The steps, by what they do to the stack.
Pushes(what, tree) ==
    /\ Push(Call(what, tree)) /\ conduct' = conduct
    /\ \/ /\ what = "compile" /\ tree \in Trees /\ ast' = tree
          /\ in_compilation' = TRUE /\ name' = name
       \/ what = "parse" /\ in_compilation' = TRUE /\ name' = name
       \/ what = "direct" /\ name' = Cli /\ UNCHANGED <<in_compilation, ast>>

Pops ==
    /\ stack # <<>> /\ Pop
    /\ \/ /\ Top.what \in {"compile", "parse"} /\ ast' = Top.ast
          /\ in_compilation' = Top.in_compilation /\ name' = name /\ conduct' = conduct
       \/ /\ Top.what = "parse" /\ name' = name /\ UNCHANGED <<in_compilation, ast>>
          /\ conduct' = conduct \cup {"failed"}
       \/ /\ Top.what = "direct" /\ name' = Restored(Top.name)
          /\ UNCHANGED <<in_compilation, ast>> /\ conduct' = conduct
       \/ /\ Top.what = "direct" /\ name' = name /\ UNCHANGED <<in_compilation, ast>>
          /\ conduct' = conduct \cup {"escaped"}

Stays ==
    /\ UNCHANGED <<stack, name, in_compilation>>
    /\ \/ UNCHANGED <<ast, conduct>>
       \/ conduct' = conduct \cup (IF InProgress({"compile"}) THEN {"nested"} ELSE {})

LEMMA StepKinds ==
    ASSUME TypeOK, [Next]_vars
    PROVE  /\ UNCHANGED host
           /\ \/ \E what \in {"compile", "parse", "direct"}, tree \in Trees \cup {Null} : Pushes(what, tree)
              \/ Pops
              \/ Stays
  <1> USE DEF compiler_vars, Does
  <1>0. trees < MaxTrees => trees + 1 \in Trees
    BY GlobalsAssumption DEF TypeOK, Trees
  <1>1. CASE Compile
    <2>1. Pushes("compile", trees + 1) /\ trees + 1 \in Trees /\ UNCHANGED host
      BY <1>0, <1>1 DEF Compile, Pushes
    <2> QED BY <2>1
  <1>2. CASE zendparse
    <2>1. Pushes("parse", trees + 1) /\ trees + 1 \in Trees /\ UNCHANGED host
      BY <1>0, <1>2 DEF zendparse, Lexical, Pushes
    <2> QED BY <2>1
  <1>3. CASE cli_direct
    <2>1. Pushes("direct", Null) /\ UNCHANGED host
      BY <1>3 DEF cli_direct, Pushes
    <2> QED BY <2>1
  <1>4. CASE Compiled \/ Parsed
    BY <1>4 DEF Compiled, Parsed, Pops, Inside
  <1>5. CASE ParseError
    BY <1>5 DEF ParseError, Pops, Inside
  <1>6. CASE Returned
    BY <1>6 DEF Returned, Pops, Inside
  <1>7. CASE Escaped
    BY <1>7 DEF Escaped, Pops, Inside
  <1>8. CASE parse_string
    BY <1>8 DEF parse_string, Stays
  <1>9. CASE EndRequest \/ Terminated \/ UNCHANGED vars
    BY <1>9 DEF EndRequest, Terminated, Stays, vars
  <1> QED BY <1>1, <1>2, <1>3, <1>4, <1>5, <1>6, <1>7, <1>8, <1>9 DEF Next

LEMMA TypeStep == TypeOK /\ [Next]_vars => TypeOK'
  <1> SUFFICES ASSUME TypeOK, [Next]_vars PROVE TypeOK'
    OBVIOUS
  <1> USE DEF compiler_vars, Does
  <1>0. /\ trees < MaxTrees => trees + 1 \in Trees /\ trees + 1 \in 0..MaxTrees
        /\ Cli \in Hosts
    BY GlobalsAssumption DEF TypeOK, Trees
  <1>1. ASSUME NEW what \in {"compile", "parse", "direct"}, NEW tree \in Trees \cup {Null},
               Push(Call(what, tree))
        PROVE  stack' \in Seq(Frame) /\ Len(stack') <= MaxDepth
    BY <1>1, CallTypes, Pushed
  <1>2. ASSUME stack # <<>>, Pop
        PROVE  /\ stack' \in Seq(Frame) /\ Len(stack') <= MaxDepth
               /\ Top.name \in Hosts /\ Top.in_compilation \in BOOLEAN /\ Top.ast \in Trees \cup {Null}
    BY <1>2, Popped DEF Frame
  <1>3. CASE Compile
    BY <1>0, <1>1, <1>3 DEF Compile, TypeOK
  <1>4. CASE zendparse
    BY <1>0, <1>1, <1>4 DEF zendparse, Lexical, TypeOK
  <1>5. CASE cli_direct
    BY <1>0, <1>1, <1>5 DEF cli_direct, TypeOK
  <1>6. CASE Compiled \/ Parsed
    BY <1>2, <1>6 DEF Compiled, Parsed, Inside, TypeOK
  <1>7. CASE ParseError \/ Escaped
    BY <1>2, <1>7 DEF ParseError, Escaped, Inside, TypeOK, Deeds
  <1>8. CASE Returned
    BY <1>2, <1>8 DEF Returned, Restored, Inside, TypeOK
  <1>9. CASE parse_string
    BY <1>0, <1>9 DEF parse_string, TypeOK, Deeds
  <1>10. CASE EndRequest \/ Terminated \/ UNCHANGED vars
    BY <1>10 DEF EndRequest, Terminated, TypeOK, vars
  <1> QED BY <1>3, <1>4, <1>5, <1>6, <1>7, <1>8, <1>9, <1>10 DEF Next

\* Every variable of SavedGlobals keeps its type, at any depth.
THEOREM TypeCorrect == Spec => []TypeOK
  <1>1. Init => TypeOK
    <2>1. <<>> \in Seq(Frame) /\ Len(<<>>) = 0 /\ 0 <= MaxDepth /\ 0 \in 0..MaxTrees
      BY GlobalsAssumption
    <2> QED BY <2>1 DEF Init, TypeOK
  <1> QED BY <1>1, TypeStep, PTL DEF Spec

-----------------------------------------------------------------------------
(* The SAPI's name: every routine has saved the one that is due without it. *)

Named(n) == IF \E i \in 1..n : stack[i].what = "direct" THEN Cli ELSE host

NameInv ==
    "escaped" \notin conduct =>
        /\ name = Named(Len(stack))
        /\ \A i \in 1..Len(stack) : stack[i].what = "direct" => stack[i].name = Named(i - 1)

LEMMA NameStep == TypeOK /\ NameInv /\ [Next]_vars => NameInv'
  <1> SUFFICES ASSUME TypeOK, NameInv, [Next]_vars, "escaped" \notin conduct' PROVE NameInv'
    BY DEF NameInv
  <1>0. host' = host
    BY StepKinds
  <1>1. ASSUME NEW what \in {"compile", "parse", "direct"}, NEW tree \in Trees \cup {Null},
               Pushes(what, tree)
        PROVE  NameInv'
    <2>0. PICK n \in Nat : n = Len(stack)
      BY DEF TypeOK
    <2>1. /\ n \in Nat /\ Len(stack') = n + 1 /\ stack'[n + 1].what = what
          /\ stack'[n + 1].name = name /\ \A k \in 1..n : stack'[k] = stack[k]
          /\ "escaped" \notin conduct /\ name' = (IF what = "direct" THEN Cli ELSE name)
      BY <1>1, <2>0, CallTypes, Pushed DEF Pushes
    <2>2. name = Named(n) /\ \A i \in 1..n : stack[i].what = "direct" => stack[i].name = Named(i - 1)
      BY <2>0, <2>1 DEF NameInv
    <2>3. \A i \in 0..n : Named(i)' = Named(i)
      BY <1>0, <2>1 DEF Named
    <2>4. Named(n + 1)' = (IF what = "direct" THEN Cli ELSE Named(n)')
      BY <2>1 DEF Named
    <2>5. name' = Named(n + 1)'
      BY <2>1, <2>2, <2>3, <2>4
    <2>6. ASSUME NEW i \in 1..(n + 1), stack'[i].what = "direct" PROVE stack'[i].name = Named(i - 1)'
      <3>1. CASE i = n + 1
        BY <2>1, <2>2, <2>3, <3>1
      <3>2. CASE i \in 1..n
        BY <2>1, <2>2, <2>3, <2>6, <3>2
      <3> QED BY <2>1, <3>1, <3>2
    <2> QED BY <2>1, <2>5, <2>6 DEF NameInv
  <1>2. ASSUME Pops PROVE NameInv'
    <2>0. PICK n \in Nat : n = Len(stack)
      BY DEF TypeOK
    <2>1. /\ n \in Nat \ {0} /\ Len(stack') = n - 1 /\ Top = stack[n]
          /\ \A k \in 1..(n - 1) : stack'[k] = stack[k]
          /\ "escaped" \notin conduct
          /\ \/ Top.what # "direct" /\ name' = name
             \/ Top.what = "direct" /\ name' = Restored(Top.name)
      BY <1>2, <2>0, Popped DEF Pops
    <2>2. name = Named(n) /\ \A i \in 1..n : stack[i].what = "direct" => stack[i].name = Named(i - 1)
      BY <2>0, <2>1 DEF NameInv
    <2>3. \A i \in 0..(n - 1) : Named(i)' = Named(i)
      BY <1>0, <2>1 DEF Named
    <2>4. Named(n) = (IF Top.what = "direct" THEN Cli ELSE Named(n - 1))
      BY <2>1 DEF Named
    <2>5. name' = Named(n - 1)
      <3>1. CASE Top.what # "direct"
        BY <2>1, <2>2, <2>4, <3>1
      <3>2. CASE Top.what = "direct"
        BY <2>1, <2>2, <2>4, <3>2 DEF Restored
      <3> QED BY <3>1, <3>2
    <2>6. name' = Named(n - 1)'
      BY <2>1, <2>3, <2>5
    <2>7. ASSUME NEW i \in 1..(n - 1), stack'[i].what = "direct" PROVE stack'[i].name = Named(i - 1)'
      BY <2>1, <2>2, <2>3, <2>7
    <2> QED BY <2>1, <2>6, <2>7 DEF NameInv
  <1>3. ASSUME Stays PROVE NameInv'
    BY <1>0, <1>3 DEF Stays, NameInv, Named
  <1> QED BY <1>1, <1>2, <1>3, StepKinds

\* Until an exception leaves a routine, the SAPI is called "cli" while a routine
\* runs and has its own name otherwise, at any depth of nesting.
THEOREM NameRestored == Spec => []NameKept
  <1>1. Init => NameInv
    BY DEF Init, NameInv, Named
  <1>2. TypeOK /\ NameInv => NameKept
    BY DEF TypeOK, NameInv, NameKept, Named, InProgress
  <1> QED BY <1>1, <1>2, NameStep, TypeCorrect, PTL DEF Spec

-----------------------------------------------------------------------------
(* The compiler's mode, in the same way.                                   *)

Compiles(n) == IF \E i \in 1..n : stack[i].what \in {"compile", "parse"} THEN TRUE ELSE FALSE

ModeInv ==
    "failed" \notin conduct =>
        /\ in_compilation = Compiles(Len(stack))
        /\ \A i \in 1..Len(stack) : stack[i].what \in {"compile", "parse"} =>
               stack[i].in_compilation = Compiles(i - 1)

LEMMA ModeStep == TypeOK /\ ModeInv /\ [Next]_vars => ModeInv'
  <1> SUFFICES ASSUME TypeOK, ModeInv, [Next]_vars, "failed" \notin conduct' PROVE ModeInv'
    BY DEF ModeInv
  <1>1. ASSUME NEW what \in {"compile", "parse", "direct"}, NEW tree \in Trees \cup {Null},
               Pushes(what, tree)
        PROVE  ModeInv'
    <2>0. PICK n \in Nat : n = Len(stack)
      BY DEF TypeOK
    <2>1. /\ n \in Nat /\ Len(stack') = n + 1 /\ stack'[n + 1].what = what
          /\ stack'[n + 1].in_compilation = in_compilation
          /\ \A k \in 1..n : stack'[k] = stack[k]
          /\ "failed" \notin conduct
      BY <1>1, <2>0, CallTypes, Pushed DEF Pushes
    <2>a. what = "direct" => in_compilation' = in_compilation
      BY <1>1, Zenon DEF Pushes
    <2>b. what # "direct" => in_compilation' = TRUE
      BY <1>1, Zenon DEF Pushes
    <2>2. /\ in_compilation = Compiles(n)
          /\ \A i \in 1..n : stack[i].what \in {"compile", "parse"} =>
                stack[i].in_compilation = Compiles(i - 1)
      BY <2>0, <2>1 DEF ModeInv
    <2>3. \A i \in 0..n : Compiles(i)' = Compiles(i)
      BY <2>1 DEF Compiles
    <2>4. Compiles(n + 1)' = (IF what = "direct" THEN Compiles(n)' ELSE TRUE)
      BY <2>1 DEF Compiles
    <2>5. in_compilation' = Compiles(n + 1)'
      <3>1. CASE what = "direct"
        <4>1. n \in 0..n
          OBVIOUS
        <4> QED BY <2>a, <2>2, <2>3, <2>4, <3>1, <4>1, Zenon
      <3>2. CASE what # "direct"
        BY <2>b, <2>4, <3>2, Zenon
      <3> QED BY <3>1, <3>2
    <2>6. ASSUME NEW i \in 1..(n + 1), stack'[i].what \in {"compile", "parse"}
          PROVE  stack'[i].in_compilation = Compiles(i - 1)'
      <3>1. CASE i = n + 1
        BY <2>1, <2>2, <2>3, <3>1
      <3>2. CASE i \in 1..n
        BY <2>1, <2>2, <2>3, <2>6, <3>2
      <3> QED BY <2>1, <3>1, <3>2
    <2> QED BY <2>1, <2>5, <2>6 DEF ModeInv
  <1>2. ASSUME Pops PROVE ModeInv'
    <2>0. PICK n \in Nat : n = Len(stack)
      BY DEF TypeOK
    <2>1. /\ n \in Nat \ {0} /\ Len(stack') = n - 1 /\ Top = stack[n]
          /\ \A k \in 1..(n - 1) : stack'[k] = stack[k]
          /\ "failed" \notin conduct
          /\ \/ /\ Top.what \in {"compile", "parse"} /\ in_compilation' = Top.in_compilation
             \/ /\ Top.what = "direct" /\ in_compilation' = in_compilation
      BY <1>2, <2>0, Popped DEF Pops
    <2>2. /\ in_compilation = Compiles(n)
          /\ \A i \in 1..n : stack[i].what \in {"compile", "parse"} =>
                stack[i].in_compilation = Compiles(i - 1)
      BY <2>0, <2>1 DEF ModeInv
    <2>3. \A i \in 0..(n - 1) : Compiles(i)' = Compiles(i)
      BY <2>1 DEF Compiles
    <2>4. Top.what = "direct" => Compiles(n) = Compiles(n - 1)
      BY <2>1 DEF Compiles
    <2>5. in_compilation' = Compiles(n - 1)
      BY <2>1, <2>2, <2>4
    <2>6. in_compilation' = Compiles(n - 1)'
      BY <2>1, <2>3, <2>5
    <2>7. ASSUME NEW i \in 1..(n - 1), stack'[i].what \in {"compile", "parse"}
          PROVE  stack'[i].in_compilation = Compiles(i - 1)'
      BY <2>1, <2>2, <2>3, <2>7
    <2> QED BY <2>1, <2>6, <2>7 DEF ModeInv
  <1>3. ASSUME Stays PROVE ModeInv'
    BY <1>3 DEF Stays, ModeInv, Compiles
  <1> QED BY <1>1, <1>2, <1>3, StepKinds

\* The engine is in compilation while it compiles or parses and not afterwards,
\* at any depth, unless a parse failed.
THEOREM ModeRestored == Spec => []CompilationEnds
  <1>1. ASSUME Init PROVE ModeInv
    <2>1. Len(stack) = 0 /\ 1..0 = {} /\ in_compilation = FALSE
      BY <1>1 DEF Init
    <2>2. Compiles(0) = FALSE
      BY <2>1 DEF Compiles
    <2> QED BY <2>1, <2>2, Zenon DEF ModeInv
  <1>2. TypeOK /\ ModeInv => CompilationEnds
    <2> SUFFICES ASSUME TypeOK, ModeInv, "failed" \notin conduct
                 PROVE  in_compilation = InProgress({"compile", "parse"})
      BY DEF CompilationEnds
    <2>1. Compiles(Len(stack)) = InProgress({"compile", "parse"})
      BY DEF TypeOK, Compiles, InProgress
    <2> QED BY <2>1 DEF ModeInv
  <1> QED BY <1>1, <1>2, ModeStep, TypeCorrect, PTL DEF Spec

-----------------------------------------------------------------------------
(* The compiler's tree.  Left(i) is the tree that call i leaves to those it *)
(* has made: its own where the engine compiles a file, and in a routine      *)
(* that a compilation has led to the one the routine found.                  *)

Left(i) == IF i = Len(stack) THEN ast ELSE stack[i + 1].ast

TreeInv ==
    "nested" \notin conduct /\ "failed" \notin conduct =>
        \A i \in 1..Len(stack) :
            /\ stack[i].what = "compile" => Left(i) = stack[i].tree
            /\ (stack[i].what = "direct" /\ \E j \in 1..(i - 1) : stack[j].what = "compile") =>
                   Left(i) = stack[i].ast

LEMMA TreeStep == TypeOK /\ TreeInv /\ [Next]_vars => TreeInv'
  <1> SUFFICES ASSUME TypeOK, TreeInv, [Next]_vars,
                      "nested" \notin conduct', "failed" \notin conduct'
               PROVE  TreeInv'
    BY DEF TreeInv
  <1>1. ASSUME NEW what \in {"compile", "parse", "direct"}, NEW tree \in Trees \cup {Null},
               Pushes(what, tree)
        PROVE  TreeInv'
    <2>0. PICK n \in Nat : n = Len(stack)
      BY DEF TypeOK
    <2>1. /\ n \in Nat /\ Len(stack') = n + 1 /\ stack'[n + 1].what = what
          /\ stack'[n + 1].tree = tree /\ stack'[n + 1].ast = ast
          /\ \A k \in 1..n : stack'[k] = stack[k]
          /\ "nested" \notin conduct /\ "failed" \notin conduct
          /\ what = "compile" => ast' = tree
          /\ what = "direct" => ast' = ast
      BY <1>1, <2>0, CallTypes, Pushed DEF Pushes
    <2>2. \A i \in 1..n :
            /\ stack[i].what = "compile" => Left(i) = stack[i].tree
            /\ (stack[i].what = "direct" /\ \E j \in 1..(i - 1) : stack[j].what = "compile") =>
                   Left(i) = stack[i].ast
      BY <2>0, <2>1 DEF TreeInv
    <2>3. Left(n + 1)' = ast' /\ \A i \in 1..n : Left(i)' = Left(i)
      BY <2>0, <2>1 DEF Left
    <2>4. ASSUME NEW i \in 1..(n + 1)
          PROVE  /\ stack'[i].what = "compile" => Left(i)' = stack'[i].tree
                 /\ (stack'[i].what = "direct" /\ \E j \in 1..(i - 1) : stack'[j].what = "compile") =>
                        Left(i)' = stack'[i].ast
      <3>1. CASE i = n + 1
        BY <2>1, <2>3, <3>1
      <3>2. CASE i \in 1..n
        BY <2>1, <2>2, <2>3, <3>2
      <3> QED BY <2>1, <3>1, <3>2
    <2> QED BY <2>1, <2>4 DEF TreeInv
  <1>2. ASSUME Pops PROVE TreeInv'
    <2>0. PICK n \in Nat : n = Len(stack)
      BY DEF TypeOK
    <2>1. /\ n \in Nat \ {0} /\ Len(stack') = n - 1 /\ Top = stack[n]
          /\ \A k \in 1..(n - 1) : stack'[k] = stack[k]
          /\ "nested" \notin conduct /\ "failed" \notin conduct
          /\ \/ ast' = Top.ast
             \/ Top.what = "direct" /\ ast' = ast
      BY <1>2, <2>0, Popped DEF Pops
    <2>2. \A i \in 1..n :
            /\ stack[i].what = "compile" => Left(i) = stack[i].tree
            /\ (stack[i].what = "direct" /\ \E j \in 1..(i - 1) : stack[j].what = "compile") =>
                   Left(i) = stack[i].ast
      BY <2>0, <2>1 DEF TreeInv
    <2>3. /\ \A i \in 1..(n - 2) : Left(i)' = Left(i)
          /\ Left(n - 1)' = ast' /\ Left(n) = ast /\ Left(n - 1) = stack[n].ast
      BY <2>0, <2>1 DEF Left
    <2>4. ASSUME NEW i \in 1..(n - 1), \E j \in 1..i : stack[j].what = "compile"
          PROVE  Left(i)' = Left(i)
      <3>1. CASE i \in 1..(n - 2)
        BY <2>3, <3>1
      <3>2. CASE i = n - 1
        <4>1. CASE ast' = Top.ast
          BY <2>1, <2>3, <3>2, <4>1
        <4>2. CASE Top.what = "direct" /\ ast' = ast
          BY <2>1, <2>2, <2>3, <2>4, <3>2, <4>2
        <4> QED BY <2>1, <4>1, <4>2
      <3> QED BY <2>1, <3>1, <3>2
    <2>5. \A i \in 1..(n - 1) :
            /\ stack'[i].what = "compile" => Left(i)' = stack'[i].tree
            /\ (stack'[i].what = "direct" /\ \E j \in 1..(i - 1) : stack'[j].what = "compile") =>
                   Left(i)' = stack'[i].ast
      BY <2>1, <2>2, <2>4
    <2> QED BY <2>1, <2>5 DEF TreeInv
  <1>3. ASSUME Stays PROVE TreeInv'
    <2>1. CASE UNCHANGED <<ast, conduct>>
      BY <1>3, <2>1 DEF Stays, TreeInv, Left
    <2>2. CASE conduct' = conduct \cup (IF InProgress({"compile"}) THEN {"nested"} ELSE {})
      <3>1. \A i \in 1..Len(stack) : stack[i].what # "compile"
        BY <2>2 DEF InProgress, TypeOK
      <3>2. stack' = stack
        BY <1>3 DEF Stays
      <3> QED BY <3>1, <3>2 DEF TreeInv, TypeOK
    <2> QED BY <1>3, <2>1, <2>2 DEF Stays
  <1> QED BY <1>1, <1>2, <1>3, StepKinds

\* The engine goes on with the tree of its own file, whatever its hooks compile
\* and parse and at any depth; unless a hook parses, since PHP 8.0, or catches a
\* ParseError.
THEOREM TreeRestored == Spec => []OwnTreeCompiled
  <1>1. Init => TreeInv
    BY DEF Init, TreeInv
  <1>2. TypeOK /\ TreeInv => OwnTreeCompiled
    <2> SUFFICES ASSUME TypeOK, TreeInv, "nested" \notin conduct, "failed" \notin conduct,
                        stack # <<>>, Top.what = "compile"
                 PROVE  ast = Top.tree
      BY DEF OwnTreeCompiled, Inside
    <2>1. Len(stack) \in 1..Len(stack)
      BY DEF TypeOK
    <2> QED BY <2>1 DEF TreeInv, Left, Top
  <1> QED BY <1>1, <1>2, TreeStep, TypeCorrect, PTL DEF Spec
=============================================================================
