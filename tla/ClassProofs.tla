---------------------------- MODULE ClassProofs ----------------------------
(* Proofs of two components that meet only in the class of the engine they *)
(* are about.  HookCalls, for any hooks, classes, operands and depth:      *)
(* types, the operands of nested calls and the restored scope.             *)
(* ClassSurgery, for any interfaces, traits, methods, parents and bounds:  *)
(* the arrays, their memory, and what each operation promises.             *)
EXTENDS HookCalls, ClassSurgery, SequenceTheorems, FiniteSetTheorems, NaturalsInduction,
        WellFoundedInduction, TLAPS

-----------------------------------------------------------------------------
(* HookCalls: the three ways in which the stack of operations changes.     *)

LEMMA PushFacts ==
    ASSUME NEW s \in Seq(Frame), NEW f \in Frame
    PROVE  /\ Append(s, f) \in Seq(Frame) /\ Append(s, f) # << >>
           /\ Len(Append(s, f)) = Len(s) + 1
           /\ DOMAIN Append(s, f) = DOMAIN s \cup {Len(s) + 1}
           /\ \A k \in DOMAIN s : Append(s, f)[k] = s[k]
           /\ Append(s, f)[Len(s) + 1] = f
           /\ DOMAIN s = 1 .. Len(s) /\ Len(s) \in Nat
  BY AppendProperties

LEMMA PopFacts ==
    ASSUME NEW s \in Seq(Frame), s # << >>
    PROVE  LET n == Len(s)
               t == SubSeq(s, 1, n - 1)
           IN  /\ n \in Nat /\ n > 0 /\ n \in DOMAIN s /\ s[n] \in Frame
               /\ t \in Seq(Frame) /\ Len(t) = n - 1 /\ DOMAIN t = 1 .. (n - 1)
               /\ DOMAIN s = 1 .. n
               /\ \A k \in 1 .. (n - 1) : t[k] = s[k]
               /\ t = << >> => n = 1
  <1>1. Len(s) \in Nat /\ Len(s) > 0 /\ DOMAIN s = 1 .. Len(s)
    OBVIOUS
  <1>2. /\ SubSeq(s, 1, Len(s) - 1) \in Seq(Frame)
        /\ Len(SubSeq(s, 1, Len(s) - 1)) = Len(s) - 1
        /\ \A k \in 1 .. (Len(s) - 1) : SubSeq(s, 1, Len(s) - 1)[k] = s[k]
    BY <1>1, SubSeqProperties
  <1> DEFINE n == Len(s)
             t == SubSeq(s, 1, n - 1)
  <1>3. DOMAIN t = 1 .. (n - 1) /\ n \in DOMAIN s /\ s[n] \in Frame
    BY <1>1, <1>2
  <1> HIDE DEF n, t
  <1>5. n = Len(s) /\ t = SubSeq(s, 1, n - 1)
    BY DEF n, t
  <1>4. ASSUME t = << >> PROVE n = 1
    <2>1. Len(t) = 0
      BY <1>4
    <2> QED BY <1>1, <1>2, <1>5, <2>1
  <1> QED BY <1>1, <1>2, <1>3, <1>4, <1>5

LEMMA SetTopFacts ==
    ASSUME NEW s \in Seq(Frame), s # << >>, NEW f \in Frame
    PROVE  LET n == Len(s)
               t == [s EXCEPT ![n] = f]
           IN  /\ n \in Nat /\ n > 0 /\ n \in DOMAIN s /\ s[n] \in Frame
               /\ t \in Seq(Frame) /\ Len(t) = n /\ DOMAIN t = DOMAIN s /\ t # << >>
               /\ DOMAIN s = 1 .. n
               /\ \A k \in DOMAIN s : k # n => t[k] = s[k]
               /\ t[n] = f
  OBVIOUS

LEMMA FrameFacts ==
    ASSUME TypeOK, NEW k \in DOMAIN stack
    PROVE  /\ stack[k] \in Frame /\ stack[k].hook \in Hooks
           /\ stack[k].pc \in {"user", "native", "last"}
  <1>1. stack[k] \in Frame
    BY DEF TypeOK
  <1> QED BY <1>1 DEF Frame

-----------------------------------------------------------------------------
(* Types.                                                                  *)

\* What holds of the innermost operation, and what each part of a step makes
\* of it.
LEMMA TopFacts ==
    ASSUME TypeOK, NEW pc, At(pc)
    PROVE  /\ stack # << >> /\ stack \in Seq(Frame) /\ Len(stack) \in DOMAIN stack
           /\ Top = stack[Len(stack)] /\ Top \in Frame /\ Top.hook \in Hooks /\ Top.pc = pc
           /\ Top.operands \in Operands /\ this[Top.hook] \in Operands
  <1>1. stack \in Seq(Frame) /\ stack # << >> /\ Top.pc = pc /\ Top = stack[Len(stack)]
    BY DEF At, TypeOK, Top
  <1>2. Top \in Frame /\ Len(stack) \in DOMAIN stack
    BY <1>1, PopFacts DEF Top
  <1> QED BY <1>1, <1>2 DEF Frame, TypeOK

LEMMA EnteredFacts ==
    ASSUME TypeOK, NEW h \in Hooks, NEW t \in Targets, NEW v \in Values
    PROVE  /\ Entered(h, t, v) \in Frame /\ Entry \in Scope
           /\ Entered(h, t, v).hook = h /\ Entered(h, t, v).pc = "user"
           /\ Entered(h, t, v).operands = [target |-> t, value |-> v]
           /\ Entered(h, t, v).entry = Entry /\ Entered(h, t, v).saved = fake_scope
  BY DEF TypeOK, Entered, Entry, Frame, Scope, Operands

LEMMA ProceedFacts ==
    ASSUME TypeOK, NEW f \in Frame, NEW a \in Operands, NEW pc \in {"native", "last"},
           Proceed(f, a, pc)
    PROVE  \E g \in Frame :
              /\ stack' = SetTop(g) /\ fake_scope' = ScopeIn(g) /\ fake_scope' \in Scope
              /\ g.hook = f.hook /\ g.operands = f.operands /\ g.saved = f.saved
              /\ g.entry = f.entry /\ g.pc = pc /\ g.args = a /\ g.previous = fake_scope
  <1> DEFINE g == [f EXCEPT !.pc = pc, !.args = a, !.previous = fake_scope]
  <1>1. /\ g \in Frame
        /\ g.hook = f.hook /\ g.operands = f.operands /\ g.saved = f.saved
        /\ g.entry = f.entry /\ g.pc = pc /\ g.args = a /\ g.previous = fake_scope
    BY DEF Frame, TypeOK
  <1>2. stack' = SetTop(g) /\ fake_scope' = ScopeIn(g)
    BY DEF Proceed
  <1> HIDE DEF g
  <1>3. g.args.target \in Targets
    BY <1>1 DEF Operands
  <1>4. ScopeIn(g) \in Scope
    BY <1>3, ClassAssumption DEF ScopeIn, Scope, TypeOK
  <1> QED BY <1>1, <1>2, <1>4

LEMMA ResumedFacts ==
    ASSUME NEW f \in Frame
    PROVE  /\ Resumed(f) \in Frame /\ Resumed(f).hook = f.hook /\ Resumed(f).pc = "user"
           /\ Resumed(f).operands = f.operands
           /\ Resumed(f).entry = f.entry /\ Resumed(f).saved = f.saved
  BY DEF Resumed, Frame, Scope

\* The innermost operation with other operands.
LEMMA OperandFacts ==
    ASSUME NEW f \in Frame, NEW a \in Operands
    PROVE  LET g == [f EXCEPT !.operands = a] IN
           /\ g \in Frame /\ g.hook = f.hook /\ g.pc = f.pc /\ g.operands = a
           /\ g.entry = f.entry /\ g.saved = f.saved /\ g.previous = f.previous
           /\ g.args = f.args
  BY DEF Frame

\* What the steps of one operation that leave the stack as high as it is do:
\* the frame becomes g, and its hook object holds a.
Rewrites(g, a) ==
    /\ g \in Frame /\ a \in Operands /\ stack # << >>
    /\ stack' = SetTop(g) /\ g.hook = Top.hook
    /\ g.saved = Top.saved /\ g.entry = Top.entry
    /\ this' = [this EXCEPT ![Top.hook] = a]
    /\ kind' = kind /\ over' = over /\ replaced' = replaced

LEMMA SetValueFacts ==
    ASSUME TypeOK, NEW v \in Values, SetValue(v)
    PROVE  \E g, a :
              /\ Rewrites(g, a) /\ At("user") /\ g.pc = "user"
              /\ a = [this[Top.hook] EXCEPT !.value = v]
              /\ g.operands = [Top.operands EXCEPT !.value = v]
              /\ UNCHANGED <<fake_scope, store, threw>>
  <1> DEFINE a == [this[Top.hook] EXCEPT !.value = v]
             b == [Top.operands EXCEPT !.value = v]
             g == [Top EXCEPT !.operands = b]
  <1>1. /\ At("user") /\ stack # << >> /\ Top \in Frame /\ Top.pc = "user" /\ Top.hook \in Hooks
        /\ Top.operands \in Operands /\ this[Top.hook] \in Operands
    BY TopFacts DEF SetValue
  <1>2. a \in Operands /\ b \in Operands
    BY <1>1 DEF Operands
  <1>3. g \in Frame /\ g.hook = Top.hook /\ g.pc = "user" /\ g.operands = b
        /\ g.saved = Top.saved /\ g.entry = Top.entry
    BY <1>1, <1>2, OperandFacts
  <1>4. stack' = SetTop(g) /\ this' = [this EXCEPT ![Top.hook] = a]
        /\ UNCHANGED <<kind, fake_scope, store, threw, replaced, over>>
    BY DEF SetValue
  <1> HIDE DEF a, g
  <1>5. Rewrites(g, a)
    BY <1>1, <1>2, <1>3, <1>4 DEF Rewrites, a
  <1> QED BY <1>1, <1>3, <1>4, <1>5 DEF a

LEMMA SetTargetFacts ==
    ASSUME TypeOK, NEW t \in Targets, SetTarget(t)
    PROVE  \E g, a :
              /\ Rewrites(g, a) /\ At("user") /\ g.pc = "user"
              /\ a = [this[Top.hook] EXCEPT !.target = t]
              /\ g.operands = [Top.operands EXCEPT !.target = t]
              /\ UNCHANGED <<fake_scope, store, threw>>
  <1> DEFINE a == [this[Top.hook] EXCEPT !.target = t]
             b == [Top.operands EXCEPT !.target = t]
             g == [Top EXCEPT !.operands = b]
  <1>1. /\ At("user") /\ stack # << >> /\ Top \in Frame /\ Top.pc = "user" /\ Top.hook \in Hooks
        /\ Top.operands \in Operands /\ this[Top.hook] \in Operands
    BY TopFacts DEF SetTarget
  <1>2. a \in Operands /\ b \in Operands
    BY <1>1 DEF Operands
  <1>3. g \in Frame /\ g.hook = Top.hook /\ g.pc = "user" /\ g.operands = b
        /\ g.saved = Top.saved /\ g.entry = Top.entry
    BY <1>1, <1>2, OperandFacts
  <1>4. stack' = SetTop(g) /\ this' = [this EXCEPT ![Top.hook] = a]
        /\ UNCHANGED <<kind, fake_scope, store, threw, replaced, over>>
    BY DEF SetTarget
  <1> HIDE DEF a, g
  <1>5. Rewrites(g, a)
    BY <1>1, <1>2, <1>3, <1>4 DEF Rewrites, a
  <1> QED BY <1>1, <1>3, <1>4, <1>5 DEF a

LEMMA WriterReturnsFacts ==
    ASSUME TypeOK, NEW v \in Values, WriterReturns(v)
    PROVE  \E g, a :
              /\ Rewrites(g, a) /\ At("user") /\ kind[Top.hook].writes
              /\ a = [this[Top.hook] EXCEPT !.value = v]
              /\ g.operands = [Top.operands EXCEPT !.value = v]
              /\ g.pc = "last" /\ g.args = a /\ g.previous = fake_scope
              /\ fake_scope' = ScopeIn(g) /\ fake_scope' \in Scope
              /\ UNCHANGED <<store, threw>>
  <1> DEFINE a == [this[Top.hook] EXCEPT !.value = v]
             b == [Top.operands EXCEPT !.value = v]
             f == [Top EXCEPT !.operands = b]
  <1>1. /\ At("user") /\ stack # << >> /\ Top \in Frame /\ Top.hook \in Hooks
        /\ Top.operands \in Operands /\ this[Top.hook] \in Operands
    BY TopFacts DEF WriterReturns
  <1>2. a \in Operands /\ b \in Operands
    BY <1>1 DEF Operands
  <1>3. /\ f \in Frame /\ f.hook = Top.hook /\ f.operands = b
        /\ f.saved = Top.saved /\ f.entry = Top.entry
    BY <1>1, <1>2, OperandFacts
  <1>4. /\ this' = [this EXCEPT ![Top.hook] = a] /\ kind[Top.hook].writes
        /\ Proceed(f, this'[Top.hook], "last")
        /\ UNCHANGED <<kind, store, threw, replaced, over>>
    BY DEF WriterReturns
  <1> HIDE DEF a, f
  <1>5. this'[Top.hook] = a
    BY <1>1, <1>4 DEF TypeOK
  <1>6. PICK g \in Frame :
              /\ stack' = SetTop(g) /\ fake_scope' = ScopeIn(g) /\ fake_scope' \in Scope
              /\ g.hook = f.hook /\ g.operands = f.operands /\ g.saved = f.saved
              /\ g.entry = f.entry /\ g.pc = "last" /\ g.args = a /\ g.previous = fake_scope
    BY <1>2, <1>3, <1>4, <1>5, ProceedFacts
  <1>7. Rewrites(g, a)
    BY <1>1, <1>2, <1>3, <1>4, <1>6 DEF Rewrites
  <1> QED BY <1>1, <1>3, <1>4, <1>6, <1>7 DEF a

LEMMA ContinueFacts ==
    ASSUME TypeOK, Continue
    PROVE  \E g, a :
              /\ Rewrites(g, a) /\ At("user")
              /\ a = this[Top.hook] /\ this' = this
              /\ g.operands = Top.operands
              /\ g.pc = "native" /\ g.args = a /\ g.previous = fake_scope
              /\ fake_scope' = ScopeIn(g) /\ fake_scope' \in Scope
              /\ UNCHANGED <<store, threw>>
  <1>1. /\ At("user") /\ stack # << >> /\ Top \in Frame /\ Top.hook \in Hooks
        /\ this[Top.hook] \in Operands
    BY TopFacts DEF Continue
  <1>2. /\ Proceed(Top, this[Top.hook], "native")
        /\ UNCHANGED <<kind, this, store, threw, replaced, over>>
    BY DEF Continue
  <1>3. PICK g \in Frame :
              /\ stack' = SetTop(g) /\ fake_scope' = ScopeIn(g) /\ fake_scope' \in Scope
              /\ g.hook = Top.hook /\ g.operands = Top.operands /\ g.saved = Top.saved
              /\ g.entry = Top.entry /\ g.pc = "native" /\ g.args = this[Top.hook]
              /\ g.previous = fake_scope
    BY <1>1, <1>2, ProceedFacts
  <1>4. this' = [this EXCEPT ![Top.hook] = this[Top.hook]]
    BY <1>1, <1>2 DEF TypeOK
  <1>5. Rewrites(g, this[Top.hook])
    BY <1>1, <1>2, <1>3, <1>4 DEF Rewrites
  <1> QED BY <1>1, <1>2, <1>3, <1>5

\* continue() returns, or throws, to the user's handler.
LEMMA ResumeFacts ==
    ASSUME TypeOK, NativeReturns \/ NativeThrows
    PROVE  \E g, a :
              /\ Rewrites(g, a) /\ At("native")
              /\ a = this[Top.hook] /\ this' = this
              /\ g.operands = Top.operands /\ g.pc = "user"
  <1>1. /\ At("native") /\ stack # << >> /\ Top \in Frame /\ Top.hook \in Hooks
        /\ this[Top.hook] \in Operands
    BY TopFacts DEF NativeReturns, NativeThrows
  <1>2. stack' = SetTop(Resumed(Top)) /\ UNCHANGED <<kind, this, replaced, over>>
    BY DEF NativeReturns, NativeThrows
  <1>3. /\ Resumed(Top) \in Frame /\ Resumed(Top).hook = Top.hook /\ Resumed(Top).pc = "user"
        /\ Resumed(Top).operands = Top.operands
        /\ Resumed(Top).entry = Top.entry /\ Resumed(Top).saved = Top.saved
    BY <1>1, ResumedFacts
  <1>4. this' = [this EXCEPT ![Top.hook] = this[Top.hook]]
    BY <1>1, <1>2 DEF TypeOK
  <1>5. Rewrites(Resumed(Top), this[Top.hook])
    BY <1>1, <1>2, <1>3, <1>4 DEF Rewrites
  <1> QED BY <1>1, <1>2, <1>3, <1>5

\* What such a step leaves of the stack.
LEMMA RewritesFacts ==
    ASSUME TypeOK, NEW g, NEW a, Rewrites(g, a)
    PROVE  LET n == Len(stack) IN
           /\ n \in Nat /\ n > 0 /\ n \in DOMAIN stack /\ Top = stack[n] /\ Top.hook \in Hooks
           /\ stack' \in Seq(Frame) /\ Len(stack') = n /\ DOMAIN stack' = DOMAIN stack
           /\ stack'[n] = g /\ Top' = g
           /\ \A k \in DOMAIN stack : k # n => stack'[k] = stack[k]
           /\ this' \in [Hooks -> Operands] /\ this'[Top.hook] = a
           /\ \A h \in Hooks : h # Top.hook => this'[h] = this[h]
  <1>1. stack \in Seq(Frame) /\ stack # << >> /\ g \in Frame /\ stack' = SetTop(g) /\ a \in Operands
    BY DEF Rewrites, TypeOK
  <1>2. /\ Len(stack) \in Nat /\ Len(stack) > 0 /\ Len(stack) \in DOMAIN stack
        /\ stack' \in Seq(Frame) /\ Len(stack') = Len(stack) /\ DOMAIN stack' = DOMAIN stack
        /\ stack'[Len(stack)] = g
        /\ \A k \in DOMAIN stack : k # Len(stack) => stack'[k] = stack[k]
    BY <1>1, SetTopFacts DEF SetTop
  <1>3. Top.hook \in Hooks
    BY <1>2, FrameFacts DEF Top
  <1> QED BY <1>1, <1>2, <1>3 DEF Top, Rewrites, TypeOK

\* The end of an operation.
LEMMA LeavesFacts ==
    ASSUME TypeOK, stack # << >>, Leaves
    PROVE  LET n == Len(stack) IN
           /\ n \in Nat /\ n > 0 /\ n \in DOMAIN stack
           /\ stack' \in Seq(Frame) /\ DOMAIN stack' = DOMAIN stack \ {n}
           /\ \A k \in DOMAIN stack' : stack'[k] = stack[k]
           /\ replaced' = replaced \ {n}
  BY PopFacts DEF Leaves, Pop, TypeOK

LEMMA TypeStep == TypeOK /\ [Next]_vars => TypeOK'
  <1> SUFFICES ASSUME TypeOK, [Next]_vars PROVE TypeOK'
    OBVIOUS
  <1> USE KindAssumption, ClassAssumption, FlagAssumption
  <1>1. ASSUME NEW g, NEW a, Rewrites(g, a)
        PROVE  /\ stack' \in Seq(Frame) /\ this' \in [Hooks -> Operands]
               /\ replaced' \subseteq DOMAIN stack' /\ kind' = kind /\ over' = over
    BY <1>1, RewritesFacts DEF Rewrites, TypeOK
  <1>2. ASSUME NEW pc, At(pc)
        PROVE  /\ Stored(Top) \in [Targets -> Values] /\ Restored(Top) \in Scope
               /\ \A s \in Scope : Left(Top, s) \in Scope
    BY <1>2, TopFacts DEF Stored, Restored, Left, Operands, TypeOK, Frame
  <1>3. ASSUME NEW h \in Hooks, NEW t \in Targets, NEW v \in Values, Handle(h, t, v)
        PROVE  TypeOK'
    <2>1. stack' = Append(stack, Entered(h, t, v)) /\ fake_scope' = Entry
      BY <1>3 DEF Handle, Push
    <2>2. this' \in [Hooks -> Operands]
      BY <1>3 DEF Handle, Enters, TypeOK, Operands
    <2>3. Entered(h, t, v) \in Frame /\ Entry \in Scope
      BY EnteredFacts
    <2>4. stack' \in Seq(Frame) /\ DOMAIN stack \subseteq DOMAIN stack'
      BY <2>1, <2>3, PushFacts DEF TypeOK
    <2>5. replaced' \subseteq DOMAIN stack
      BY <1>3 DEF Handle, TypeOK
    <2> QED BY <1>3, <2>1, <2>2, <2>3, <2>4, <2>5 DEF Handle, TypeOK
  <1>4. ASSUME NEW v \in Values, SetValue(v) PROVE TypeOK'
    BY <1>1, <1>4, SetValueFacts DEF TypeOK
  <1>5. ASSUME NEW t \in Targets, SetTarget(t) PROVE TypeOK'
    BY <1>1, <1>5, SetTargetFacts DEF TypeOK
  <1>6. ASSUME NEW v \in Values, WriterReturns(v) PROVE TypeOK'
    BY <1>1, <1>6, WriterReturnsFacts DEF TypeOK
  <1>7. ASSUME Continue PROVE TypeOK'
    BY <1>1, <1>7, ContinueFacts DEF TypeOK
  <1>8. ASSUME NativeReturns \/ NativeThrows PROVE TypeOK'
    <2>1. /\ stack' \in Seq(Frame) /\ this' \in [Hooks -> Operands]
          /\ replaced' \subseteq DOMAIN stack' /\ kind' = kind /\ over' = over
      BY <1>1, <1>8, ResumeFacts
    <2>2. store' \in [Targets -> Values] /\ fake_scope' \in Scope /\ threw' \in BOOLEAN
      BY <1>2, <1>8 DEF NativeReturns, NativeThrows, TypeOK
    <2> QED BY <2>1, <2>2 DEF TypeOK
  <1>9. ASSUME HandlerReturns \/ WriteEnds PROVE TypeOK'
    <2>1. Leaves /\ stack # << >>
      BY <1>9 DEF HandlerReturns, WriteEnds, At
    <2>2. stack' \in Seq(Frame) /\ replaced' \subseteq DOMAIN stack'
      BY <2>1, LeavesFacts DEF TypeOK
    <2>3. store' \in [Targets -> Values] /\ fake_scope' \in Scope
      BY <1>2, <1>9 DEF HandlerReturns, WriteEnds, TypeOK
    <2> QED BY <1>9, <2>2, <2>3 DEF HandlerReturns, WriteEnds, TypeOK
  <1>10. CASE Uncaught \/ UNCHANGED vars
    BY <1>10 DEF Uncaught, vars, TypeOK
  <1> QED BY <1>3, <1>4, <1>5, <1>6, <1>7, <1>8, <1>9, <1>10 DEF Next, Terminated

\* Every variable of HookCalls keeps its type.
THEOREM TypeCorrect == Spec => []TypeOK
  <1>1. Init => TypeOK
    <2> SUFFICES ASSUME Init PROVE TypeOK
      OBVIOUS
    <2>1. stack \in Seq(Frame) /\ fake_scope \in Scope
      BY DEF Init, Scope
    <2> QED BY <2>1 DEF Init, TypeOK
  <1> QED BY <1>1, TypeStep, PTL DEF Spec

-----------------------------------------------------------------------------
(* The operands.                                                           *)

\* OwnOperands is inductive together with this: of the operations that one
\* hook serves, all but the innermost have their operands replaced or have no
\* more need of them.
Replaced ==
    \A k, l \in DOMAIN stack :
        k < l /\ stack[k].hook = stack[l].hook => k \in replaced \/ ~InNeed(stack[k])

\* handle() proceeds with the operands of its own operation, and only after a
\* writer.
WriteInv ==
    \A k \in DOMAIN stack : stack[k].pc = "last" =>
        /\ kind[stack[k].hook].writes
        /\ k \notin replaced => stack[k].args = stack[k].operands

OperandInv == Replaced /\ OwnOperands /\ WriteInv

LEMMA OperandStep == TypeOK /\ OperandInv /\ [Next]_vars => OperandInv'
  <1> SUFFICES ASSUME TypeOK, OperandInv, [Next]_vars PROVE OperandInv'
    OBVIOUS
  <1>1. ASSUME NEW h \in Hooks, NEW t \in Targets, NEW v \in Values, Handle(h, t, v)
        PROVE  OperandInv'
    <2> DEFINE f == Entered(h, t, v)
               n == Len(stack)
    <2>1. /\ f \in Frame /\ f.hook = h /\ f.pc = "user"
          /\ f.operands = [target |-> t, value |-> v]
      BY EnteredFacts
    <2>2. /\ stack' = Append(stack, f) /\ kind' = kind
          /\ this' = [this EXCEPT ![h] = [target |-> t, value |-> v]]
          /\ replaced' = replaced \cup {k \in DOMAIN stack : stack[k].hook = h /\ InNeed(stack[k])}
      BY <1>1 DEF Handle, Push, Enters
    <2> HIDE DEF f
    <2>3. /\ DOMAIN stack' = DOMAIN stack \cup {n + 1} /\ DOMAIN stack = 1 .. n /\ n \in Nat
          /\ \A k \in DOMAIN stack : stack'[k] = stack[k] /\ k # n + 1
          /\ stack'[n + 1] = f
      BY <2>1, <2>2, PushFacts DEF TypeOK
    <2> HIDE DEF n
    <2>4. this'[h] = f.operands /\ \A g \in Hooks : g # h => this'[g] = this[g]
      BY <2>1, <2>2 DEF TypeOK
    <2>5. \A k \in DOMAIN stack : stack[k].hook \in Hooks
      BY FrameFacts
    <2>6. n + 1 \notin replaced'
      BY <2>2, <2>3 DEF TypeOK
    <2>7. OwnOperands'
      <3> SUFFICES ASSUME NEW k \in DOMAIN stack' \ replaced', InNeed(stack'[k])
                   PROVE  this'[stack'[k].hook] = stack'[k].operands
        BY DEF OwnOperands, InNeed
      <3>1. CASE k = n + 1
        BY <2>1, <2>3, <2>4, <3>1
      <3>2. CASE k # n + 1
        <4>1. k \in DOMAIN stack /\ stack'[k] = stack[k] /\ k \notin replaced
          BY <2>2, <2>3, <3>2
        <4>2. stack[k].hook # h
          BY <2>2, <4>1
        <4> QED BY <2>4, <2>5, <4>1, <4>2 DEF OperandInv, OwnOperands
      <3> QED BY <3>1, <3>2
    <2>8. Replaced'
      <3> SUFFICES ASSUME NEW k \in DOMAIN stack', NEW l \in DOMAIN stack', k < l,
                          stack'[k].hook = stack'[l].hook
                   PROVE  k \in replaced' \/ ~InNeed(stack'[k])
        BY DEF Replaced, InNeed
      <3>1. k \in DOMAIN stack /\ stack'[k] = stack[k]
        BY <2>3
      <3>2. CASE l = n + 1
        BY <2>1, <2>2, <2>3, <3>1, <3>2
      <3>3. CASE l # n + 1
        <4>1. l \in DOMAIN stack /\ stack'[l] = stack[l]
          BY <2>3, <3>3
        <4> QED BY <2>2, <3>1, <4>1 DEF OperandInv, Replaced
      <3> QED BY <3>2, <3>3
    <2>9. WriteInv'
      <3> SUFFICES ASSUME NEW k \in DOMAIN stack', stack'[k].pc = "last"
                   PROVE  /\ kind'[stack'[k].hook].writes
                          /\ k \notin replaced' => stack'[k].args = stack'[k].operands
        BY DEF WriteInv
      <3>1. k \in DOMAIN stack /\ stack'[k] = stack[k]
        BY <2>1, <2>3
      <3> QED BY <2>2, <3>1 DEF OperandInv, WriteInv
    <2> QED BY <2>7, <2>8, <2>9 DEF OperandInv
  \* A step of the innermost operation changes its operands and the fields of
  \* its hook in the same way.
  <1>2. ASSUME NEW g, NEW a, Rewrites(g, a), InNeed(Top),
               Len(stack) \notin replaced => g.operands = a,
               g.pc = "last" => kind[g.hook].writes /\ g.args = a
        PROVE  OperandInv'
    <2> DEFINE n == Len(stack)
    <2>1. /\ n \in Nat /\ n > 0 /\ n \in DOMAIN stack /\ Top = stack[n] /\ Top.hook \in Hooks
          /\ DOMAIN stack' = DOMAIN stack /\ stack'[n] = g
          /\ \A k \in DOMAIN stack : k # n => stack'[k] = stack[k]
          /\ this'[Top.hook] = a
          /\ \A h \in Hooks : h # Top.hook => this'[h] = this[h]
      BY <1>2, RewritesFacts
    <2>2. g.hook = Top.hook /\ kind' = kind /\ replaced' = replaced
      BY <1>2 DEF Rewrites
    <2>3. DOMAIN stack = 1 .. n
      BY DEF TypeOK
    <2> HIDE DEF n
    <2>4. ASSUME NEW k \in DOMAIN stack, k # n
          PROVE  k < n /\ stack[k].hook \in Hooks
      BY <2>1, <2>3, <2>4, FrameFacts
    <2>5. OwnOperands'
      <3> SUFFICES ASSUME NEW k \in DOMAIN stack' \ replaced', InNeed(stack'[k])
                   PROVE  this'[stack'[k].hook] = stack'[k].operands
        BY DEF OwnOperands, InNeed
      <3>1. CASE k = n
        BY <1>2, <2>1, <2>2, <3>1 DEF n
      <3>2. CASE k # n
        <4>1. k \in DOMAIN stack /\ stack'[k] = stack[k] /\ k \notin replaced
          BY <2>1, <2>2, <3>2
        <4>2. k < n /\ stack[k].hook \in Hooks
          BY <2>4, <3>2, <4>1
        <4>3. stack[k].hook # Top.hook
          BY <2>1, <4>1, <4>2 DEF OperandInv, Replaced
        <4> QED BY <2>1, <4>1, <4>2, <4>3 DEF OperandInv, OwnOperands
      <3> QED BY <3>1, <3>2
    <2>6. Replaced'
      <3> SUFFICES ASSUME NEW k \in DOMAIN stack', NEW l \in DOMAIN stack', k < l,
                          stack'[k].hook = stack'[l].hook
                   PROVE  k \in replaced' \/ ~InNeed(stack'[k])
        BY DEF Replaced, InNeed
      <3>1. k # n /\ k \in DOMAIN stack /\ l \in DOMAIN stack /\ stack'[k] = stack[k]
        BY <2>1, <2>3
      <3>2. stack[l].hook = stack'[l].hook
        BY <2>1, <2>2, <3>1
      <3> QED BY <2>2, <3>1, <3>2 DEF OperandInv, Replaced
    <2>7. WriteInv'
      <3> SUFFICES ASSUME NEW k \in DOMAIN stack', stack'[k].pc = "last"
                   PROVE  /\ kind'[stack'[k].hook].writes
                          /\ k \notin replaced' => stack'[k].args = stack'[k].operands
        BY DEF WriteInv
      <3>1. CASE k = n
        BY <1>2, <2>1, <2>2, <3>1 DEF n
      <3>2. CASE k # n
        BY <2>1, <2>2, <3>2 DEF OperandInv, WriteInv
      <3> QED BY <3>1, <3>2
    <2> QED BY <2>5, <2>6, <2>7 DEF OperandInv
  <1>3. ASSUME NEW pc, At(pc), pc # "last"
        PROVE  /\ InNeed(Top)
               /\ Len(stack) \notin replaced => this[Top.hook] = Top.operands
    <2>1. InNeed(Top) /\ Len(stack) \in DOMAIN stack /\ Top = stack[Len(stack)]
      BY <1>3, TopFacts DEF InNeed
    <2> QED BY <2>1 DEF OperandInv, OwnOperands
  <1>4. ASSUME NEW v \in Values, SetValue(v) PROVE OperandInv'
    <2>1. PICK g, a :
              /\ Rewrites(g, a) /\ At("user") /\ g.pc = "user"
              /\ a = [this[Top.hook] EXCEPT !.value = v]
              /\ g.operands = [Top.operands EXCEPT !.value = v]
      BY <1>4, SetValueFacts
    <2> QED BY <1>2, <1>3, <2>1
  <1>5. ASSUME NEW t \in Targets, SetTarget(t) PROVE OperandInv'
    <2>1. PICK g, a :
              /\ Rewrites(g, a) /\ At("user") /\ g.pc = "user"
              /\ a = [this[Top.hook] EXCEPT !.target = t]
              /\ g.operands = [Top.operands EXCEPT !.target = t]
      BY <1>5, SetTargetFacts
    <2> QED BY <1>2, <1>3, <2>1
  <1>6. ASSUME NEW v \in Values, WriterReturns(v) PROVE OperandInv'
    <2>1. PICK g, a :
              /\ Rewrites(g, a) /\ At("user") /\ kind[Top.hook].writes
              /\ a = [this[Top.hook] EXCEPT !.value = v]
              /\ g.operands = [Top.operands EXCEPT !.value = v]
              /\ g.pc = "last" /\ g.args = a
      BY <1>6, WriterReturnsFacts
    <2>2. g.hook = Top.hook
      BY <2>1 DEF Rewrites
    <2> QED BY <1>2, <1>3, <2>1, <2>2
  <1>7. ASSUME Continue PROVE OperandInv'
    <2>1. PICK g, a : /\ Rewrites(g, a) /\ At("user") /\ a = this[Top.hook]
                      /\ g.operands = Top.operands /\ g.pc = "native"
      BY <1>7, ContinueFacts
    <2> QED BY <1>2, <1>3, <2>1
  <1>8. ASSUME NativeReturns \/ NativeThrows PROVE OperandInv'
    <2>1. PICK g, a : /\ Rewrites(g, a) /\ At("native") /\ a = this[Top.hook]
                      /\ g.operands = Top.operands /\ g.pc = "user"
      BY <1>8, ResumeFacts
    <2> QED BY <1>2, <1>3, <2>1
  <1>9. ASSUME HandlerReturns \/ WriteEnds PROVE OperandInv'
    <2>1. Leaves /\ stack # << >> /\ this' = this /\ kind' = kind
      BY <1>9 DEF HandlerReturns, WriteEnds, At
    <2>2. /\ DOMAIN stack' = DOMAIN stack \ {Len(stack)}
          /\ \A k \in DOMAIN stack' : stack'[k] = stack[k]
          /\ replaced' = replaced \ {Len(stack)}
      BY <2>1, LeavesFacts
    <2>3. OwnOperands'
      BY <2>1, <2>2 DEF OperandInv, OwnOperands, InNeed
    <2>4. Replaced'
      BY <2>1, <2>2 DEF OperandInv, Replaced, InNeed
    <2>5. WriteInv'
      BY <2>1, <2>2 DEF OperandInv, WriteInv
    <2> QED BY <2>3, <2>4, <2>5 DEF OperandInv
  <1>10. CASE Uncaught \/ UNCHANGED vars
    BY <1>10 DEF Uncaught, vars, OperandInv, OwnOperands, Replaced, WriteInv, InNeed
  <1> QED BY <1>1, <1>4, <1>5, <1>6, <1>7, <1>8, <1>9, <1>10 DEF Next, Terminated

LEMMA OperandInvariant == Spec => []OperandInv
  <1>1. Init => OperandInv
    BY DEF Init, OperandInv, OwnOperands, Replaced, WriteInv
  <1> QED BY <1>1, OperandStep, TypeCorrect, PTL DEF Spec

\* However deep operations nest, each of them finds its own operands in its
\* hook object, with what its handler changed of them, unless another operation
\* of the same hook has come in between.
THEOREM OperandsOwn == Spec => []OwnOperands
  <1>1. OperandInv => OwnOperands
    BY DEF OperandInv
  <1> QED BY <1>1, OperandInvariant, PTL

\* What a writer returned is in the member that was assigned, however
\* assignments to hooked members nest in it, unless another assignment replaced
\* the operands before it returned.
THEOREM WritesStored == Spec => WrittenAsReturned
  <1>1. TypeOK /\ OperandInv /\ [Next]_vars
            => [WriteEnds /\ Len(stack) \notin replaced =>
                    store'[Top.operands.target] = Top.operands.value]_vars
    <2> SUFFICES ASSUME TypeOK, OperandInv, WriteEnds, Len(stack) \notin replaced
                 PROVE  store'[Top.operands.target] = Top.operands.value
      BY DEF vars
    <2>1. At("last") /\ store' = Stored(Top)
      BY DEF WriteEnds
    <2>2. /\ Len(stack) \in DOMAIN stack /\ Top = stack[Len(stack)] /\ Top.pc = "last"
          /\ Top.operands \in Operands
      BY <2>1, TopFacts
    <2>3. kind[Top.hook].writes /\ Top.args = Top.operands
      BY <2>2 DEF OperandInv, WriteInv
    <2>4. store' = [store EXCEPT ![Top.operands.target] = Top.operands.value]
      BY <2>1, <2>3 DEF Stored
    <2> HIDE DEF Top
    <2>5. Top.operands.target \in Targets
      BY <2>2 DEF Operands
    <2> QED BY <2>4, <2>5 DEF TypeOK
  <1> QED BY <1>1, OperandInvariant, TypeCorrect, PTL DEF Spec, WrittenAsReturned

-----------------------------------------------------------------------------
(* The scope.                                                              *)

\* The scope in which code called by the operation of frame f runs.
Inside(f) ==
    CASE f.pc # "user" /\ kind[f.hook].scope = "operand" -> ClassOf[f.args.target]
      [] f.pc # "user" /\ kind[f.hook].scope = "hook"    -> HookClass
      [] OTHER                                           -> f.entry

\* Every frame knows the scope of the frame below it, and continue() the one
\* to go back to.
FrameScopes ==
    \A k \in DOMAIN stack :
        /\ stack[k].pc # "user" => stack[k].previous = stack[k].entry
        /\ stack[k].entry = IF CallsSaveScope THEN NoScope ELSE stack[k].saved
        /\ k = 1 => stack[k].saved = NoScope
        /\ k # 1 => stack[k].saved = Inside(stack[k - 1])

ScopeInv ==
    ~threw => /\ stack = << >> => fake_scope = NoScope
              /\ stack # << >> => fake_scope = Inside(Top)
              /\ FrameScopes

\* A new operation is entered in the scope of its caller.
LEMMA ScopePush ==
    ASSUME TypeOK, ScopeInv, ~threw, kind' = kind, NEW f \in Frame, f.pc = "user",
           stack' = Append(stack, f), fake_scope' = f.entry, f.saved = fake_scope,
           f.entry = IF CallsSaveScope THEN NoScope ELSE fake_scope
    PROVE  ScopeInv'
  <1> DEFINE n == Len(stack)
  <1>1. /\ stack' # << >> /\ Len(stack') = n + 1 /\ n \in Nat
        /\ DOMAIN stack' = DOMAIN stack \cup {n + 1} /\ DOMAIN stack = 1 .. n
        /\ \A k \in DOMAIN stack : stack'[k] = stack[k] /\ k # n + 1
        /\ stack'[n + 1] = f
    BY PushFacts DEF TypeOK
  <1>2. n = 0 <=> stack = << >>
    BY DEF TypeOK
  <1> HIDE DEF n
  <1>3. \A g : Inside(g)' = Inside(g)
    BY DEF Inside
  <1>4. fake_scope' = Inside(Top)'
    BY <1>1 DEF Inside, Top
  <1>5. ASSUME NEW k \in DOMAIN stack
        PROVE  /\ stack'[k].pc # "user" => stack'[k].previous = stack'[k].entry
               /\ stack'[k].entry = IF CallsSaveScope THEN NoScope ELSE stack'[k].saved
               /\ k = 1 => stack'[k].saved = NoScope
               /\ k # 1 => stack'[k].saved = Inside(stack'[k - 1])
    <2>1. k # 1 => k - 1 \in DOMAIN stack
      BY <1>1
    <2> QED BY <1>1, <1>5, <2>1 DEF ScopeInv, FrameScopes
  <1>6. n + 1 # 1 => f.saved = Inside(stack'[n])
    <2> SUFFICES ASSUME n # 0 PROVE f.saved = Inside(stack'[n])
      BY <1>1
    <2>1. n \in DOMAIN stack /\ stack'[n] = stack[n]
      BY <1>1
    <2> QED BY <1>2, <2>1 DEF ScopeInv, Top, n
  <1>7. n + 1 = 1 => f.saved = NoScope
    BY <1>1, <1>2 DEF ScopeInv
  <1>8. \A k \in DOMAIN stack' :
           /\ stack'[k].pc # "user" => stack'[k].previous = stack'[k].entry
           /\ stack'[k].entry = IF CallsSaveScope THEN NoScope ELSE stack'[k].saved
           /\ k = 1 => stack'[k].saved = NoScope
           /\ k # 1 => stack'[k].saved = Inside(stack'[k - 1])
    BY <1>1, <1>5, <1>6, <1>7
  <1> QED BY <1>1, <1>3, <1>4, <1>8 DEF ScopeInv, FrameScopes

\* The innermost operation goes on.
LEMMA ScopeTop ==
    ASSUME TypeOK, ScopeInv, ~threw, kind' = kind, stack # << >>, NEW f \in Frame,
           stack' = SetTop(f), f.saved = Top.saved, f.entry = Top.entry,
           f.pc # "user" => f.previous = f.entry, fake_scope' = Inside(f)
    PROVE  ScopeInv'
  <1> DEFINE n == Len(stack)
  <1>1. /\ n \in Nat /\ n > 0 /\ n \in DOMAIN stack /\ DOMAIN stack = 1 .. n
        /\ stack' # << >> /\ Len(stack') = n /\ DOMAIN stack' = DOMAIN stack
        /\ \A k \in DOMAIN stack : k # n => stack'[k] = stack[k]
        /\ stack'[n] = f
    BY SetTopFacts DEF TypeOK, SetTop
  <1>2. Top = stack[n] /\ Top' = f
    BY <1>1 DEF Top
  <1> HIDE DEF n
  <1>3. \A g : Inside(g)' = Inside(g)
    BY DEF Inside
  <1>4. ASSUME NEW k \in DOMAIN stack
        PROVE  /\ stack'[k].pc # "user" => stack'[k].previous = stack'[k].entry
               /\ stack'[k].entry = IF CallsSaveScope THEN NoScope ELSE stack'[k].saved
               /\ k = 1 => stack'[k].saved = NoScope
               /\ k # 1 => stack'[k].saved = Inside(stack'[k - 1])
    <2>1. k # 1 => k - 1 \in DOMAIN stack /\ k - 1 # n
      BY <1>1
    <2>2. stack'[k].saved = stack[k].saved /\ stack'[k].entry = stack[k].entry
      BY <1>1, <1>2
    <2>3. stack'[k].pc # "user" => stack'[k].previous = stack'[k].entry
      BY <1>1 DEF ScopeInv, FrameScopes
    <2> QED BY <1>1, <2>1, <2>2, <2>3 DEF ScopeInv, FrameScopes
  <1>5. fake_scope' = Inside(Top)'
    BY <1>2, <1>3 DEF Inside
  <1> QED BY <1>1, <1>3, <1>4, <1>5 DEF ScopeInv, FrameScopes

\* The innermost operation ends: the caller is in its scope again.
LEMMA ScopePop ==
    ASSUME TypeOK, ScopeInv, ~threw, kind' = kind, stack # << >>, stack' = Pop,
           fake_scope' = Left(Top, Top.entry)
    PROVE  ScopeInv'
  <1> DEFINE n == Len(stack)
  <1>1. /\ n \in Nat /\ n > 0 /\ n \in DOMAIN stack /\ DOMAIN stack = 1 .. n
        /\ Len(stack') = n - 1 /\ DOMAIN stack' = 1 .. (n - 1)
        /\ \A k \in 1 .. (n - 1) : stack'[k] = stack[k]
        /\ stack' = << >> => n = 1
    BY PopFacts DEF TypeOK, Pop
  <1>2. Top = stack[n] /\ Top' = stack'[n - 1]
    BY <1>1 DEF Top
  <1>3. stack' # << >> => n # 1
    <2> SUFFICES ASSUME n = 1 PROVE stack' = << >>
      OBVIOUS
    <2>1. stack' \in Seq(Frame)
      BY PopFacts DEF TypeOK, Pop
    <2> QED BY <1>1, <2>1
  <1> HIDE DEF n
  <1>4. \A g : Inside(g)' = Inside(g)
    BY DEF Inside
  <1>5. fake_scope' = stack[n].saved
    BY <1>1, <1>2 DEF Left, ScopeInv, FrameScopes
  <1>6. stack' = << >> => fake_scope' = NoScope
    BY <1>1, <1>5 DEF ScopeInv, FrameScopes
  <1>7. stack' # << >> => fake_scope' = Inside(Top)'
    <2> SUFFICES ASSUME n # 1 PROVE fake_scope' = Inside(Top)'
      BY <1>3
    <2>1. n - 1 \in 1 .. (n - 1) /\ stack'[n - 1] = stack[n - 1]
      BY <1>1
    <2>2. fake_scope' = Inside(stack[n - 1])
      BY <1>1, <1>5 DEF ScopeInv, FrameScopes
    <2> QED BY <1>2, <2>1, <2>2 DEF Inside
  <1>8. ASSUME NEW k \in DOMAIN stack'
        PROVE  /\ stack'[k].pc # "user" => stack'[k].previous = stack'[k].entry
               /\ stack'[k].entry = IF CallsSaveScope THEN NoScope ELSE stack'[k].saved
               /\ k = 1 => stack'[k].saved = NoScope
               /\ k # 1 => stack'[k].saved = Inside(stack'[k - 1])
    <2>1. k \in DOMAIN stack /\ stack'[k] = stack[k]
          /\ (k # 1 => k - 1 \in DOMAIN stack' /\ stack'[k - 1] = stack[k - 1])
      BY <1>1
    <2> QED BY <2>1 DEF ScopeInv, FrameScopes
  <1> QED BY <1>4, <1>6, <1>7, <1>8 DEF ScopeInv, FrameScopes

LEMMA ThrewStays == [Next]_vars => (threw => threw')
  <1> SUFFICES ASSUME [Next]_vars, threw PROVE threw'
    OBVIOUS
  <1>1. CASE NativeThrows
    BY <1>1 DEF NativeThrows
  <1>2. CASE \E h \in Hooks, t \in Targets, v \in Values : Handle(h, t, v)
    BY <1>2 DEF Handle
  <1>3. CASE \/ \E v \in Values : SetValue(v) \/ WriterReturns(v)
             \/ \E t \in Targets : SetTarget(t)
    BY <1>3 DEF SetValue, WriterReturns, SetTarget
  <1>4. CASE \/ Continue \/ NativeReturns \/ HandlerReturns \/ WriteEnds
             \/ Uncaught \/ UNCHANGED vars
    BY <1>4 DEF Continue, NativeReturns, HandlerReturns, WriteEnds, Uncaught, vars
  <1> QED BY <1>1, <1>2, <1>3, <1>4 DEF Next, Terminated

LEMMA ScopeStep == TypeOK /\ ScopeInv /\ [Next]_vars => ScopeInv'
  <1> SUFFICES ASSUME TypeOK, ScopeInv, [Next]_vars, ~threw, ~threw' PROVE ScopeInv'
    BY ThrewStays DEF ScopeInv
  <1>1. ASSUME NEW pc, At(pc)
        PROVE  /\ stack # << >> /\ Top \in Frame /\ Top.hook \in Hooks /\ Top.pc = pc
               /\ fake_scope = Inside(Top)
               /\ pc # "user" => Top.previous = Top.entry
    <2>1. stack # << >> /\ Top \in Frame /\ Top.hook \in Hooks /\ Top.pc = pc
          /\ Len(stack) \in DOMAIN stack
      BY <1>1, TopFacts
    <2> QED BY <2>1 DEF Top, ScopeInv, FrameScopes
  <1>2. At("user") => fake_scope = Top.entry
    BY <1>1 DEF Inside
  <1>3. ASSUME NEW h \in Hooks, NEW t \in Targets, NEW v \in Values, Handle(h, t, v)
        PROVE  ScopeInv'
    <2> DEFINE f == Entered(h, t, v)
    <2>1. f \in Frame
      BY EnteredFacts
    <2>2. f.pc = "user" /\ f.saved = fake_scope /\ f.entry = Entry
      BY DEF Entered
    <2>3. stack' = Append(stack, f) /\ fake_scope' = Entry /\ kind' = kind
      BY <1>3 DEF Handle, Push
    <2> HIDE DEF f
    <2> QED BY <2>1, <2>2, <2>3, ScopePush DEF Entry
  <1>4. ASSUME NEW g, NEW a, Rewrites(g, a), fake_scope' = Inside(g),
               g.pc # "user" => g.previous = g.entry
        PROVE  ScopeInv'
    BY <1>4, ScopeTop DEF Rewrites
  <1>5. ASSUME NEW v \in Values, SetValue(v) PROVE ScopeInv'
    <2>1. PICK g, a : /\ Rewrites(g, a) /\ At("user") /\ g.pc = "user"
                      /\ fake_scope' = fake_scope
      BY <1>5, SetValueFacts
    <2>2. fake_scope' = Inside(g)
      BY <1>2, <2>1 DEF Inside, Rewrites
    <2> QED BY <1>4, <2>1, <2>2
  <1>6. ASSUME NEW t \in Targets, SetTarget(t) PROVE ScopeInv'
    <2>1. PICK g, a : /\ Rewrites(g, a) /\ At("user") /\ g.pc = "user"
                      /\ fake_scope' = fake_scope
      BY <1>6, SetTargetFacts
    <2>2. fake_scope' = Inside(g)
      BY <1>2, <2>1 DEF Inside, Rewrites
    <2> QED BY <1>4, <2>1, <2>2
  <1>7. ASSUME NEW g, NEW a, Rewrites(g, a), At("user"), g.pc \in {"native", "last"},
               g.previous = fake_scope, fake_scope' = ScopeIn(g)
        PROVE  ScopeInv'
    <2>1. fake_scope = Top.entry /\ g.entry = Top.entry
      BY <1>2, <1>7 DEF Rewrites
    <2>2. fake_scope' = Inside(g)
      BY <1>7, <2>1 DEF Inside, ScopeIn
    <2> QED BY <1>4, <1>7, <2>1, <2>2
  <1>8. ASSUME NEW v \in Values, WriterReturns(v) PROVE ScopeInv'
    BY <1>7, <1>8, WriterReturnsFacts
  <1>9. ASSUME Continue PROVE ScopeInv'
    BY <1>7, <1>9, ContinueFacts
  <1>10. ASSUME NEW pc, pc # "user", At(pc) PROVE Restored(Top) = Top.entry
    <2>1. Top.pc # "user" /\ fake_scope = Inside(Top) /\ Top.previous = Top.entry
      BY <1>1, <1>10
    <2>2. kind[Top.hook].scope = "caller" => Inside(Top) = Top.entry
      BY DEF Inside
    <2> QED BY <2>1, <2>2 DEF Restored
  <1>11. ASSUME NativeReturns PROVE ScopeInv'
    <2>1. PICK g, a : Rewrites(g, a) /\ At("native") /\ g.pc = "user"
      BY <1>11, ResumeFacts
    <2>2. fake_scope' = Top.entry
      BY <1>10, <1>11, <2>1 DEF NativeReturns
    <2>3. fake_scope' = Inside(g)
      BY <2>1, <2>2 DEF Inside, Rewrites
    <2> QED BY <1>4, <2>1, <2>3
  <1>12. ASSUME HandlerReturns PROVE ScopeInv'
    <2>1. At("user") /\ stack' = Pop /\ kind' = kind /\ fake_scope' = Left(Top, fake_scope)
      BY <1>12 DEF HandlerReturns, Leaves
    <2> QED BY <1>1, <1>2, <2>1, ScopePop
  <1>13. ASSUME WriteEnds PROVE ScopeInv'
    <2>1. At("last") /\ stack' = Pop /\ kind' = kind
          /\ fake_scope' = Left(Top, Restored(Top)) /\ stack # << >>
      BY <1>13 DEF WriteEnds, Leaves, At
    <2> QED BY <1>10, <2>1, ScopePop
  <1>14. ASSUME NativeThrows PROVE ScopeInv'
    BY <1>14 DEF NativeThrows
  <1>15. CASE Uncaught \/ UNCHANGED vars
    BY <1>15 DEF Uncaught, vars, ScopeInv, FrameScopes, Inside, Top
  <1> QED BY <1>3, <1>5, <1>6, <1>8, <1>9, <1>11, <1>12, <1>13, <1>14, <1>15
          DEF Next, Terminated

LEMMA ScopeInvariant == Spec => []ScopeInv
  <1>1. Init => ScopeInv
    BY DEF Init, ScopeInv, FrameScopes
  <1> QED BY <1>1, ScopeStep, TypeCorrect, PTL DEF Spec

\* As long as no original handler has thrown, every user handler runs in the
\* scope it was entered in and none is left over between operations, whether
\* or not calls save the scope and however hooks nest or re-enter.
THEOREM ScopesKept == Spec => []ScopeKept
  <1>1. TypeOK /\ ScopeInv => ScopeKept
    <2> SUFFICES ASSUME TypeOK, ScopeInv, ~threw PROVE ScopeRestored
      BY DEF ScopeKept
    <2>1. At("user") => fake_scope = Top.entry
      BY DEF ScopeInv, At, Inside
    <2> QED BY <2>1 DEF ScopeInv, ScopeRestored
  <1> QED BY <1>1, ScopeInvariant, TypeCorrect, PTL

-----------------------------------------------------------------------------
(* ClassSurgery, and the hash tables under it: numbers.                    *)

LEMMA Smallest ==
    ASSUME NEW T \in SUBSET Nat, T # {}
    PROVE  \E m \in T : \A n \in T : m <= n
  <1>1. PICK m \in T : \A n \in T : ~ (<<n, m>> \in OpToRel(<, Nat))
    BY NatLessThanWellFounded, WFMin
  <1>2. m \in Nat /\ \A n \in T : n \in Nat /\ ~ (n < m)
    BY <1>1 DEF OpToRel
  <1>3. \A n \in T : m <= n
    BY <1>2
  <1> QED BY <1>3

LEMMA MaxOf ==
    ASSUME NEW n \in Nat, NEW H \in SUBSET (0..n), H # {}
    PROVE  Max(H) \in H /\ \A i \in H : i <= Max(H)
  <1> DEFINE D == {d \in 0..n : n - d \in H}
  <1>1. PICK i \in H : TRUE
    OBVIOUS
  <1>2. n - i \in D /\ D \in SUBSET Nat
    <2>1. i \in 0..n /\ n - i \in 0..n /\ n - (n - i) = i
      OBVIOUS
    <2> QED BY <2>1
  <1>3. PICK d \in D : \A e \in D : d <= e
    BY <1>2, Smallest
  <1>4. \A j \in H : n - j \in D /\ j \in 0..n
    <2> SUFFICES ASSUME NEW j \in H PROVE n - j \in D /\ j \in 0..n
      OBVIOUS
    <2>1. j \in 0..n /\ n - j \in 0..n /\ n - (n - j) = j
      OBVIOUS
    <2> QED BY <2>1
  <1>5. n - d \in H /\ d \in 0..n
    OBVIOUS
  <1>6. \A j \in H : n - d >= j
    BY <1>3, <1>4, <1>5
  <1>7. \E x \in H : \A y \in H : x >= y
    BY <1>5, <1>6
  <1>8. Max(H) \in H /\ \A y \in H : Max(H) >= y
    BY <1>7 DEF Max
  <1>9. H \subseteq Nat
    OBVIOUS
  <1> QED BY <1>8, <1>9

-----------------------------------------------------------------------------
(* Items chosen from a sequence.                                           *)

LEMMA RankStep ==
    ASSUME NEW n \in Nat, NEW I \in SUBSET (1..n)
    PROVE  /\ IsFiniteSet(I) /\ Cardinality(I) \in Nat
           /\ \A m \in Nat : Rank(I, m) \in Nat /\ Rank(I, m) <= Cardinality(I)
           /\ Rank(I, 0) = 0 /\ Rank(I, n) = Cardinality(I)
           /\ \A m \in Nat : m # 0 =>
                 Rank(I, m) = IF m \in I THEN Rank(I, m - 1) + 1 ELSE Rank(I, m - 1)
  <1> DEFINE Upto(m) == {j \in I : j <= m}
  <1>0. \A m \in Nat : Rank(I, m) = Cardinality(Upto(m))
    BY DEF Rank
  <1>1. IsFiniteSet(1..n)
    BY FS_Interval
  <1>2. IsFiniteSet(I)
    BY <1>1, FS_Subset
  <1>3. Cardinality(I) \in Nat
    BY <1>2, FS_CardinalityType
  <1>4. \A m \in Nat : Upto(m) \in SUBSET I
    OBVIOUS
  <1>5. \A m \in Nat : IsFiniteSet(Upto(m)) /\ Cardinality(Upto(m)) \in Nat
                       /\ Cardinality(Upto(m)) <= Cardinality(I)
    <2> HIDE DEF Upto
    <2> QED BY <1>2, <1>4, FS_Subset, FS_CardinalityType
  <1>6. \A i \in I : i \in Nat /\ 1 <= i /\ i <= n
    OBVIOUS
  <1>7. Upto(0) = {} /\ Upto(n) = I
    <2>1. \A i \in I : ~(i <= 0) /\ i <= n
      BY <1>6
    <2> QED BY <2>1
  <1>8. Cardinality(Upto(0)) = 0
    BY <1>7, FS_EmptySet
  <1>9. ASSUME NEW m \in Nat, m # 0
        PROVE  Cardinality(Upto(m)) =
                 IF m \in I THEN Cardinality(Upto(m - 1)) + 1 ELSE Cardinality(Upto(m - 1))
    <2>1. m - 1 \in Nat /\ m \notin Upto(m - 1)
      BY <1>9
    <2>2. \A j \in I : j <= m <=> (j <= m - 1 \/ j = m)
      BY <1>6
    <2>3. CASE m \in I
      <3>1. Upto(m) = Upto(m - 1) \cup {m}
        BY <2>2, <2>3
      <3> HIDE DEF Upto
      <3> QED BY <1>5, <2>1, <2>3, <3>1, FS_AddElement
    <2>4. CASE m \notin I
      <3>1. Upto(m) = Upto(m - 1)
        BY <2>2, <2>4
      <3> HIDE DEF Upto
      <3> QED BY <2>4, <3>1
    <2> QED BY <2>3, <2>4
  <1> HIDE DEF Upto
  <1>10. n \in Nat /\ 0 \in Nat /\ \A m \in Nat : m # 0 => m - 1 \in Nat
    OBVIOUS
  <1> QED BY <1>0, <1>2, <1>3, <1>5, <1>7, <1>8, <1>9, <1>10

\* There is one position of each rank.
LEMMA RankOnto ==
    ASSUME NEW n \in Nat, NEW I \in SUBSET (1..n), NEW k \in 1..Cardinality(I)
    PROVE  \E i \in I : Rank(I, i) = k
  <1> DEFINE T == {m \in Nat : Rank(I, m) >= k}
  <1>1. Cardinality(I) \in Nat /\ Rank(I, n) = Cardinality(I) /\ Rank(I, 0) = 0
    BY RankStep
  <1>2. n \in T /\ 0 \notin T /\ k \in Nat
    BY <1>1
  <1>3. PICK m \in T : \A e \in T : m <= e
    BY <1>2, Smallest
  <1>4. m \in Nat /\ m # 0 /\ Rank(I, m) >= k
    BY <1>2
  <1>5. m - 1 \in Nat /\ m - 1 < m
    BY <1>4
  <1>6. Rank(I, m - 1) \in Nat /\ Rank(I, m) \in Nat
    BY <1>4, <1>5, RankStep
  <1>7. Rank(I, m) = IF m \in I THEN Rank(I, m - 1) + 1 ELSE Rank(I, m - 1)
    BY <1>4, RankStep
  <1>8. m - 1 \notin T
    BY <1>3, <1>5
  <1>9. Rank(I, m - 1) < k
    BY <1>2, <1>5, <1>6, <1>8
  <1> HIDE DEF T
  <1>10. m \in I /\ Rank(I, m) = k
    BY <1>2, <1>4, <1>5, <1>6, <1>7, <1>9
  <1> QED BY <1>10

LEMMA RankOnce ==
    ASSUME NEW n \in Nat, NEW I \in SUBSET (1..n), NEW i \in I, NEW j \in I, i < j
    PROVE  Rank(I, i) < Rank(I, j)
  <1> DEFINE Upto(m) == {l \in I : l <= m}
  <1>1. \A l \in I : l \in Nat
    OBVIOUS
  <1>2. IsFiniteSet(I) /\ Upto(i) \in SUBSET I /\ Upto(j) \in SUBSET I
    BY RankStep
  <1>3. Rank(I, i) = Cardinality(Upto(i)) /\ Rank(I, j) = Cardinality(Upto(j))
    BY DEF Rank
  <1>4. j \notin Upto(i) /\ Upto(i) \cup {j} \in SUBSET Upto(j)
    <2>1. ~(j <= i) /\ j <= j /\ \A l \in I : l <= i => l <= j
      BY <1>1
    <2> QED BY <2>1
  <1> HIDE DEF Upto
  <1>5. IsFiniteSet(Upto(i)) /\ IsFiniteSet(Upto(j))
        /\ Cardinality(Upto(i)) \in Nat /\ Cardinality(Upto(j)) \in Nat
    BY <1>2, FS_Subset, FS_CardinalityType
  <1>6. Cardinality(Upto(i) \cup {j}) = Cardinality(Upto(i)) + 1
    BY <1>4, <1>5, FS_AddElement
  <1>7. Cardinality(Upto(i) \cup {j}) <= Cardinality(Upto(j))
    BY <1>4, <1>5, FS_Subset
  <1> QED BY <1>3, <1>5, <1>6, <1>7

Positions(I) == \E n \in Nat : I \in SUBSET (1..n)

LEMMA ChosenDomain ==
    ASSUME NEW s, NEW I, Positions(I)
    PROVE  DOMAIN Chosen(s, I) = 1..Cardinality(I) /\ Cardinality(I) \in Nat
  BY RankStep DEF Chosen, Positions

\* Each chosen item is one of those at the positions, at the place of its rank;
\* and each of those is chosen.
LEMMA ChosenFrom ==
    ASSUME NEW s, NEW I, Positions(I)
    PROVE  \A k \in DOMAIN Chosen(s, I) : \E i \in I : k = Rank(I, i) /\ Chosen(s, I)[k] = s[i]
  <1>0. PICK n \in Nat : I \in SUBSET (1..n)
    BY DEF Positions
  <1> DEFINE place(k) == CHOOSE i \in I : Rank(I, i) = k
             N == Cardinality(I)
  <1>1. DOMAIN Chosen(s, I) = 1..N
    BY ChosenDomain
  <1>2. ASSUME NEW k \in 1..N PROVE place(k) \in I /\ Rank(I, place(k)) = k
    <2>1. \E i \in I : Rank(I, i) = k
      BY <1>0, RankOnto
    <2> QED BY <2>1
  <1>3. \A k \in 1..N : Chosen(s, I)[k] = s[place(k)]
    BY DEF Chosen
  <1> HIDE DEF place, N
  <1> QED BY <1>1, <1>2, <1>3

LEMMA ChosenPlace ==
    ASSUME NEW s, NEW I, Positions(I)
    PROVE  \A i \in I : Rank(I, i) \in 1..Cardinality(I) /\ Chosen(s, I)[Rank(I, i)] = s[i]
  <1>0. PICK n \in Nat : I \in SUBSET (1..n)
    BY DEF Positions
  <1> DEFINE place(k) == CHOOSE i \in I : Rank(I, i) = k
             N == Cardinality(I)
  <1>1. N \in Nat
    BY <1>0, RankStep
  <1>2. ASSUME NEW k \in 1..N PROVE place(k) \in I /\ Rank(I, place(k)) = k
    <2>1. \E i \in I : Rank(I, i) = k
      BY <1>0, RankOnto
    <2> QED BY <2>1
  <1>3. \A k \in 1..N : Chosen(s, I)[k] = s[place(k)]
    BY DEF Chosen
  <1>4. \A i \in I : i \in Nat /\ 1 <= i
    BY <1>0
  <1> HIDE DEF place
  <1>5. ASSUME NEW i \in I
        PROVE  Rank(I, i) \in 1..N /\ place(Rank(I, i)) = i
    <2> DEFINE k == Rank(I, i)
    <2>1. k \in Nat /\ k <= N /\ i \in Nat
      BY <1>0, <1>4, RankStep
    <2>2. i - 1 \in Nat /\ i # 0
      BY <1>4
    <2>3. Rank(I, i - 1) \in Nat
      BY <1>0, <2>2, RankStep
    <2>4. k = Rank(I, i - 1) + 1
      BY <1>0, <2>1, <2>2, RankStep
    <2>5. k \in 1..N
      BY <1>1, <2>1, <2>3, <2>4
    <2>6. place(k) \in I /\ Rank(I, place(k)) = k
      BY <1>2, <2>5
    <2> HIDE DEF k
    <2> DEFINE p == place(k)
    <2>7. p \in I /\ Rank(I, p) = k
      BY <2>6
    <2> HIDE DEF p
    <2>8. p \in Nat
      BY <1>4, <2>7
    <2>9. p < i => Rank(I, p) < Rank(I, i)
      BY <1>0, <2>7, RankOnce
    <2>10. i < p => Rank(I, i) < Rank(I, p)
      BY <1>0, <2>7, RankOnce
    <2>11. p = i
      BY <2>1, <2>7, <2>8, <2>9, <2>10 DEF k
    <2> QED BY <2>5, <2>11 DEF k, p
  <1> HIDE DEF N
  <1> QED BY <1>3, <1>5 DEF N

LEMMA ChosenItems ==
    ASSUME NEW S, NEW s, NEW I, Positions(I), \A i \in I : s[i] \in S
    PROVE  Chosen(s, I) \in Seq(S)
  <1> DEFINE c == Chosen(s, I)
             N == Cardinality(I)
  <1>1. DOMAIN c = 1..N /\ N \in Nat
    BY ChosenDomain
  <1>a. \A k \in DOMAIN c : \E i \in I : c[k] = s[i]
    BY ChosenFrom
  <1>2. c = [k \in 1..N |-> c[k]]
    BY DEF Chosen
  <1> HIDE DEF c, N
  <1>3. c \in [1..N -> S]
    BY <1>1, <1>a, <1>2
  <1>4. c \in Seq(S)
    BY <1>1, <1>3, SeqDef
  <1> QED BY <1>4 DEF c

\* A fold is the last of the values that applying f one item at a time leaves.
Runs(f, x, s, n, a) ==
    /\ DOMAIN a = 0..n /\ a[0] = x
    /\ \A i \in 1..n : a[i] = f[<<a[i - 1], s[i]>>]

LEMMA RunsExist ==
    ASSUME NEW f, NEW x, NEW s, NEW n \in Nat
    PROVE  \E a : Runs(f, x, s, n, a)
  <1> DEFINE Bad == {m \in Nat : ~ \E a : Runs(f, x, s, m, a)}
  <1> SUFFICES ASSUME n \in Bad PROVE FALSE
    OBVIOUS
  <1>1. PICK m \in Bad : \A e \in Bad : m <= e
    BY Smallest
  <1>2. m \in Nat /\ ~ \E a : Runs(f, x, s, m, a)
    OBVIOUS
  <1>3. CASE m = 0
    <2> DEFINE a == [i \in 0..0 |-> x]
    <2>1. DOMAIN a = 0..0 /\ a[0] = x
      OBVIOUS
    <2> HIDE DEF a
    <2>2. 1..0 = {}
      OBVIOUS
    <2>3. Runs(f, x, s, 0, a)
      BY <2>1, <2>2 DEF Runs
    <2> QED BY <1>2, <1>3, <2>3
  <1>4. CASE m # 0
    <2>1. m - 1 \in Nat /\ m - 1 < m
      BY <1>2, <1>4
    <2>2. m - 1 \notin Bad
      BY <1>1, <2>1
    <2>3. PICK b : Runs(f, x, s, m - 1, b)
      BY <2>1, <2>2
    <2> DEFINE a == [i \in 0..m |-> IF i = m THEN f[<<b[m - 1], s[m]>>] ELSE b[i]]
    <2>4. /\ DOMAIN a = 0..m /\ a[m] = f[<<b[m - 1], s[m]>>]
          /\ \A i \in 0..(m - 1) : a[i] = b[i]
      BY <1>2, <2>1
    <2> HIDE DEF a
    <2>5. a[0] = x
      <3>1. 0 \in 0..(m - 1)
        BY <2>1
      <3> QED BY <2>3, <2>4, <3>1 DEF Runs
    <2>6. ASSUME NEW i \in 1..m PROVE a[i] = f[<<a[i - 1], s[i]>>]
      <3>1. i - 1 \in 0..(m - 1)
        BY <1>2
      <3>2. CASE i = m
        BY <2>4, <3>1, <3>2
      <3>3. CASE i # m
        <4>1. i \in 1..(m - 1) /\ i \in 0..(m - 1)
          BY <1>2, <3>3
        <4> QED BY <2>3, <2>4, <3>1, <4>1 DEF Runs
      <3> QED BY <3>2, <3>3
    <2>7. Runs(f, x, s, m, a)
      BY <2>4, <2>5, <2>6 DEF Runs
    <2> QED BY <1>2, <2>7
  <1> QED BY <1>3, <1>4

LEMMA FoldRuns ==
    ASSUME NEW f, NEW x, NEW s, Len(s) \in Nat
    PROVE  \E a : Runs(f, x, s, Len(s), a) /\ Fold(f, x, s) = a[Len(s)]
  <1> DEFINE n == Len(s)
             E(a) == a = [i \in 0..n |-> IF i = 0 THEN x ELSE f[<<a[i - 1], s[i]>>]]
  <1>1. PICK b : Runs(f, x, s, n, b)
    BY RunsExist
  <1>2. E([i \in 0..n |-> b[i]])
    <2> DEFINE c == [i \in 0..n |-> b[i]]
    <2>1. \A i \in 0..n : c[i] = b[i]
      OBVIOUS
    <2>2. b[0] = x /\ \A i \in 1..n : b[i] = f[<<b[i - 1], s[i]>>]
      BY <1>1 DEF Runs
    <2> HIDE DEF c
    <2>3. \A i \in 0..n : i # 0 => i \in 1..n /\ i - 1 \in 0..n
      OBVIOUS
    <2>4. \A i \in 0..n : b[i] = IF i = 0 THEN x ELSE f[<<c[i - 1], s[i]>>]
      BY <2>1, <2>2, <2>3
    <2>5. [i \in 0..n |-> b[i]] = [i \in 0..n |-> IF i = 0 THEN x ELSE f[<<c[i - 1], s[i]>>]]
      BY <2>4
    <2> QED BY <2>5 DEF c
  <1> DEFINE a == CHOOSE g : E(g)
  <1>3. E(a)
    <2>1. \E g : E(g)
      <3> HIDE DEF E
      <3> QED BY <1>2
    <2> HIDE DEF E
    <2> QED BY <2>1
  <1>4. Fold(f, x, s) = a[n]
    BY DEF Fold
  <1> HIDE DEF a
  <1>5. Runs(f, x, s, n, a)
    <2>1. \A i \in 1..n : i \in 0..n /\ i # 0
      OBVIOUS
    <2>2. 0 \in 0..n
      OBVIOUS
    <2> QED BY <1>3, <2>1, <2>2 DEF Runs
  <1> QED BY <1>4, <1>5

\* What f keeps, Fold keeps.
LEMMA FoldIn ==
    ASSUME NEW S, NEW X, NEW f, NEW x \in S, NEW s \in Seq(X),
           \A a \in S, b \in X : f[<<a, b>>] \in S
    PROVE  Fold(f, x, s) \in S
  <1> DEFINE n == Len(s)
  <1>1. n \in Nat /\ \A i \in 1..n : s[i] \in X
    BY LenProperties, ElementOfSeq
  <1>2. PICK a : Runs(f, x, s, n, a) /\ Fold(f, x, s) = a[n]
    BY <1>1, FoldRuns
  <1> HIDE DEF n
  <1> DEFINE Bad == {m \in 0..n : a[m] \notin S}
  <1>3. Bad = {}
    <2> SUFFICES ASSUME Bad # {} PROVE FALSE
      OBVIOUS
    <2>1. Bad \in SUBSET Nat
      BY <1>1
    <2>2. PICK m \in Bad : \A e \in Bad : m <= e
      BY <2>1, Smallest
    <2>3. m \in 0..n /\ m # 0
      BY <1>2 DEF Runs
    <2>4. m \in 1..n /\ m - 1 \in 0..n /\ ~(m <= m - 1)
      BY <1>1, <2>3
    <2>5. a[m - 1] \in S
      BY <2>2, <2>4
    <2>6. a[m] = f[<<a[m - 1], s[m]>>]
      BY <1>2, <2>4 DEF Runs
    <2> QED BY <1>1, <2>4, <2>5, <2>6
  <1>4. n \in 0..n
    BY <1>1
  <1> QED BY <1>2, <1>3, <1>4

-----------------------------------------------------------------------------
(* Tables.                                                                 *)

LEMMA TableParts ==
    ASSUME NEW t \in Tables
    PROVE  /\ t.arData \in Seq(Bucket \cup {Undef}) /\ t.nTableSize \in Nat \ {0}
           /\ t = [arData |-> t.arData, nTableSize |-> t.nTableSize]
           /\ Len(t.arData) \in Nat /\ DOMAIN t.arData = 1..Len(t.arData)
           /\ Elements(t) \in SUBSET (1..Len(t.arData))
           /\ \A i \in Elements(t) : t.arData[i] \in Bucket
           /\ Positions(Elements(t))
  <1>1. t.arData \in Seq(Bucket \cup {Undef}) /\ t.nTableSize \in Nat \ {0}
    BY DEF Tables
  <1>2. t = [arData |-> t.arData, nTableSize |-> t.nTableSize]
    BY DEF Tables
  <1>3. Len(t.arData) \in Nat /\ DOMAIN t.arData = 1..Len(t.arData)
    BY <1>1, LenProperties
  <1>4. \A i \in 1..Len(t.arData) : t.arData[i] \in Bucket \cup {Undef}
    BY <1>1, ElementOfSeq
  <1>5. Elements(t) \in SUBSET (1..Len(t.arData))
    BY <1>3 DEF Elements
  <1>6. \A i \in Elements(t) : t.arData[i] \in Bucket
    BY <1>4, <1>5 DEF Elements, Live
  <1>7. Positions(Elements(t))
    BY <1>3, <1>5 DEF Positions
  <1> QED BY <1>1, <1>2, <1>3, <1>5, <1>6, <1>7

LEMMA AddType ==
    ASSUME NEW t \in Tables, NEW k \in Keys, NEW x \in Vals
    PROVE  add(t, k, x) \in Tables
  <1> DEFINE full == nNumUsed(t) >= t.nTableSize
             left == IF full THEN Chosen(t.arData, Elements(t)) ELSE t.arData
             size == IF full /\ Len(left) = nNumUsed(t) THEN 2 * t.nTableSize ELSE t.nTableSize
             b == [key |-> k, val |-> x]
  <1>1. Chosen(t.arData, Elements(t)) \in Seq(Bucket)
    BY TableParts, ChosenItems
  <1>2. Chosen(t.arData, Elements(t)) \in Seq(Bucket \cup {Undef})
    <2>1. Seq(Bucket) \subseteq Seq(Bucket \cup {Undef})
      BY SeqDef
    <2> QED BY <1>1, <2>1
  <1>3. left \in Seq(Bucket \cup {Undef})
    BY <1>2, TableParts
  <1>4. b \in Bucket \cup {Undef}
    BY DEF Bucket
  <1>5. Append(left, b) \in Seq(Bucket \cup {Undef})
    <2> HIDE DEF left, b
    <2> QED BY <1>3, <1>4, AppendProperties
  <1>6. size \in Nat \ {0}
    <2> HIDE DEF full, left
    <2>1. t.nTableSize \in Nat \ {0}
      BY TableParts
    <2> QED BY <2>1
  <1>7. add(t, k, x) = [arData |-> Append(left, b), nTableSize |-> size]
    BY DEF add
  <1> HIDE DEF full, left, size, b
  <1> QED BY <1>5, <1>6, <1>7 DEF Tables

LEMMA DeleteType ==
    ASSUME NEW t \in Tables, NEW k
    PROVE  delete(t, k) \in Tables
  <1> DEFINE marked == [t.arData EXCEPT ![Max(Holding(t, k))] = Undef]
             H == {0} \cup {i \in DOMAIN marked : Live(marked[i])}
             last == Max(H)
             n == Len(t.arData)
  <1>1. n \in Nat /\ DOMAIN t.arData = 1..n
    BY TableParts
  <1>2. \A i \in 1..n : t.arData[i] \in Bucket \cup {Undef}
    <2>1. t.arData \in Seq(Bucket \cup {Undef})
      BY TableParts
    <2> QED BY <2>1, ElementOfSeq
  <1>3. DOMAIN marked = 1..n /\ \A i \in 1..n : marked[i] \in Bucket \cup {Undef}
    BY <1>1, <1>2
  <1> HIDE DEF marked
  <1>4. H \in SUBSET (0..n) /\ H # {}
    BY <1>1, <1>3
  <1>5. last \in 0..n
    <2> HIDE DEF H
    <2> QED BY <1>1, <1>4, MaxOf
  <1> HIDE DEF last, H
  <1>6. \A i \in 1..last : marked[i] \in Bucket \cup {Undef}
    BY <1>1, <1>3, <1>5
  <1>7. SubSeq(marked, 1, last) \in Seq(Bucket \cup {Undef})
    <2>1. last \in Int /\ 1 \in Int
      BY <1>1, <1>5
    <2> HIDE DEF n
    <2> QED BY <1>6, <2>1, SubSeqProperties
  <1>8. delete(t, k) = [t EXCEPT !.arData = SubSeq(marked, 1, last)]
    BY DEF delete, marked, last, H
  <1>9. \A v : [t EXCEPT !.arData = v] = [arData |-> v, nTableSize |-> t.nTableSize]
    BY DEF Tables
  <1> QED BY <1>7, <1>8, <1>9, TableParts DEF Tables

LEMMA IteratorType ==
    ASSUME NEW t \in Tables
    PROVE  getIterator(t) \in Seq(Bucket)
  <1> DEFINE I == {i \in Elements(t) : i <= nNumOfElements(t)}
  <1>1. I \in SUBSET (1..Len(t.arData)) /\ \A i \in I : t.arData[i] \in Bucket
    BY TableParts
  <1>2. Len(t.arData) \in Nat
    BY TableParts
  <1> HIDE DEF I
  <1>a. Positions(I)
    BY <1>1, <1>2 DEF Positions
  <1>3. Chosen(t.arData, I) \in Seq(Bucket)
    BY <1>1, <1>a, ChosenItems
  <1> QED BY <1>3 DEF getIterator, I

\* A choice from a sequence, and a sequence of them.
LEMMA ChosenType ==
    ASSUME NEW S, NEW s \in Seq(S), NEW I \in SUBSET DOMAIN s
    PROVE  Chosen(s, I) \in Seq(S) /\ Len(Chosen(s, I)) = Cardinality(I)
  <1>1. Len(s) \in Nat /\ DOMAIN s = 1..Len(s) /\ \A i \in 1..Len(s) : s[i] \in S
    BY LenProperties, ElementOfSeq
  <1>2. PICK n \in Nat : n = Len(s)
    BY <1>1
  <1>3. I \in SUBSET (1..n) /\ \A i \in I : s[i] \in S
    BY <1>1, <1>2
  <1>a. Positions(I)
    BY <1>3 DEF Positions
  <1>4. Chosen(s, I) \in Seq(S)
    BY <1>3, <1>a, ChosenItems
  <1>5. DOMAIN Chosen(s, I) = 1..Cardinality(I) /\ Cardinality(I) \in Nat
    BY <1>a, ChosenDomain
  <1>6. Len(Chosen(s, I)) = Cardinality(I)
    BY <1>4, <1>5, LenProperties
  <1> QED BY <1>4, <1>6

LEMMA DeletingType ==
    ASSUME NEW t \in Tables, NEW s \in Seq(Keys)
    PROVE  Fold(Deleting, [table |-> t, failed |-> FALSE], s).table \in Tables
  <1>1. ASSUME NEW a \in Attempts, NEW k \in Keys PROVE Deleting[<<a, k>>] \in Attempts
    <2>1. Deleting[<<a, k>>] = Attempt(a, k)
      <3>1. <<a, k>> \in Attempts \X Keys /\ <<a, k>>[1] = a /\ <<a, k>>[2] = k
        OBVIOUS
      <3> QED BY <3>1 DEF Deleting
    <2>2. a.table \in Tables /\ a = [table |-> a.table, failed |-> a.failed]
      BY DEF Attempts
    <2>3. delete(a.table, k) \in Tables
      BY <2>2, DeleteType
    <2>4. [a EXCEPT !.failed = TRUE] \in Attempts /\ [a EXCEPT !.table = delete(a.table, k)] \in Attempts
      BY <2>2, <2>3 DEF Attempts
    <2> QED BY <2>1, <2>4 DEF Attempt
  <1>2. [table |-> t, failed |-> FALSE] \in Attempts
    BY DEF Attempts
  <1>3. Fold(Deleting, [table |-> t, failed |-> FALSE], s) \in Attempts
    BY <1>1, <1>2, FoldIn
  <1> QED BY <1>3 DEF Attempts

LEMMA RemovingType ==
    ASSUME NEW t \in Tables, NEW s \in Seq(Bucket)
    PROVE  Fold(Removing, t, s) \in Tables
  <1>1. ASSUME NEW a \in Tables, NEW b \in Bucket PROVE Removing[<<a, b>>] \in Tables
    <2>1. <<a, b>> \in Tables \X Bucket /\ <<a, b>>[1] = a /\ <<a, b>>[2] = b
      OBVIOUS
    <2>2. Removing[<<a, b>>] = delete(a, b.key)
      BY <2>1 DEF Removing
    <2> QED BY <2>2, DeleteType
  <1> QED BY <1>1, FoldIn

LEMMA InheritingType ==
    ASSUME NEW t \in Tables, NEW s \in Seq(Bucket)
    PROVE  Fold(Inheriting, t, s) \in Tables
  <1>1. ASSUME NEW a \in Tables, NEW b \in Bucket PROVE Inheriting[<<a, b>>] \in Tables
    <2>1. <<a, b>> \in Tables \X Bucket /\ <<a, b>>[1] = a /\ <<a, b>>[2] = b
      OBVIOUS
    <2>2. Inheriting[<<a, b>>] = IF find(a, b.key) = Undef THEN add(a, b.key, b.val) ELSE a
      BY <2>1 DEF Inheriting
    <2>3. b.key \in Keys /\ b.val \in Vals
      BY DEF Bucket
    <2> QED BY <2>2, <2>3, AddType
  <1> QED BY <1>1, FoldIn

-----------------------------------------------------------------------------
(* Memory.                                                                 *)

LEMMA BlockFacts ==
    /\ Null \notin Blocks /\ 1 \in Blocks /\ 2 \in Blocks /\ Blocks \in SUBSET Nat
    /\ Free \in Block /\ Free.live = FALSE
  <1>1. MaxBlocks \in Nat /\ 1 <= MaxBlocks /\ 2 <= MaxBlocks
    BY SurgeryAssumption
  <1>2. Null \notin Blocks
    BY SurgeryAssumption
  <1>3. << >> \in Seq(Names)
    OBVIOUS
  <1>4. Free \in Block /\ Free.live = FALSE
    BY <1>3 DEF Free, Block
  <1> QED BY <1>1, <1>2, <1>4 DEF Blocks

LEMMA HeapParts ==
    ASSUME NEW h \in Heaps
    PROVE  /\ h.blocks \in [Blocks -> Block] /\ h.corrupt \in BOOLEAN
           /\ \A b \in Blocks : h.blocks[b] \in Block /\ h.blocks[b].live \in BOOLEAN
                                /\ h.blocks[b].persistent \in BOOLEAN /\ h.blocks[b].items \in Seq(Names)
  <1>1. h.blocks \in [Blocks -> Block] /\ h.corrupt \in BOOLEAN
    BY DEF Heaps
  <1>2. \A b \in Blocks : h.blocks[b] \in Block
    BY <1>1
  <1> QED BY <1>1, <1>2 DEF Block

LEMMA FreshFree ==
    ASSUME NEW h, Unused(h) # {}
    PROVE  FreshBlock(h) \in Blocks /\ FreshBlock(h) \in Unused(h) /\ ~h.blocks[FreshBlock(h)].live
  <1>1. Unused(h) \in SUBSET Nat /\ Unused(h) \subseteq Blocks
    BY BlockFacts DEF Unused
  <1>2. \E b \in Unused(h) : \A c \in Unused(h) : b <= c
    BY <1>1, Smallest
  <1>3. FreshBlock(h) \in Unused(h)
    BY <1>2 DEF FreshBlock
  <1> QED BY <1>1, <1>3 DEF Unused

\* What allocating and freeing do to each block.
LEMMA AllocatedHeap ==
    ASSUME NEW h \in Heaps, Unused(h) # {}, NEW p \in BOOLEAN, NEW items \in Seq(Names),
           NEW g, g = Allocated(h, p, items)
    PROVE  /\ g \in Heaps /\ g.corrupt = h.corrupt
           /\ g.blocks[FreshBlock(h)].live /\ g.blocks[FreshBlock(h)].persistent = p
           /\ g.blocks[FreshBlock(h)].items = items
           /\ \A b \in Blocks : b # FreshBlock(h) => g.blocks[b] = h.blocks[b]
  <1> DEFINE new == [live |-> TRUE, persistent |-> p, items |-> items]
             f == FreshBlock(h)
  <1>1. f \in Blocks
    BY FreshFree
  <1>2. new \in Block /\ new.live /\ new.persistent = p /\ new.items = items
    BY DEF Block
  <1>3. g = [h EXCEPT !.blocks[f] = new]
    BY DEF Allocated
  <1> HIDE DEF new, f
  <1>4. g.blocks = [h.blocks EXCEPT ![f] = new] /\ g.corrupt = h.corrupt
        /\ g = [blocks |-> [h.blocks EXCEPT ![f] = new], corrupt |-> h.corrupt]
    BY <1>3 DEF Heaps
  <1>5. [h.blocks EXCEPT ![f] = new] \in [Blocks -> Block]
    BY <1>1, <1>2, HeapParts
  <1>6. g \in Heaps
    BY <1>4, <1>5, HeapParts DEF Heaps
  <1>7. g.blocks[f] = new /\ \A b \in Blocks : b # f => g.blocks[b] = h.blocks[b]
    BY <1>1, <1>4, HeapParts
  <1> QED BY <1>2, <1>4, <1>6, <1>7 DEF f

LEMMA FreedHeap ==
    ASSUME NEW h \in Heaps, NEW b \in Blocks, NEW p \in BOOLEAN, NEW g, g = Freed(h, b, p)
    PROVE  /\ g \in Heaps /\ g.blocks[b] = Free
           /\ \A c \in Blocks : c # b => g.blocks[c] = h.blocks[c]
           /\ (~h.corrupt /\ h.blocks[b].live /\ h.blocks[b].persistent = p) => ~g.corrupt
  <1> DEFINE bad == h.corrupt \/ ~h.blocks[b].live \/ h.blocks[b].persistent # p
             blocks == [h.blocks EXCEPT ![b] = Free]
  <1>1. bad \in BOOLEAN
    OBVIOUS
  <1>2. g = [blocks |-> blocks, corrupt |-> bad]
    BY DEF Freed
  <1>3. blocks \in [Blocks -> Block] /\ blocks[b] = Free /\ \A c \in Blocks : c # b => blocks[c] = h.blocks[c]
    BY HeapParts, BlockFacts
  <1>4. (~h.corrupt /\ h.blocks[b].live /\ h.blocks[b].persistent = p) => ~bad
    OBVIOUS
  <1> HIDE DEF bad, blocks
  <1>5. g \in Heaps /\ g.blocks = blocks /\ g.corrupt = bad
    BY <1>1, <1>2, <1>3 DEF Heaps
  <1> QED BY <1>3, <1>4, <1>5

LEMMA AbandonedHeap ==
    ASSUME NEW h \in Heaps, NEW b \in Blocks, NEW g, g = Abandoned(h, b)
    PROVE  /\ g \in Heaps /\ g.blocks[b] = Free /\ g.corrupt = h.corrupt
           /\ \A c \in Blocks : c # b => g.blocks[c] = h.blocks[c]
  <1>1. g.blocks = [h.blocks EXCEPT ![b] = Free] /\ g.corrupt = h.corrupt
        /\ g = [blocks |-> [h.blocks EXCEPT ![b] = Free], corrupt |-> h.corrupt]
    BY DEF Heaps, Abandoned
  <1>2. [h.blocks EXCEPT ![b] = Free] \in [Blocks -> Block]
    BY HeapParts, BlockFacts
  <1>3. g \in Heaps
    BY <1>1, <1>2, HeapParts DEF Heaps
  <1> QED BY <1>1, <1>3, HeapParts

-----------------------------------------------------------------------------
(* The arrays.                                                             *)

HeldBy(h, pointer, total) ==
    IF total = 0 THEN pointer = Null
    ELSE pointer \in Blocks /\ h.blocks[pointer].live /\ Len(h.blocks[pointer].items) = total

\* What holds of two arrays in one heap.
Apart(h, p, m, q, n) ==
    /\ HeldBy(h, p, m) /\ HeldBy(h, q, n) /\ (p # Null => p # q)
    /\ (internal \/ cli) =>
          ~h.corrupt /\ \A b \in Blocks : b \in {p, q} => h.blocks[b].persistent = internal
    /\ ~IsPersistent => \A b \in Blocks : h.blocks[b].live => b \in {p, q}

Into(h, items) == IF items = << >> THEN Null ELSE FreshBlock(h)
Moved(h, items, p, m) == Released(IF items = << >> THEN h ELSE Allocated(h, IsPersistent, items), p, m)

LEMMA HeldNull ==
    ASSUME NEW h, NEW p, NEW m \in Nat, HeldBy(h, p, m)
    PROVE  (m = 0 <=> p = Null) /\ (m # 0 => p \in Blocks)
  BY BlockFacts DEF HeldBy

\* The new array, if any, is the only change but the release of the old one.
LEMMA AllocatedFirst ==
    ASSUME NEW h \in Heaps, NEW items \in Seq(Names), items # << >> => Unused(h) # {},
           NEW g, g = IF items = << >> THEN h ELSE Allocated(h, IsPersistent, items)
    PROVE  /\ g \in Heaps /\ g.corrupt = h.corrupt
           /\ Into(h, items) \in Blocks \cup {Null}
           /\ \A b \in Blocks : b # Into(h, items) => g.blocks[b] = h.blocks[b]
           /\ items # << >> => /\ Into(h, items) \in Blocks /\ ~h.blocks[Into(h, items)].live
                               /\ g.blocks[Into(h, items)].live
                               /\ g.blocks[Into(h, items)].persistent = IsPersistent
                               /\ g.blocks[Into(h, items)].items = items
  <1>1. IsPersistent \in BOOLEAN
    BY DEF IsPersistent
  <1>2. CASE items = << >>
    BY <1>2 DEF Into
  <1>3. CASE items # << >>
    <2>1. Into(h, items) = FreshBlock(h) /\ g = Allocated(h, IsPersistent, items)
      BY <1>3 DEF Into
    <2>2. Into(h, items) \in Blocks /\ ~h.blocks[Into(h, items)].live
      BY <1>3, <2>1, FreshFree
    <2> QED BY <1>1, <1>3, <2>1, <2>2, AllocatedHeap
  <1> QED BY <1>2, <1>3

LEMMA ReleasedHeap ==
    ASSUME NEW h \in Heaps, NEW p, NEW m \in Nat, HeldBy(h, p, m),
           internal \in BOOLEAN, cli \in BOOLEAN, NEW g, g = Released(h, p, m)
    PROVE  /\ g \in Heaps
           /\ \A b \in Blocks : b # p => g.blocks[b] = h.blocks[b]
           /\ p # Null => ~g.blocks[p].live
           /\ ((internal \/ cli) /\ ~h.corrupt /\ (p # Null => h.blocks[p].persistent = internal)) => ~g.corrupt
  <1>1. CASE m = 0
    <2>1. g = h /\ p = Null
      BY <1>1, HeldNull DEF Released
    <2> QED BY <2>1
  <1>2. CASE m # 0
    <2>1. p \in Blocks /\ h.blocks[p].live /\ p # Null
      BY <1>2, HeldNull DEF HeldBy
    <2>2. CASE IsPersistent
      <3>1. g = Abandoned(h, p)
        BY <1>2, <2>2 DEF Released
      <3>2. g \in Heaps /\ g.blocks[p] = Free /\ g.corrupt = h.corrupt
            /\ \A c \in Blocks : c # p => g.blocks[c] = h.blocks[c]
        BY <2>1, <3>1, AbandonedHeap
      <3> QED BY <3>2, BlockFacts
    <2>3. CASE ~IsPersistent
      <3>1. g = Freed(h, p, FALSE) /\ internal = FALSE
        BY <1>2, <2>3 DEF Released, IsPersistent
      <3>2. /\ g \in Heaps /\ g.blocks[p] = Free
            /\ \A c \in Blocks : c # p => g.blocks[c] = h.blocks[c]
            /\ (~h.corrupt /\ h.blocks[p].live /\ h.blocks[p].persistent = FALSE) => ~g.corrupt
        BY <2>1, <3>1, FreedHeap
      <3> QED BY <2>1, <3>1, <3>2, BlockFacts
    <2> QED BY <2>2, <2>3
  <1> QED BY <1>1, <1>2

\* Moving one array keeps both in order.
LEMMA MovedApart ==
    ASSUME NEW h \in Heaps, internal \in BOOLEAN, cli \in BOOLEAN,
           NEW items \in Seq(Names), items # << >> => Unused(h) # {},
           NEW p, NEW q, NEW m \in Nat, NEW n \in Nat, Apart(h, p, m, q, n)
    PROVE  /\ Moved(h, items, p, m) \in Heaps /\ Into(h, items) \in Blocks \cup {Null}
           /\ Apart(Moved(h, items, p, m), Into(h, items), Len(items), q, n)
           /\ (items = << >> /\ Unused(h) # {}) => Unused(Moved(h, items, p, m)) # {}
           /\ Items(Moved(h, items, p, m), Into(h, items), Len(items)) = items
           /\ Items(Moved(h, items, p, m), q, n) = Items(h, q, n)
  <1> DEFINE g == Moved(h, items, p, m)
             into == Into(h, items)
  <1>0. g = Moved(h, items, p, m) /\ into = Into(h, items)
    OBVIOUS
  <1> HIDE DEF g, into
  <1> DEFINE k == IF items = << >> THEN h ELSE Allocated(h, IsPersistent, items)
  <1>1. /\ k \in Heaps /\ k.corrupt = h.corrupt
        /\ into \in Blocks \cup {Null}
        /\ \A b \in Blocks : b # into => k.blocks[b] = h.blocks[b]
        /\ items # << >> => /\ into \in Blocks /\ ~h.blocks[into].live
                            /\ k.blocks[into].live
                            /\ k.blocks[into].persistent = IsPersistent
                            /\ k.blocks[into].items = items
    BY <1>0, AllocatedFirst
  <1>2. g = Released(k, p, m)
    BY <1>0 DEF Moved
  <1>3. items = << >> => into = Null
    BY <1>0 DEF Into
  <1>4. items = << >> => k = h
    OBVIOUS
  <1> HIDE DEF k
  <1>5. Null \notin Blocks
    BY BlockFacts
  <1>6. /\ HeldBy(h, p, m) /\ HeldBy(h, q, n) /\ (p # Null => p # q)
        /\ p # Null => p \in Blocks /\ h.blocks[p].live
        /\ q # Null => q \in Blocks /\ h.blocks[q].live
    BY HeldNull DEF Apart, HeldBy
  <1>7. (p # Null => p # into) /\ (q # Null => q # into)
    BY <1>1, <1>3, <1>6
  <1>8. (p # Null => k.blocks[p] = h.blocks[p]) /\ (q # Null => k.blocks[q] = h.blocks[q])
    BY <1>1, <1>6, <1>7
  <1>9. HeldBy(k, p, m)
    BY <1>6, <1>8, HeldNull DEF HeldBy
  <1>10. /\ g \in Heaps
         /\ \A b \in Blocks : b # p => g.blocks[b] = k.blocks[b]
         /\ p # Null => ~g.blocks[p].live
         /\ ((internal \/ cli) /\ ~k.corrupt /\ (p # Null => k.blocks[p].persistent = internal)) => ~g.corrupt
    BY <1>1, <1>2, <1>9, ReleasedHeap
  <1>11. HeldBy(g, q, n)
    <2>1. q # Null => g.blocks[q] = h.blocks[q]
      BY <1>6, <1>8, <1>10
    <2> QED BY <1>6, <2>1, HeldNull DEF HeldBy
  <1>12. items # << >> => g.blocks[into] = k.blocks[into] /\ into # Null
    BY <1>1, <1>5, <1>7, <1>10
  <1>13. HeldBy(g, into, Len(items))
    <2>1. items = << >> <=> Len(items) = 0
      BY EmptySeq
    <2> QED BY <1>1, <1>3, <1>12, <2>1 DEF HeldBy
  <1>14. into # Null => into # q
    BY <1>3, <1>7, <1>1, <1>5
  <1>15. ASSUME internal \/ cli
         PROVE  ~g.corrupt /\ \A b \in Blocks : b \in {into, q} => g.blocks[b].persistent = internal
    <2>1. ~h.corrupt /\ \A b \in Blocks : b \in {p, q} => h.blocks[b].persistent = internal
      BY <1>15 DEF Apart
    <2>2. ~g.corrupt
      BY <1>1, <1>6, <1>8, <1>10, <1>15, <2>1
    <2>3. IsPersistent = internal
      BY <1>15 DEF IsPersistent
    <2>4. into # Null => g.blocks[into].persistent = internal
      BY <1>1, <1>3, <1>12, <2>3
    <2>5. q # Null => g.blocks[q].persistent = internal
      BY <1>6, <1>8, <1>10, <2>1
    <2> QED BY <1>5, <2>2, <2>4, <2>5
  <1>16. ASSUME ~IsPersistent, NEW b \in Blocks, g.blocks[b].live
         PROVE  b \in {into, q}
    <2>1. b # p
      BY <1>5, <1>10, <1>16
    <2>2. k.blocks[b].live
      BY <1>10, <1>16, <2>1
    <2>3. b # into => h.blocks[b].live
      BY <1>1, <2>2
    <2> QED BY <1>16, <2>1, <2>3 DEF Apart
  <1>17. ASSUME items = << >>, Unused(h) # {} PROVE Unused(g) # {}
    <2>1. PICK b \in Blocks : ~h.blocks[b].live
      BY <1>17 DEF Unused
    <2>2. b # p
      BY <1>5, <1>6, <2>1
    <2>3. ~g.blocks[b].live
      BY <1>4, <1>10, <1>17, <2>1, <2>2
    <2> QED BY <2>3 DEF Unused
  <1>18. Apart(g, into, Len(items), q, n)
    BY <1>11, <1>13, <1>14, <1>15, <1>16 DEF Apart
  <1>19. Items(g, into, Len(items)) = items
    <2>1. CASE items = << >>
      BY <2>1 DEF Items
    <2>2. CASE items # << >>
      <3>1. Len(items) # 0
        BY <2>2, EmptySeq
      <3>2. g.blocks[into].items = items
        BY <1>1, <1>12, <2>2
      <3>3. SubSeq(items, 1, Len(items)) = items
        BY SubSeqFull
      <3> QED BY <3>1, <3>2, <3>3 DEF Items
    <2> QED BY <2>1, <2>2
  <1>20. Items(g, q, n) = Items(h, q, n)
    <2>1. CASE n = 0
      BY <2>1 DEF Items
    <2>2. CASE n # 0
      <3>1. q # Null
        BY <1>6, <2>2, HeldNull
      <3>2. g.blocks[q] = h.blocks[q]
        BY <1>6, <1>8, <1>10, <3>1
      <3> QED BY <2>2, <3>2 DEF Items
    <2> QED BY <2>1, <2>2
  <1> QED BY <1>1, <1>10, <1>17, <1>18, <1>19, <1>20 DEF g, into

LEMMA MovedOther ==
    ASSUME NEW h \in Heaps, internal \in BOOLEAN, cli \in BOOLEAN,
           NEW items \in Seq(Names), items # << >> => Unused(h) # {},
           NEW p, NEW q, NEW m \in Nat, NEW n \in Nat, Apart(h, p, m, q, n)
    PROVE  Items(Moved(h, items, p, m), q, n) = Items(h, q, n)
  BY MovedApart

LEMMA ApartSwap ==
    ASSUME NEW h, NEW p, NEW q, NEW m, NEW n, Apart(h, p, m, q, n)
    PROVE  Apart(h, q, n, p, m)
  <1>1. (internal \/ cli) => \A b \in Blocks : b \in {q, p} => h.blocks[b].persistent = internal
    BY DEF Apart
  <1>2. ~IsPersistent => \A b \in Blocks : h.blocks[b].live => b \in {q, p}
    BY DEF Apart
  <1>3. (internal \/ cli) => ~h.corrupt
    BY DEF Apart
  <1>4. HeldBy(h, p, m) /\ HeldBy(h, q, n) /\ (q # Null => q # p)
    BY DEF Apart
  <1> QED BY <1>1, <1>2, <1>3, <1>4 DEF Apart

\* The class and the heap fit each other.
Sound(c, h) ==
    /\ c \in ClassEntries /\ h \in Heaps
    /\ Apart(h, c.interfaces, c.num_interfaces, c.trait_names, c.num_traits)
    /\ c.resolved = (c.num_interfaces > 0)

LEMMA ItemsHeld ==
    ASSUME NEW h \in Heaps, NEW p, NEW m \in Nat, HeldBy(h, p, m)
    PROVE  Items(h, p, m) \in Seq(Names) /\ (Items(h, p, m) = << >> <=> m = 0)
  <1>1. CASE m = 0
    BY <1>1 DEF Items
  <1>2. CASE m # 0
    <2>1. h.blocks[p].items \in Seq(Names) /\ Len(h.blocks[p].items) = m
      BY <1>2, HeapParts DEF HeldBy
    <2>2. Items(h, p, m) = h.blocks[p].items
      BY <1>2, <2>1, SubSeqFull DEF Items
    <2> QED BY <1>2, <2>1, <2>2, EmptySeq
  <1> QED BY <1>1, <1>2

LEMMA EntryParts ==
    ASSUME NEW c \in ClassEntries
    PROVE  /\ c.interfaces \in Blocks \cup {Null} /\ c.num_interfaces \in Nat
           /\ c.trait_names \in Blocks \cup {Null} /\ c.num_traits \in Nat
           /\ c.resolved \in BOOLEAN /\ c.parent \in Parents \cup {Null}
           /\ c.function_table \in Tables
  BY DEF ClassEntries

LEMMA NamesHeld ==
    ASSUME NEW c, NEW h, Sound(c, h)
    PROVE  /\ getInterfaceNames(c, h) \in Seq(Names) /\ getTraitNames(c, h) \in Seq(Names)
           /\ getInterfaceNames(c, h) = << >> <=> c.num_interfaces = 0
  <1>1. c \in ClassEntries /\ h \in Heaps
    BY DEF Sound
  <1>2. HeldBy(h, c.interfaces, c.num_interfaces) /\ HeldBy(h, c.trait_names, c.num_traits)
    BY DEF Sound, Apart
  <1> QED BY <1>1, <1>2, EntryParts, ItemsHeld DEF getInterfaceNames, getTraitNames

LEMMA WithTraitsSound ==
    ASSUME NEW c, NEW h, Sound(c, h), internal \in BOOLEAN, cli \in BOOLEAN,
           NEW items \in Seq(Names), items # << >> => Unused(h) # {},
           NEW r, r = WithTraits(c, h, items)
    PROVE  /\ Sound(r.ce, r.heap)
           /\ r.ce.parent = c.parent /\ r.ce.function_table = c.function_table
           /\ getTraitNames(r.ce, r.heap) = items
           /\ getInterfaceNames(r.ce, r.heap) = getInterfaceNames(c, h)
  <1> DEFINE into == Into(h, items)
             g == Moved(h, items, c.trait_names, c.num_traits)
             d == [c EXCEPT !.trait_names = into, !.num_traits = Len(items)]
  <1>1. c \in ClassEntries /\ h \in Heaps /\ c.resolved = (c.num_interfaces > 0)
    BY DEF Sound
  <1>2. Apart(h, c.trait_names, c.num_traits, c.interfaces, c.num_interfaces)
    BY ApartSwap DEF Sound
  <1>3. g \in Heaps /\ into \in Blocks \cup {Null} /\ Apart(g, into, Len(items), c.interfaces, c.num_interfaces)
        /\ Items(g, into, Len(items)) = items
        /\ Items(g, c.interfaces, c.num_interfaces) = Items(h, c.interfaces, c.num_interfaces)
    <2>1. c.num_traits \in Nat /\ c.num_interfaces \in Nat
      BY <1>1, EntryParts
    <2>2. into = Into(h, items) /\ g = Moved(h, items, c.trait_names, c.num_traits)
      OBVIOUS
    <2> HIDE DEF into, g
    <2>3. g \in Heaps /\ into \in Blocks \cup {Null} /\ Apart(g, into, Len(items), c.interfaces, c.num_interfaces)
      BY <1>1, <1>2, <2>1, <2>2, MovedApart
    <2>4. Items(g, into, Len(items)) = items
      BY <1>1, <1>2, <2>1, <2>2, MovedApart
    <2>5. Items(g, c.interfaces, c.num_interfaces) = Items(h, c.interfaces, c.num_interfaces)
      BY <1>1, <1>2, <2>1, <2>2, MovedOther
    <2> QED BY <2>3, <2>4, <2>5
  <1>4. WithTraits(c, h, items) = [ce |-> d, heap |-> g]
    BY DEF WithTraits, Into, Moved
  <1> HIDE DEF into, g
  <1>5. Len(items) \in Nat
    BY LenProperties
  <1>6. d \in ClassEntries /\ d.interfaces = c.interfaces /\ d.num_interfaces = c.num_interfaces
        /\ d.trait_names = into /\ d.num_traits = Len(items) /\ d.resolved = c.resolved
        /\ d.parent = c.parent /\ d.function_table = c.function_table
    BY <1>1, <1>3, <1>5 DEF ClassEntries
  <1> HIDE DEF d
  <1>7. Apart(g, d.interfaces, d.num_interfaces, d.trait_names, d.num_traits)
    BY <1>3, <1>6, ApartSwap
  <1>8. Sound(d, g)
    BY <1>1, <1>3, <1>6, <1>7 DEF Sound
  <1>9. getTraitNames(d, g) = items /\ getInterfaceNames(d, g) = getInterfaceNames(c, h)
    BY <1>3, <1>6 DEF getTraitNames, getInterfaceNames
  <1> QED BY <1>4, <1>6, <1>8, <1>9

LEMMA WithInterfacesSound ==
    ASSUME NEW c, NEW h, Sound(c, h), internal \in BOOLEAN, cli \in BOOLEAN,
           NEW items \in Seq(Names), items # << >> => Unused(h) # {},
           NEW r, r = WithInterfaces(c, h, items)
    PROVE  /\ Sound(r.ce, r.heap)
           /\ r.ce.parent = c.parent /\ r.ce.function_table = c.function_table
           /\ (r.ce.num_interfaces = 0 /\ Unused(h) # {}) => Unused(r.heap) # {}
           /\ getInterfaceNames(r.ce, r.heap) = items
           /\ getTraitNames(r.ce, r.heap) = getTraitNames(c, h)
  <1> DEFINE into == Into(h, items)
             g == Moved(h, items, c.interfaces, c.num_interfaces)
             done == IF items = << >> THEN FALSE ELSE IF c.num_interfaces = 0 THEN TRUE ELSE c.resolved
             d == [c EXCEPT !.interfaces = into, !.num_interfaces = Len(items), !.resolved = done]
  <1>1. c \in ClassEntries /\ h \in Heaps /\ c.resolved = (c.num_interfaces > 0)
    BY DEF Sound
  <1>2. Apart(h, c.interfaces, c.num_interfaces, c.trait_names, c.num_traits)
    BY DEF Sound
  <1>3. /\ g \in Heaps /\ into \in Blocks \cup {Null} /\ Apart(g, into, Len(items), c.trait_names, c.num_traits)
        /\ (items = << >> /\ Unused(h) # {}) => Unused(g) # {}
        /\ Items(g, into, Len(items)) = items
        /\ Items(g, c.trait_names, c.num_traits) = Items(h, c.trait_names, c.num_traits)
    <2>1. c.num_traits \in Nat /\ c.num_interfaces \in Nat
      BY <1>1, EntryParts
    <2>2. into = Into(h, items) /\ g = Moved(h, items, c.interfaces, c.num_interfaces)
      OBVIOUS
    <2> HIDE DEF into, g
    <2> QED BY <1>1, <1>2, <2>1, <2>2, MovedApart
  <1>4. WithInterfaces(c, h, items) = [ce |-> d, heap |-> g]
    BY DEF WithInterfaces, Into, Moved
  <1> HIDE DEF into, g
  <1>5. Len(items) \in Nat /\ (items = << >> <=> Len(items) = 0)
    BY LenProperties, EmptySeq
  <1>6. c.num_interfaces \in Nat
    BY <1>1, EntryParts
  <1>7. done = (Len(items) > 0) /\ done \in BOOLEAN
    <2>1. CASE items = << >>
      <3>1. done = FALSE
        BY <2>1
      <3>2. (Len(items) > 0) = FALSE
        BY <1>5, <2>1
      <3> QED BY <3>1, <3>2
    <2>2. CASE items # << >>
      <3>1. Len(items) > 0
        BY <1>5, <2>2
      <3>2. CASE c.num_interfaces = 0
        BY <2>2, <3>1, <3>2
      <3>3. CASE c.num_interfaces # 0
        <4>1. c.num_interfaces > 0
          BY <1>6, <3>3
        <4>2. c.resolved = TRUE
          BY <1>1, <4>1
        <4> QED BY <2>2, <3>1, <3>3, <4>2
      <3> QED BY <3>2, <3>3
    <2> QED BY <2>1, <2>2
  <1> HIDE DEF done
  <1>8. d \in ClassEntries /\ d.interfaces = into /\ d.num_interfaces = Len(items)
        /\ d.trait_names = c.trait_names /\ d.num_traits = c.num_traits /\ d.resolved = done
        /\ d.parent = c.parent /\ d.function_table = c.function_table
    BY <1>1, <1>3, <1>5, <1>7 DEF ClassEntries
  <1> HIDE DEF d
  <1>9. d.resolved = (d.num_interfaces > 0)
    BY <1>7, <1>8
  <1>10. Sound(d, g)
    BY <1>3, <1>8, <1>9 DEF Sound
  <1>11. getInterfaceNames(d, g) = items /\ getTraitNames(d, g) = getTraitNames(c, h)
    BY <1>3, <1>8 DEF getTraitNames, getInterfaceNames
  <1> QED BY <1>3, <1>4, <1>5, <1>8, <1>10, <1>11

LEMMA ChoiceTypes ==
    ASSUME NEW s \in Seq(Names), NEW available, NEW S
    PROVE  ToAdd(s, available) \in Seq(Names) /\ Without(s, S) \in Seq(Names)
  <1>1. ToAdd(s, available) \in Seq(Names)
    BY ChosenType DEF ToAdd
  <1>2. Without(s, S) \in Seq(Names)
    <2> DEFINE found == {Min({i \in DOMAIN s : s[i] = n}) : n \in S}
    <2>1. Without(s, S) = Chosen(s, DOMAIN s \ found)
      BY DEF Without
    <2> HIDE DEF found
    <2> QED BY <2>1, ChosenType
  <1> QED BY <1>1, <1>2

LEMMA WithoutParentSound ==
    ASSUME NEW c, NEW h, Sound(c, h), internal \in BOOLEAN, cli \in BOOLEAN, Unused(h) # {},
           NEW r, r = WithoutParent(c, h)
    PROVE  /\ Sound(r.ce, r.heap)
           /\ r.ce.num_interfaces = 0 => Unused(r.heap) # {}
           /\ r.ce.parent = Null
           /\ r.ce.function_table = Fold(Removing, c.function_table,
                 Chosen(getMethods(c), {i \in DOMAIN getMethods(c) :
                    getMethods(c)[i].val \in {c.parent} \cup Ancestors[c.parent]}))
           /\ getTraitNames(r.ce, r.heap) = getTraitNames(c, h)
           /\ getInterfaceNames(r.ce, r.heap) =
                 IF InterfacesOf[c.parent] = << >> THEN getInterfaceNames(c, h)
                 ELSE Without(getInterfaceNames(c, h), Range(InterfacesOf[c.parent]))
  <1> DEFINE left == Without(getInterfaceNames(c, h), Range(InterfacesOf[c.parent]))
             w == IF InterfacesOf[c.parent] = << >> THEN [ce |-> c, heap |-> h]
                  ELSE WithInterfaces(c, h, left)
             methodsToRemove == Chosen(getMethods(c), {i \in DOMAIN getMethods(c) :
                getMethods(c)[i].val \in {c.parent} \cup Ancestors[c.parent]})
             d == [w.ce EXCEPT !.parent = Null, !.function_table = Fold(Removing, w.ce.function_table, methodsToRemove)]
  <1>1. r = [ce |-> d, heap |-> w.heap]
    BY DEF WithoutParent
  <1>2. left \in Seq(Names)
    BY NamesHeld, ChoiceTypes
  <1>a. left = Without(getInterfaceNames(c, h), Range(InterfacesOf[c.parent]))
    OBVIOUS
  <1> HIDE DEF left
  <1>3. /\ Sound(w.ce, w.heap) /\ (w.ce.num_interfaces = 0 => Unused(w.heap) # {})
        /\ w.ce.function_table = c.function_table /\ getTraitNames(w.ce, w.heap) = getTraitNames(c, h)
        /\ getInterfaceNames(w.ce, w.heap) =
              IF InterfacesOf[c.parent] = << >> THEN getInterfaceNames(c, h) ELSE left
    <2>1. CASE InterfacesOf[c.parent] = << >>
      <3>1. w = [ce |-> c, heap |-> h]
        BY <2>1
      <3>2. w.ce = c /\ w.heap = h
        BY <3>1
      <3> HIDE DEF w
      <3> QED BY <2>1, <3>2
    <2>2. CASE InterfacesOf[c.parent] # << >>
      <3>1. w = WithInterfaces(c, h, left)
        BY <2>2
      <3> HIDE DEF w
      <3>2. /\ Sound(w.ce, w.heap) /\ (w.ce.num_interfaces = 0 => Unused(w.heap) # {})
            /\ w.ce.function_table = c.function_table /\ getTraitNames(w.ce, w.heap) = getTraitNames(c, h)
            /\ getInterfaceNames(w.ce, w.heap) = left
        BY <1>2, <3>1, WithInterfacesSound
      <3> QED BY <2>2, <3>2
    <2> QED BY <2>1, <2>2
  <1> HIDE DEF w
  <1>4. w.ce \in ClassEntries /\ w.heap \in Heaps
    BY <1>3 DEF Sound
  <1>5. methodsToRemove \in Seq(Bucket)
    <2>1. c.function_table \in Tables
      BY EntryParts DEF Sound
    <2>2. getMethods(c) \in Seq(Bucket)
      BY <2>1, IteratorType DEF getMethods
    <2> QED BY <2>2, ChosenType
  <1>b. methodsToRemove = Chosen(getMethods(c), {i \in DOMAIN getMethods(c) :
                getMethods(c)[i].val \in {c.parent} \cup Ancestors[c.parent]})
    OBVIOUS
  <1> HIDE DEF methodsToRemove
  <1>6. Fold(Removing, w.ce.function_table, methodsToRemove) \in Tables
    BY <1>4, <1>5, EntryParts, RemovingType
  <1>7. d \in ClassEntries /\ d.interfaces = w.ce.interfaces /\ d.num_interfaces = w.ce.num_interfaces
        /\ d.trait_names = w.ce.trait_names /\ d.num_traits = w.ce.num_traits /\ d.resolved = w.ce.resolved
        /\ d.parent = Null /\ d.function_table = Fold(Removing, w.ce.function_table, methodsToRemove)
    BY <1>4, <1>6 DEF ClassEntries
  <1> HIDE DEF d
  <1>8. Sound(d, w.heap)
    BY <1>3, <1>7 DEF Sound
  <1>9. getTraitNames(d, w.heap) = getTraitNames(w.ce, w.heap)
        /\ getInterfaceNames(d, w.heap) = getInterfaceNames(w.ce, w.heap)
    BY <1>7 DEF getTraitNames, getInterfaceNames
  <1>10. r.ce = d /\ r.heap = w.heap
    BY <1>1
  <1> QED BY <1>3, <1>a, <1>b, <1>7, <1>8, <1>9, <1>10

LEMMA InheritSound ==
    ASSUME NEW c, NEW h, Sound(c, h), internal \in BOOLEAN, cli \in BOOLEAN,
           c.num_interfaces = 0 => Unused(h) # {}, NEW p \in Parents,
           NEW r, r = Inherit(c, h, p)
    PROVE  /\ Sound(r.ce, r.heap)
           /\ r.ce.parent = p /\ r.ce.function_table = Fold(Inheriting, c.function_table, MethodsOf[p])
           /\ getTraitNames(r.ce, r.heap) = getTraitNames(c, h)
           /\ getInterfaceNames(r.ce, r.heap) =
                 IF InterfacesOf[p] = << >> THEN getInterfaceNames(c, h)
                 ELSE getInterfaceNames(c, h) \o ToAdd(InterfacesOf[p], getInterfaceNames(c, h))
  <1> DEFINE items == getInterfaceNames(c, h)
             all == items \o ToAdd(InterfacesOf[p], items)
             f == IF items = << >> THEN h ELSE Freed(h, c.interfaces, internal)
             grown == Allocated(f, internal, all)
             into == FreshBlock(f)
             methods == Fold(Inheriting, c.function_table, MethodsOf[p])
             derived == [c EXCEPT !.parent = p, !.function_table = methods]
             more == [derived EXCEPT !.interfaces = into, !.num_interfaces = Len(all), !.resolved = TRUE]
  <1>1. Inherit(c, h, p) = IF InterfacesOf[p] = << >> THEN [ce |-> derived, heap |-> h]
                           ELSE [ce |-> more, heap |-> grown]
    BY DEF Inherit
  <1>2. /\ c \in ClassEntries /\ h \in Heaps /\ c.resolved = (c.num_interfaces > 0)
        /\ Apart(h, c.interfaces, c.num_interfaces, c.trait_names, c.num_traits)
    BY DEF Sound
  <1>3. methods \in Tables
    <2>1. MethodsOf[p] \in Seq(Bucket)
      BY SurgeryAssumption
    <2> QED BY <1>2, <2>1, EntryParts, InheritingType
  <1> HIDE DEF methods
  <1>4. derived \in ClassEntries /\ derived.interfaces = c.interfaces /\ derived.num_interfaces = c.num_interfaces
        /\ derived.trait_names = c.trait_names /\ derived.num_traits = c.num_traits /\ derived.resolved = c.resolved
    BY <1>2, <1>3 DEF ClassEntries
  <1>a. derived.parent = p /\ derived.function_table = methods
    BY <1>2 DEF ClassEntries
  <1> HIDE DEF derived
  <1>b. methods = Fold(Inheriting, c.function_table, MethodsOf[p])
    BY DEF methods
  <1>5. CASE InterfacesOf[p] = << >>
    <2>1. Sound(derived, h)
      BY <1>2, <1>4 DEF Sound
    <2>2. getTraitNames(derived, h) = getTraitNames(c, h)
          /\ getInterfaceNames(derived, h) = getInterfaceNames(c, h)
      BY <1>4 DEF getTraitNames, getInterfaceNames
    <2>3. r.ce = derived /\ r.heap = h
      BY <1>1, <1>5
    <2> QED BY <1>5, <1>a, <1>b, <2>1, <2>2, <2>3
  <1>6. CASE InterfacesOf[p] # << >>
    <2>1. items \in Seq(Names) /\ (items = << >> <=> c.num_interfaces = 0)
      BY NamesHeld
    <2>a. all = getInterfaceNames(c, h) \o ToAdd(InterfacesOf[p], getInterfaceNames(c, h))
      OBVIOUS
    <2> HIDE DEF items
    <2>2. InterfacesOf[p] \in Seq(Names)
      <3>1. InterfacesOf[p] \in Seq(Interfaces)
        BY SurgeryAssumption
      <3>2. Seq(Interfaces) \subseteq Seq(Names)
        BY SeqDef DEF Names
      <3> QED BY <3>1, <3>2
    <2>3. all \in Seq(Names)
      BY <2>1, <2>2, ChoiceTypes, ConcatProperties
    <2>4. all # << >>
      <3> SUFFICES ASSUME all = << >> PROVE FALSE
        OBVIOUS
      <3>1. items = << >> /\ ToAdd(InterfacesOf[p], items) = << >>
        <4>1. ToAdd(InterfacesOf[p], items) \in Seq(Names)
          BY <2>2, ChoiceTypes
        <4> QED BY <2>1, <4>1, ConcatEqualIffEmpty
      <3> DEFINE s == InterfacesOf[p]
      <3>2. Range(items) = {}
        BY <3>1 DEF Range
      <3>3. ToAdd(s, items) = Chosen(s, DOMAIN s)
        BY <3>2 DEF ToAdd
      <3>4. Len(s) \in Nat /\ DOMAIN s = 1..Len(s) /\ Len(s) # 0 /\ \A i \in 1..Len(s) : s[i] \in Names
        BY <1>6, <2>2, LenProperties, EmptySeq, ElementOfSeq
      <3> HIDE DEF s
      <3>5. Len(Chosen(s, 1..Len(s))) = Cardinality(1..Len(s))
        <4> DEFINE n == Len(s)
                   I == 1..n
        <4>1. n \in Nat /\ I \in SUBSET (1..n) /\ \A i \in I : s[i] \in Names
          BY <3>4
        <4> HIDE DEF n, I
        <4>2. Len(Chosen(s, I)) = Cardinality(I)
          BY <2>2, <3>4, ChosenType DEF s, n, I
        <4> QED BY <4>2 DEF n, I
      <3>6. Cardinality(1..Len(s)) = Len(s)
        BY <3>4, FS_Interval
      <3>7. Len(Chosen(s, DOMAIN s)) = 0
        BY <3>1, <3>3 DEF s
      <3> QED BY <3>4, <3>5, <3>6, <3>7
    <2>5. Len(all) \in Nat /\ Len(all) > 0
      BY <2>3, <2>4, LenProperties, EmptySeq
    <2> HIDE DEF all
    <2>6. /\ f \in Heaps /\ Unused(f) # {}
          /\ \A b \in Blocks : b # c.interfaces => f.blocks[b] = h.blocks[b]
          /\ c.interfaces # Null => ~f.blocks[c.interfaces].live
          /\ (internal \/ cli) => ~f.corrupt
      <3>1. CASE items = << >>
        <4>1. f = h /\ c.interfaces = Null /\ Unused(h) # {}
          BY <1>2, <2>1, <3>1, HeldNull, EntryParts DEF Apart
        <4> QED BY <1>2, <4>1 DEF Apart
      <3>2. CASE items # << >>
        <4>1. f = Freed(h, c.interfaces, internal)
          BY <3>2
        <4>2. c.interfaces \in Blocks /\ h.blocks[c.interfaces].live
          BY <1>2, <2>1, <3>2 DEF Apart, HeldBy
        <4>3. /\ f \in Heaps /\ f.blocks[c.interfaces] = Free
              /\ \A b \in Blocks : b # c.interfaces => f.blocks[b] = h.blocks[b]
              /\ (~h.corrupt /\ h.blocks[c.interfaces].live /\ h.blocks[c.interfaces].persistent = internal) => ~f.corrupt
          BY <1>2, <4>1, <4>2, FreedHeap
        <4>4. (internal \/ cli) => ~h.corrupt /\ h.blocks[c.interfaces].persistent = internal
          BY <1>2, <4>2 DEF Apart
        <4>5. ~f.blocks[c.interfaces].live
          BY <4>3, BlockFacts
        <4>6. c.interfaces \in Unused(f)
          BY <4>2, <4>5 DEF Unused
        <4> QED BY <4>2, <4>3, <4>4, <4>5, <4>6
      <3> QED BY <3>1, <3>2
    <2> HIDE DEF f
    <2>7. into \in Blocks /\ ~f.blocks[into].live
      BY <2>6, FreshFree
    <2>8. /\ grown \in Heaps /\ grown.corrupt = f.corrupt
          /\ grown.blocks[into].live /\ grown.blocks[into].persistent = internal
          /\ grown.blocks[into].items = all
          /\ \A b \in Blocks : b # into => grown.blocks[b] = f.blocks[b]
      BY <2>3, <2>6, AllocatedHeap
    <2> HIDE DEF into, grown
    <2> DEFINE q == c.trait_names
               n == c.num_traits
    <2>9. HeldBy(h, q, n) /\ n \in Nat /\ (q # Null => q \in Blocks /\ h.blocks[q].live /\ q # c.interfaces)
      BY <1>2, EntryParts, HeldNull DEF Apart, HeldBy
    <2>10. q # Null => q # into /\ grown.blocks[q] = h.blocks[q]
      BY <2>6, <2>7, <2>8, <2>9
    <2>11. HeldBy(grown, q, n)
      BY <2>9, <2>10, HeldNull DEF HeldBy
    <2>12. HeldBy(grown, into, Len(all))
      BY <2>5, <2>7, <2>8 DEF HeldBy
    <2>13. into # Null => into # q
      BY <2>10
    <2>14. ASSUME internal \/ cli
           PROVE  ~grown.corrupt /\ \A b \in Blocks : b \in {into, q} => grown.blocks[b].persistent = internal
      <3>1. q # Null => h.blocks[q].persistent = internal
        BY <1>2, <2>9, <2>14 DEF Apart
      <3> QED BY <2>6, <2>8, <2>9, <2>10, <2>14, <3>1, BlockFacts
    <2>15. ASSUME ~IsPersistent, NEW b \in Blocks, grown.blocks[b].live
           PROVE  b \in {into, q}
      <3>1. b # into => f.blocks[b].live
        BY <2>8, <2>15
      <3>2. b # into => b # c.interfaces
        BY <2>6, <3>1, BlockFacts
      <3>3. b # into => h.blocks[b].live
        BY <2>6, <3>1, <3>2
      <3> QED BY <1>2, <2>15, <3>2, <3>3 DEF Apart
    <2>16. Apart(grown, into, Len(all), q, n)
      BY <2>11, <2>12, <2>13, <2>14, <2>15 DEF Apart
    <2>17. more \in ClassEntries /\ more.interfaces = into /\ more.num_interfaces = Len(all) /\ more.resolved = TRUE
           /\ more.trait_names = q /\ more.num_traits = n
      BY <1>4, <2>5, <2>7 DEF ClassEntries
    <2>b. more.parent = p /\ more.function_table = methods
      BY <1>4, <1>a DEF ClassEntries
    <2> HIDE DEF more
    <2>c. Items(grown, into, Len(all)) = all
      <3>1. SubSeq(all, 1, Len(all)) = all
        BY <2>3, SubSeqFull
      <3> QED BY <2>5, <2>8, <3>1 DEF Items
    <2>d. Items(grown, q, n) = Items(h, q, n)
      <3>1. CASE n = 0
        BY <3>1 DEF Items
      <3>2. CASE n # 0
        <4>1. q # Null
          BY <2>9, <3>2, HeldNull
        <4>2. grown.blocks[q] = h.blocks[q]
          BY <2>10, <4>1
        <4> QED BY <3>2, <4>2 DEF Items
      <3> QED BY <3>1, <3>2
    <2>e. getTraitNames(more, grown) = getTraitNames(c, h) /\ getInterfaceNames(more, grown) = all
      BY <2>17, <2>c, <2>d DEF getTraitNames, getInterfaceNames
    <2>f. r.ce = more /\ r.heap = grown
      BY <1>1, <1>6
    <2> HIDE DEF q, n
    <2>18. (more.num_interfaces > 0) = TRUE
      BY <2>5, <2>17
    <2>19. Sound(more, grown)
      BY <2>8, <2>16, <2>17, <2>18 DEF Sound
    <2> QED BY <1>6, <1>b, <2>19, <2>a, <2>b, <2>e, <2>f
  <1> QED BY <1>5, <1>6

-----------------------------------------------------------------------------
(* The class as a whole.                                                   *)

\* While the class is there it and the heap fit each other, and the allocator
\* was not misled, at its end neither.
SurgeryInv ==
    /\ ClassTypeOK
    /\ phase # "ended" => Sound(ce, heap)
    /\ (internal \/ cli) => ~heap.corrupt

LEMMA SoundNext ==
    ASSUME Sound(ce', heap'), UNCHANGED <<internal, cli>>
    PROVE  Sound(ce, heap)'
  BY DEF Sound, Apart, HeldBy, IsPersistent

LEMMA UpTo1Type ==
    ASSUME NEW S, NEW s \in UpTo1(S)
    PROVE  s \in Seq(S)
  <1>1. \A x \in S : <<x>> \in Seq(S)
    OBVIOUS
  <1>2. << >> \in Seq(S)
    OBVIOUS
  <1> QED BY <1>1, <1>2 DEF UpTo1

LEMMA SurgeryInit == ASSUME ClassInit PROVE SurgeryInv
  <1>1. PICK own \in UpTo1(Interfaces), uses \in UpTo1(Traits), m \in UpTo1(Keys), p \in Parents \cup {Null} :
           Linked(own, uses, m, p)
    BY DEF ClassInit
  <1> DEFINE items == IF p = Null THEN own ELSE InterfacesOf[p] \o ToAdd(own, InterfacesOf[p])
             inherited == IF p = Null THEN << >> ELSE MethodsOf[p]
             declared == [i \in DOMAIN m |-> [key |-> m[i], val |-> Class]]
             table == Fold(Inheriting, EmptyTable(TableSize), declared \o inherited)
  <1>2. /\ ce = [interfaces |-> IF items = << >> THEN Null ELSE 1,
                 num_interfaces |-> Len(items),
                 trait_names |-> IF uses = << >> THEN Null ELSE 2,
                 num_traits |-> Len(uses),
                 resolved |-> items # << >>,
                 parent |-> p,
                 function_table |-> table]
        /\ heap = [corrupt |-> FALSE, blocks |-> [b \in Blocks |->
                      IF b = 1 /\ items # << >>
                      THEN [live |-> TRUE, persistent |-> internal, items |-> items]
                      ELSE IF b = 2 /\ uses # << >>
                      THEN [live |-> TRUE, persistent |-> internal, items |-> uses]
                      ELSE Free]]
    BY <1>1 DEF Linked
  <1>3. own \in Seq(Names) /\ uses \in Seq(Names)
    <2>1. own \in Seq(Interfaces) /\ uses \in Seq(Traits)
      BY UpTo1Type
    <2>2. Seq(Interfaces) \subseteq Seq(Names) /\ Seq(Traits) \subseteq Seq(Names)
      BY SeqDef DEF Names
    <2> QED BY <2>1, <2>2
  <1>4. items \in Seq(Names)
    <2>1. CASE p = Null
      BY <1>3, <2>1
    <2>2. CASE p # Null
      <3>1. InterfacesOf[p] \in Seq(Interfaces)
        BY <2>2, SurgeryAssumption
      <3>2. Seq(Interfaces) \subseteq Seq(Names)
        BY SeqDef DEF Names
      <3>3. InterfacesOf[p] \o ToAdd(own, InterfacesOf[p]) \in Seq(Names)
        BY <1>3, <3>1, <3>2, ChoiceTypes, ConcatProperties
      <3> QED BY <2>2, <3>3
    <2> QED BY <2>1, <2>2
  <1>5. table \in Tables
    <2>1. m \in Seq(Keys)
      BY UpTo1Type
    <2>2. Len(m) \in Nat /\ DOMAIN m = 1..Len(m) /\ \A i \in 1..Len(m) : m[i] \in Keys
      BY <2>1, LenProperties, ElementOfSeq
    <2>3. Class \in Vals
      BY SurgeryAssumption
    <2>4. declared \in [1..Len(m) -> Bucket]
      BY <2>2, <2>3 DEF Bucket
    <2> HIDE DEF declared
    <2>5. declared \in Seq(Bucket)
      BY <2>2, <2>4, SeqDef
    <2>6. inherited \in Seq(Bucket)
      BY SurgeryAssumption
    <2> HIDE DEF inherited
    <2>7. declared \o inherited \in Seq(Bucket)
      BY <2>5, <2>6, ConcatProperties
    <2>8. EmptyTable(TableSize) \in Tables
      BY SurgeryAssumption DEF EmptyTable, Tables
    <2> QED BY <2>7, <2>8, InheritingType
  <1> HIDE DEF items, table
  <1>6. /\ Len(items) \in Nat /\ (items = << >> <=> Len(items) = 0)
        /\ Len(uses) \in Nat /\ (uses = << >> <=> Len(uses) = 0)
    BY <1>3, <1>4, LenProperties, EmptySeq
  <1>7. internal \in BOOLEAN /\ cli \in BOOLEAN /\ tidy = TRUE /\ kept = TRUE /\ phase = "running"
    BY DEF ClassInit
  <1>8. /\ ce.interfaces = IF items = << >> THEN Null ELSE 1
        /\ ce.num_interfaces = Len(items)
        /\ ce.trait_names = IF uses = << >> THEN Null ELSE 2
        /\ ce.num_traits = Len(uses)
        /\ ce.resolved = (items # << >>)
    BY <1>2
  <1>9. ce \in ClassEntries
    <2>1. 1 \in Blocks /\ 2 \in Blocks
      BY BlockFacts
    <2>2. (items # << >>) \in BOOLEAN
      OBVIOUS
    <2> QED BY <1>2, <1>5, <1>6, <2>1, <2>2 DEF ClassEntries
  <1> DEFINE one == [live |-> TRUE, persistent |-> internal, items |-> items]
             two == [live |-> TRUE, persistent |-> internal, items |-> uses]
  <1>10. one \in Block /\ two \in Block
    BY <1>3, <1>4, <1>7 DEF Block
  <1>11. /\ one.live /\ one.persistent = internal /\ one.items = items
         /\ two.live /\ two.persistent = internal /\ two.items = uses
    OBVIOUS
  <1>12. /\ heap.corrupt = FALSE
         /\ heap = [corrupt |-> heap.corrupt, blocks |-> heap.blocks]
         /\ heap.blocks = [b \in Blocks |-> IF b = 1 /\ items # << >> THEN one
                                            ELSE IF b = 2 /\ uses # << >> THEN two ELSE Free]
    BY <1>2
  <1> HIDE DEF one, two
  <1>13. heap \in Heaps
    <2>1. heap.blocks \in [Blocks -> Block]
      BY <1>10, <1>12, BlockFacts
    <2> QED BY <1>12, <2>1 DEF Heaps
  <1>14. /\ items # << >> => heap.blocks[1] = one
         /\ uses # << >> => heap.blocks[2] = two
         /\ \A b \in Blocks : heap.blocks[b].live => (b = 1 /\ items # << >>) \/ (b = 2 /\ uses # << >>)
    BY <1>12, BlockFacts
  <1>15. HeldBy(heap, ce.interfaces, ce.num_interfaces) /\ HeldBy(heap, ce.trait_names, ce.num_traits)
    BY <1>6, <1>8, <1>11, <1>14, BlockFacts DEF HeldBy
  <1>16. ce.interfaces # Null => ce.interfaces # ce.trait_names
    BY <1>8
  <1>17. ASSUME NEW b \in Blocks, b \in {ce.interfaces, ce.trait_names}
         PROVE  heap.blocks[b].persistent = internal
    BY <1>8, <1>11, <1>14, <1>17, BlockFacts
  <1>18. ASSUME NEW b \in Blocks, heap.blocks[b].live
         PROVE  b \in {ce.interfaces, ce.trait_names}
    BY <1>8, <1>14, <1>18
  <1>19. Apart(heap, ce.interfaces, ce.num_interfaces, ce.trait_names, ce.num_traits)
    BY <1>12, <1>15, <1>16, <1>17, <1>18 DEF Apart
  <1>20. ce.resolved = (ce.num_interfaces > 0)
    <2>1. (items # << >>) <=> (Len(items) > 0)
      BY <1>6
    <2> QED BY <1>8, <2>1
  <1>21. Sound(ce, heap)
    BY <1>9, <1>13, <1>19, <1>20 DEF Sound
  <1> QED BY <1>7, <1>9, <1>12, <1>13, <1>21 DEF SurgeryInv, ClassTypeOK

\* An operation leaves both as they are, or puts sound ones in their place.
LEMMA OperationInv ==
    ASSUME SurgeryInv, phase = "running", UNCHANGED <<internal, cli>>,
           Sound(ce', heap'), phase' \in {"running", "fatal"},
           tidy' \in BOOLEAN, kept' \in BOOLEAN
    PROVE  SurgeryInv'
  <1>1. Sound(ce, heap)'
    BY SoundNext
  <1>2. ce' \in ClassEntries /\ heap' \in Heaps
    BY DEF Sound
  <1>3. (internal' \/ cli') => ~heap'.corrupt
    BY <1>1 DEF Sound, Apart
  <1> QED BY <1>1, <1>2, <1>3 DEF SurgeryInv, ClassTypeOK

LEMMA OtherSound ==
    ASSUME Sound(ce, heap), UNCHANGED <<ce, heap>>
    PROVE  Sound(ce', heap')
  OBVIOUS

LEMMA SequencesOfNames ==
    /\ \A S : \A names \in From1To2(S) : names \in Seq(S)
    /\ Seq(Traits) \subseteq Seq(Names) /\ Seq(Interfaces \cup {Unknown}) \subseteq Seq(Names)
  <1>1. ASSUME NEW S, NEW names \in From1To2(S) PROVE names \in Seq(S)
    <2>1. \A x \in S : <<x>> \in Seq(S)
      OBVIOUS
    <2>2. \A x, y \in S : <<x, y>> \in Seq(S)
      OBVIOUS
    <2>3. (\E x \in S : names = <<x>>) \/ (\E x, y \in S : names = <<x, y>>)
      <3>1. CASE names \in S \X S
        <4>1. names = <<names[1], names[2]>> /\ names[1] \in S /\ names[2] \in S
          BY <3>1
        <4> QED BY <4>1
      <3> QED BY <3>1 DEF From1To2
    <2> QED BY <2>1, <2>2, <2>3
  <1> QED BY <1>1, SeqDef DEF Names

LEMMA addTraitsInv ==
    ASSUME SurgeryInv, NEW names \in From1To2(Traits), addTraits(names)
    PROVE  SurgeryInv'
  <1> DEFINE available == getTraitNames(ce, heap)
             traitsToAdd == ToAdd(names, available)
             items == available \o traitsToAdd
  <1>1. /\ phase = "running" /\ Room(heap) /\ UNCHANGED <<internal, cli, phase>>
        /\ ce' = WithTraits(ce, heap, items).ce /\ heap' = WithTraits(ce, heap, items).heap
        /\ tidy' \in BOOLEAN /\ kept' \in BOOLEAN
    BY DEF addTraits, Running, Becomes, Promised
  <1>2. Sound(ce, heap) /\ internal \in BOOLEAN /\ cli \in BOOLEAN /\ Unused(heap) # {}
    BY <1>1 DEF SurgeryInv, ClassTypeOK, Room
  <1>3. items \in Seq(Names)
    BY <1>2, NamesHeld, SequencesOfNames, ChoiceTypes, ConcatProperties
  <1> HIDE DEF items
  <1>4. Sound(ce', heap')
    BY <1>1, <1>2, <1>3, WithTraitsSound
  <1> QED BY <1>1, <1>4, OperationInv

LEMMA removeTraitsInv ==
    ASSUME SurgeryInv, NEW S, removeTraits(S)
    PROVE  SurgeryInv'
  <1> DEFINE items == Without(getTraitNames(ce, heap), S)
  <1>1. /\ phase = "running" /\ Room(heap) /\ UNCHANGED <<internal, cli>>
        /\ phase' \in {"running", "fatal"}
        /\ \/ ce' = WithTraits(ce, heap, items).ce /\ heap' = WithTraits(ce, heap, items).heap
           \/ UNCHANGED <<ce, heap>>
        /\ tidy' = tidy /\ kept' \in BOOLEAN
    BY DEF removeTraits, Running, Becomes, Promised, Fatal
  <1>2. Sound(ce, heap) /\ internal \in BOOLEAN /\ cli \in BOOLEAN /\ tidy \in BOOLEAN /\ Unused(heap) # {}
    BY <1>1 DEF SurgeryInv, ClassTypeOK, Room
  <1>3. items \in Seq(Names)
    BY <1>2, NamesHeld, ChoiceTypes
  <1> HIDE DEF items
  <1>4. Sound(ce', heap')
    BY <1>1, <1>2, <1>3, WithTraitsSound, OtherSound
  <1> QED BY <1>1, <1>2, <1>4, OperationInv

LEMMA addInterfacesInv ==
    ASSUME SurgeryInv, NEW names \in From1To2(Interfaces \cup {Unknown}), addInterfaces(names)
    PROVE  SurgeryInv'
  <1> DEFINE available == getInterfaceNames(ce, heap)
             interfacesToAdd == ToAdd(names, available)
             items == available \o interfacesToAdd
  <1>1. /\ phase = "running" /\ Room(heap) /\ UNCHANGED <<internal, cli>>
        /\ phase' \in {"running", "fatal"}
        /\ \/ ce' = WithInterfaces(ce, heap, items).ce /\ heap' = WithInterfaces(ce, heap, items).heap
           \/ UNCHANGED <<ce, heap>>
        /\ tidy' \in BOOLEAN /\ kept' \in BOOLEAN
    BY DEF addInterfaces, Running, Becomes, Promised, Fatal
  <1>2. Sound(ce, heap) /\ internal \in BOOLEAN /\ cli \in BOOLEAN /\ Unused(heap) # {}
    BY <1>1 DEF SurgeryInv, ClassTypeOK, Room
  <1>3. items \in Seq(Names)
    BY <1>2, NamesHeld, SequencesOfNames, ChoiceTypes, ConcatProperties
  <1> HIDE DEF items
  <1>4. Sound(ce', heap')
    BY <1>1, <1>2, <1>3, WithInterfacesSound, OtherSound
  <1> QED BY <1>1, <1>4, OperationInv

LEMMA removeInterfacesInv ==
    ASSUME SurgeryInv, NEW S, removeInterfaces(S)
    PROVE  SurgeryInv'
  <1> DEFINE items == Without(getInterfaceNames(ce, heap), S)
  <1>1. /\ phase = "running" /\ Room(heap) /\ UNCHANGED <<internal, cli>>
        /\ phase' \in {"running", "fatal"}
        /\ \/ ce' = WithInterfaces(ce, heap, items).ce /\ heap' = WithInterfaces(ce, heap, items).heap
           \/ UNCHANGED <<ce, heap>>
        /\ tidy' = tidy /\ kept' \in BOOLEAN
    BY DEF removeInterfaces, Running, Becomes, Promised, Fatal
  <1>2. Sound(ce, heap) /\ internal \in BOOLEAN /\ cli \in BOOLEAN /\ tidy \in BOOLEAN /\ Unused(heap) # {}
    BY <1>1 DEF SurgeryInv, ClassTypeOK, Room
  <1>3. items \in Seq(Names)
    BY <1>2, NamesHeld, ChoiceTypes
  <1> HIDE DEF items
  <1>4. Sound(ce', heap')
    BY <1>1, <1>2, <1>3, WithInterfacesSound, OtherSound
  <1> QED BY <1>1, <1>2, <1>4, OperationInv

\* What is done to methods is of no concern to the arrays.
LEMMA TableSound ==
    ASSUME Sound(ce, heap), NEW t \in Tables, ce' = [ce EXCEPT !.function_table = t], heap' = heap
    PROVE  Sound(ce', heap')
  <1>1. ce \in ClassEntries
    BY DEF Sound
  <1>2. ce' \in ClassEntries /\ ce'.interfaces = ce.interfaces /\ ce'.num_interfaces = ce.num_interfaces
        /\ ce'.trait_names = ce.trait_names /\ ce'.num_traits = ce.num_traits /\ ce'.resolved = ce.resolved
    BY <1>1 DEF ClassEntries
  <1> QED BY <1>2 DEF Sound

LEMMA addMethodInv ==
    ASSUME SurgeryInv, NEW m \in Keys, addMethod(m)
    PROVE  SurgeryInv'
  <1>1. /\ phase = "running" /\ UNCHANGED <<internal, cli, phase, heap>>
        /\ ce' = [ce EXCEPT !.function_table = add(ce.function_table, m, Class)]
        /\ tidy' \in BOOLEAN /\ kept' \in BOOLEAN
    BY DEF addMethod, Running, Promised
  <1>2. Sound(ce, heap) /\ Class \in Vals
    BY <1>1, SurgeryAssumption DEF SurgeryInv
  <1>3. add(ce.function_table, m, Class) \in Tables
    BY <1>2, AddType, EntryParts DEF Sound
  <1>4. Sound(ce', heap')
    BY <1>1, <1>2, <1>3, TableSound
  <1> QED BY <1>1, <1>4, OperationInv

LEMMA removeMethodsInv ==
    ASSUME SurgeryInv, NEW names \in From1To2(Keys), removeMethods(names)
    PROVE  SurgeryInv'
  <1> DEFINE t == Fold(Deleting, [table |-> ce.function_table, failed |-> FALSE], names).table
  <1>1. /\ phase = "running" /\ UNCHANGED <<internal, cli, phase, heap, tidy>>
        /\ ce' = [ce EXCEPT !.function_table = t]
        /\ kept' \in BOOLEAN
    BY DEF removeMethods, Running, Promised
  <1>2. Sound(ce, heap) /\ tidy \in BOOLEAN
    BY <1>1 DEF SurgeryInv, ClassTypeOK
  <1>3. t \in Tables
    <2>1. names \in Seq(Keys)
      BY SequencesOfNames
    <2> QED BY <1>2, <2>1, DeletingType, EntryParts DEF Sound
  <1> HIDE DEF t
  <1>4. Sound(ce', heap')
    BY <1>1, <1>2, <1>3, TableSound
  <1> QED BY <1>1, <1>2, <1>4, OperationInv

LEMMA removeParentInv ==
    ASSUME SurgeryInv, removeParent
    PROVE  SurgeryInv'
  <1>1. /\ phase = "running" /\ Room(heap) /\ UNCHANGED <<internal, cli>>
        /\ phase' \in {"running", "fatal"}
        /\ \/ ce' = WithoutParent(ce, heap).ce /\ heap' = WithoutParent(ce, heap).heap
           \/ UNCHANGED <<ce, heap>>
        /\ tidy' \in BOOLEAN /\ kept' \in BOOLEAN
    BY DEF removeParent, Running, Becomes, Promised, Fatal
  <1>2. Sound(ce, heap) /\ internal \in BOOLEAN /\ cli \in BOOLEAN /\ Unused(heap) # {}
    BY <1>1 DEF SurgeryInv, ClassTypeOK, Room
  <1>3. Sound(ce', heap')
    BY <1>1, <1>2, WithoutParentSound, OtherSound
  <1> QED BY <1>1, <1>3, OperationInv

LEMMA newParentInv ==
    ASSUME SurgeryInv, NEW p, newParent(p)
    PROVE  SurgeryInv'
  <1> DEFINE alone == IF hasParent(ce) THEN WithoutParent(ce, heap) ELSE [ce |-> ce, heap |-> heap]
  <1>1. /\ phase = "running" /\ Room(heap) /\ UNCHANGED <<internal, cli>>
        /\ phase' \in {"running", "fatal"}
        /\ \/ /\ p \in Parents
              /\ ce' = Inherit(alone.ce, alone.heap, p).ce /\ heap' = Inherit(alone.ce, alone.heap, p).heap
           \/ ce' = alone.ce /\ heap' = alone.heap
           \/ UNCHANGED <<ce, heap>>
        /\ tidy' \in BOOLEAN /\ kept' \in BOOLEAN
    BY DEF newParent, Running, Becomes, Promised, Fatal
  <1>2. Sound(ce, heap) /\ internal \in BOOLEAN /\ cli \in BOOLEAN /\ Unused(heap) # {}
    BY <1>1 DEF SurgeryInv, ClassTypeOK, Room
  <1>3. Sound(alone.ce, alone.heap) /\ (alone.ce.num_interfaces = 0 => Unused(alone.heap) # {})
    <2>1. CASE hasParent(ce)
      <3>1. alone = WithoutParent(ce, heap)
        BY <2>1
      <3> HIDE DEF alone
      <3> QED BY <1>2, <3>1, WithoutParentSound
    <2>2. CASE ~hasParent(ce)
      <3>1. alone.ce = ce /\ alone.heap = heap
        BY <2>2
      <3> HIDE DEF alone
      <3> QED BY <1>2, <3>1
    <2> QED BY <2>1, <2>2
  <1> HIDE DEF alone
  <1>4. p \in Parents => Sound(Inherit(alone.ce, alone.heap, p).ce, Inherit(alone.ce, alone.heap, p).heap)
    BY <1>2, <1>3, InheritSound
  <1>5. Sound(ce', heap')
    BY <1>1, <1>2, <1>3, <1>4
  <1> QED BY <1>1, <1>5, OperationInv

LEMMA DestroyInv ==
    ASSUME SurgeryInv, DestroyClass
    PROVE  SurgeryInv'
  <1> DEFINE h == IF ce.num_traits > 0 THEN Freed(heap, ce.trait_names, internal) ELSE heap
             i == IF ce.num_interfaces > 0 THEN Freed(h, ce.interfaces, internal) ELSE h
             bad == i.corrupt \/ (ce.num_interfaces > 0 /\ ~ce.resolved)
  <1>1. /\ phase \in {"running", "fatal"} /\ phase' = "ended"
        /\ heap' = [i EXCEPT !.corrupt = bad]
        /\ UNCHANGED <<internal, cli, ce, tidy, kept>>
    BY DEF DestroyClass
  <1>2. Sound(ce, heap) /\ internal \in BOOLEAN /\ cli \in BOOLEAN
    BY <1>1 DEF SurgeryInv, ClassTypeOK
  <1>3. /\ heap \in Heaps /\ ce.num_interfaces \in Nat /\ ce.num_traits \in Nat
        /\ HeldBy(heap, ce.interfaces, ce.num_interfaces) /\ HeldBy(heap, ce.trait_names, ce.num_traits)
        /\ ce.interfaces # Null => ce.interfaces # ce.trait_names
        /\ ce.resolved = (ce.num_interfaces > 0)
        /\ (internal \/ cli) => ~heap.corrupt /\ \A b \in Blocks : b \in {ce.interfaces, ce.trait_names}
                                                    => heap.blocks[b].persistent = internal
    BY <1>2, EntryParts DEF Sound, Apart
  <1>4. /\ h \in Heaps /\ ((internal \/ cli) => ~h.corrupt)
        /\ \A b \in Blocks : b # ce.trait_names => h.blocks[b] = heap.blocks[b]
    <2>1. CASE ce.num_traits > 0
      <3>1. h = Freed(heap, ce.trait_names, internal)
        BY <2>1
      <3>2. ce.trait_names \in Blocks /\ heap.blocks[ce.trait_names].live
        BY <1>3, <2>1 DEF HeldBy
      <3>3. /\ h \in Heaps
            /\ \A c \in Blocks : c # ce.trait_names => h.blocks[c] = heap.blocks[c]
            /\ (~heap.corrupt /\ heap.blocks[ce.trait_names].live
                    /\ heap.blocks[ce.trait_names].persistent = internal) => ~h.corrupt
        BY <1>2, <1>3, <3>1, <3>2, FreedHeap
      <3> HIDE DEF h
      <3> QED BY <1>3, <3>2, <3>3
    <2>2. CASE ~(ce.num_traits > 0)
      BY <1>3, <2>2
    <2> QED BY <2>1, <2>2
  <1> HIDE DEF h
  <1>5. i \in Heaps /\ ((internal \/ cli) => ~i.corrupt)
    <2>1. CASE ce.num_interfaces > 0
      <3>1. i = Freed(h, ce.interfaces, internal)
        BY <2>1
      <3>2. ce.interfaces \in Blocks /\ heap.blocks[ce.interfaces].live /\ ce.interfaces # ce.trait_names
        BY <1>3, <2>1, BlockFacts DEF HeldBy
      <3>3. h.blocks[ce.interfaces] = heap.blocks[ce.interfaces]
        BY <1>4, <3>2
      <3>4. /\ i \in Heaps
            /\ (~h.corrupt /\ h.blocks[ce.interfaces].live
                    /\ h.blocks[ce.interfaces].persistent = internal) => ~i.corrupt
        BY <1>2, <1>4, <3>1, <3>2, FreedHeap
      <3> HIDE DEF i
      <3> QED BY <1>3, <1>4, <3>2, <3>3, <3>4
    <2>2. CASE ~(ce.num_interfaces > 0)
      BY <1>4, <2>2
    <2> QED BY <2>1, <2>2
  <1> HIDE DEF i
  <1>6. bad \in BOOLEAN /\ ((internal \/ cli) => ~bad)
    BY <1>3, <1>5
  <1> HIDE DEF bad
  <1>7. heap' \in Heaps /\ heap'.corrupt = bad
    BY <1>1, <1>5, <1>6 DEF Heaps
  <1>8. (internal' \/ cli') => ~heap'.corrupt
    BY <1>1, <1>6, <1>7
  <1>9. ClassTypeOK'
    BY <1>1, <1>7 DEF SurgeryInv, ClassTypeOK
  <1> QED BY <1>1, <1>8, <1>9 DEF SurgeryInv

LEMMA SurgeryStep == ASSUME SurgeryInv, [ClassNext]_class_vars PROVE SurgeryInv'
  <1>1. CASE NextRequest
    <2>1. /\ phase = "fatal" /\ phase' = "running" /\ UNCHANGED <<internal, cli, ce, heap, tidy, kept>>
      BY <1>1 DEF NextRequest
    <2>2. Sound(ce, heap)'
      BY <2>1, SoundNext DEF SurgeryInv
    <2> QED BY <2>1, <2>2 DEF SurgeryInv, ClassTypeOK
  <1>2. CASE UNCHANGED class_vars
    <2>1. UNCHANGED <<internal, cli, ce, heap, phase, tidy, kept>>
      BY <1>2 DEF class_vars
    <2>2. phase # "ended" => Sound(ce, heap)'
      BY <2>1, SoundNext DEF SurgeryInv
    <2> QED BY <2>1, <2>2 DEF SurgeryInv, ClassTypeOK
  <1>3. CASE ClassTerminated
    BY <1>2, <1>3 DEF ClassTerminated
  <1> QED BY <1>1, <1>2, <1>3, addTraitsInv, removeTraitsInv, addInterfacesInv, removeInterfacesInv,
             addMethodInv, removeMethodsInv, removeParentInv, newParentInv, DestroyInv DEF ClassNext

\* The class, its arrays and its memory are well typed.
THEOREM ClassTypeCorrect == ClassSpec => []ClassTypeOK
  <1>1. SurgeryInv => ClassTypeOK
    BY DEF SurgeryInv
  <1>2. SurgeryInv /\ [ClassNext]_class_vars => SurgeryInv'
    BY SurgeryStep
  <1> QED BY <1>1, <1>2, SurgeryInit, PTL DEF ClassSpec

\* Whatever is added and removed, and whatever fails, the arrays of interfaces
\* and of traits are in memory of their own that fits the counts beside them.
THEOREM ArraysFit == ClassSpec => []ArraysMatch
  <1>1. ASSUME SurgeryInv PROVE ArraysMatch
    <2> SUFFICES ASSUME phase # "ended"
                 PROVE  /\ Holds(ce.interfaces, ce.num_interfaces)
                        /\ Holds(ce.trait_names, ce.num_traits)
                        /\ ce.interfaces # Null => ce.interfaces # ce.trait_names
      BY DEF ArraysMatch
    <2>1. HeldBy(heap, ce.interfaces, ce.num_interfaces) /\ HeldBy(heap, ce.trait_names, ce.num_traits)
          /\ (ce.interfaces # Null => ce.interfaces # ce.trait_names)
      BY <1>1 DEF SurgeryInv, Sound, Apart
    <2> QED BY <2>1, BlockFacts DEF HeldBy, Holds
  <1>2. SurgeryInv /\ [ClassNext]_class_vars => SurgeryInv'
    BY SurgeryStep
  <1> QED BY <1>1, <1>2, SurgeryInit, PTL DEF ClassSpec

\* In the CLI and for classes of the engine, what is freed is live and from the
\* allocator that frees it, by the library and by the engine at the end.
THEOREM FreedRight == ClassSpec => []FreedAsAllocated
  <1>1. SurgeryInv => FreedAsAllocated
    BY DEF SurgeryInv, FreedAsAllocated
  <1>2. SurgeryInv /\ [ClassNext]_class_vars => SurgeryInv'
    BY SurgeryStep
  <1> QED BY <1>1, <1>2, SurgeryInit, PTL DEF ClassSpec

\* In the CLI the only arrays left of a class of the program are those in use.
THEOREM NothingLeaks == ClassSpec => []NoLeaks
  <1>1. ASSUME SurgeryInv PROVE NoLeaks
    BY <1>1 DEF SurgeryInv, Sound, Apart, NoLeaks
  <1>2. SurgeryInv /\ [ClassNext]_class_vars => SurgeryInv'
    BY SurgeryStep
  <1> QED BY <1>1, <1>2, SurgeryInit, PTL DEF ClassSpec

-----------------------------------------------------------------------------
(* What the operations do to sets of names.                                *)

LEMMA ChosenRange ==
    ASSUME NEW s, NEW I, Positions(I)
    PROVE  Range(Chosen(s, I)) = {s[i] : i \in I}
  <1> DEFINE c == Chosen(s, I)
             N == Cardinality(I)
  <1>4. DOMAIN c = 1..N
    BY ChosenDomain
  <1>5. ASSUME NEW i \in I PROVE Rank(I, i) \in 1..N /\ c[Rank(I, i)] = s[i]
    BY ChosenPlace
  <1>6. \A k \in DOMAIN c : \E i \in I : c[k] = s[i]
    BY ChosenFrom
  <1> HIDE DEF c, N
  <1>7. Range(c) = {c[k] : k \in 1..N}
    BY <1>4 DEF Range
  <1> QED BY <1>4, <1>5, <1>6, <1>7 DEF c

\* No item comes twice if it comes once among the chosen.
LEMMA ChosenOnce ==
    ASSUME NEW s, NEW I, Positions(I), \A i, j \in I : s[i] = s[j] => i = j
    PROVE  ~Repeats(Chosen(s, I))
  <1> DEFINE c == Chosen(s, I)
             N == Cardinality(I)
  <1>4. DOMAIN c = 1..N
    BY ChosenDomain
  <1>6. \A k \in DOMAIN c : \E i \in I : k = Rank(I, i) /\ c[k] = s[i]
    BY ChosenFrom
  <1> HIDE DEF c, N
  <1>7. ASSUME NEW k \in 1..N, NEW l \in 1..N, c[k] = c[l] PROVE k = l
    <2>1. PICK i \in I : k = Rank(I, i) /\ c[k] = s[i]
      BY <1>4, <1>6
    <2>2. PICK j \in I : l = Rank(I, j) /\ c[l] = s[j]
      BY <1>4, <1>6
    <2>3. i = j
      BY <1>7, <2>1, <2>2
    <2> QED BY <2>1, <2>2, <2>3
  <1>8. ~Repeats(c)
    BY <1>4, <1>7 DEF Repeats
  <1> QED BY <1>8 DEF c

LEMMA ConcatRange ==
    ASSUME NEW S, NEW s \in Seq(S), NEW t \in Seq(S)
    PROVE  /\ Range(s \o t) = Range(s) \cup Range(t)
           /\ (~Repeats(s) /\ ~Repeats(t) /\ Range(s) \cap Range(t) = {}) => ~Repeats(s \o t)
  <1> DEFINE m == Len(s)
             n == Len(t)
             u == s \o t
  <1>1. m \in Nat /\ n \in Nat /\ DOMAIN s = 1..m /\ DOMAIN t = 1..n
    BY LenProperties
  <1>2. u \in Seq(S) /\ Len(u) = m + n /\ \A i \in 1..(m + n) : u[i] = IF i <= m THEN s[i] ELSE t[i - m]
    BY ConcatProperties
  <1>3. DOMAIN u = 1..(m + n)
    BY <1>2, LenProperties
  <1> HIDE DEF m, n, u
  <1>4. \A i \in 1..m : i \in 1..(m + n) /\ i <= m
    BY <1>1
  <1>5. \A i \in 1..m : i \in 1..(m + n) /\ u[i] = s[i]
    BY <1>2, <1>4
  <1>6. ASSUME NEW j \in 1..n PROVE m + j \in 1..(m + n) /\ u[m + j] = t[j]
    <2>1. m + j \in 1..(m + n) /\ ~(m + j <= m) /\ (m + j) - m = j
      BY <1>1
    <2> QED BY <1>2, <2>1
  <1>7. ASSUME NEW i \in 1..(m + n)
        PROVE  (i \in 1..m /\ u[i] = s[i]) \/ (i - m \in 1..n /\ u[i] = t[i - m] /\ i = m + (i - m))
    <2>1. CASE i <= m
      BY <1>1, <1>2, <2>1
    <2>2. CASE ~(i <= m)
      <3>1. i - m \in 1..n /\ i = m + (i - m)
        BY <1>1, <2>2
      <3> QED BY <1>2, <2>2, <3>1
    <2> QED BY <2>1, <2>2
  <1>8. Range(u) = Range(s) \cup Range(t)
    <2>1. Range(u) = {u[i] : i \in 1..(m + n)} /\ Range(s) = {s[i] : i \in 1..m} /\ Range(t) = {t[i] : i \in 1..n}
      BY <1>1, <1>3 DEF Range
    <2>2. \A x \in Range(s) : x \in Range(u)
      BY <1>5, <2>1
    <2>3. \A x \in Range(t) : x \in Range(u)
      BY <1>6, <2>1
    <2>4. \A x \in Range(u) : x \in Range(s) \cup Range(t)
      BY <1>7, <2>1
    <2> QED BY <2>2, <2>3, <2>4
  <1>9. ASSUME ~Repeats(s), ~Repeats(t), Range(s) \cap Range(t) = {} PROVE ~Repeats(u)
    <2> SUFFICES ASSUME NEW i \in 1..(m + n), NEW j \in 1..(m + n), u[i] = u[j] PROVE i = j
      BY <1>3 DEF Repeats
    <2>1. \A k, l \in 1..m : s[k] = s[l] => k = l
      BY <1>1, <1>9 DEF Repeats
    <2>2. \A k, l \in 1..n : t[k] = t[l] => k = l
      BY <1>1, <1>9 DEF Repeats
    <2>3. \A k \in 1..m, l \in 1..n : s[k] # t[l]
      BY <1>1, <1>9 DEF Range
    <2>4. CASE i \in 1..m /\ u[i] = s[i]
      BY <1>7, <2>1, <2>3, <2>4
    <2>5. CASE i - m \in 1..n /\ u[i] = t[i - m] /\ i = m + (i - m)
      <3>1. ~(j \in 1..m /\ u[j] = s[j])
        BY <2>3, <2>5
      <3>2. j - m \in 1..n /\ u[j] = t[j - m] /\ j = m + (j - m)
        BY <1>7, <3>1
      <3>3. i - m = j - m
        BY <2>2, <2>5, <3>2
      <3> QED BY <2>5, <3>2, <3>3
    <2> QED BY <1>7, <2>4, <2>5
  <1> QED BY <1>8, <1>9 DEF u

\* Adding what is not there yet.
LEMMA ToAddRange ==
    ASSUME NEW s \in Seq(Names), NEW t \in Seq(Names)
    PROVE  /\ Range(t \o ToAdd(s, t)) = Range(t) \cup Range(s)
           /\ Range(ToAdd(s, t)) = Range(s) \ Range(t)
           /\ ~Repeats(s) => ~Repeats(ToAdd(s, t))
           /\ (~Repeats(t) /\ ~Repeats(ToAdd(s, t))) => ~Repeats(t \o ToAdd(s, t))
  <1> DEFINE I == {i \in DOMAIN s : s[i] \notin Range(t)}
             a == ToAdd(s, t)
  <1>1. a = Chosen(s, I)
    BY DEF ToAdd
  <1>2. I \in SUBSET DOMAIN s
    OBVIOUS
  <1>3. {s[i] : i \in I} = Range(s) \ Range(t)
    BY DEF Range
  <1>4. ~Repeats(s) => \A i, j \in I : s[i] = s[j] => i = j
    BY DEF Repeats
  <1>a. Positions(I)
    <2>1. Len(s) \in Nat /\ DOMAIN s = 1..Len(s)
      BY LenProperties
    <2>2. I \in SUBSET (1..Len(s))
      BY <2>1
    <2> HIDE DEF I
    <2> QED BY <2>1, <2>2 DEF Positions
  <1> HIDE DEF I, a
  <1>5. a \in Seq(Names) /\ Range(a) = Range(s) \ Range(t)
    BY <1>1, <1>2, <1>3, <1>a, ChosenRange, ChosenType
  <1>6. ~Repeats(s) => ~Repeats(a)
    BY <1>1, <1>4, <1>a, ChosenOnce
  <1>7. Range(t \o a) = Range(t) \cup Range(a)
    BY <1>5, ConcatRange
  <1>8. (~Repeats(t) /\ ~Repeats(a)) => ~Repeats(t \o a)
    <2>1. Range(t) \cap Range(a) = {}
      BY <1>5
    <2> QED BY <1>5, <2>1, ConcatRange
  <1>9. Range(t \o a) = Range(t) \cup Range(s)
    BY <1>5, <1>7
  <1> QED BY <1>5, <1>6, <1>8, <1>9 DEF a

\* Taking away what is there once.
LEMMA WithoutRange ==
    ASSUME NEW s \in Seq(Names), ~Repeats(s), NEW S \in SUBSET Range(s)
    PROVE  Range(Without(s, S)) = Range(s) \ S /\ ~Repeats(Without(s, S))
  <1> DEFINE at(n) == {i \in DOMAIN s : s[i] = n}
             found == {Min(at(n)) : n \in S}
             I == DOMAIN s \ found
  <1>1. Without(s, S) = Chosen(s, I)
    BY DEF Without
  <1>2. Len(s) \in Nat /\ DOMAIN s = 1..Len(s)
    BY LenProperties
  <1>3. ASSUME NEW n \in S PROVE Min(at(n)) \in DOMAIN s /\ s[Min(at(n))] = n
    <2>1. PICK i \in DOMAIN s : s[i] = n
      BY DEF Range
    <2>2. at(n) \in SUBSET Nat /\ at(n) # {}
      BY <1>2, <2>1
    <2>3. \E x \in at(n) : \A y \in at(n) : x <= y
      <3> HIDE DEF at
      <3> QED BY <2>2, Smallest
    <2>4. Min(at(n)) \in at(n)
      <3> HIDE DEF at
      <3> QED BY <2>3 DEF Min
    <2> QED BY <2>4
  <1>4. ASSUME NEW i \in DOMAIN s PROVE i \in found <=> s[i] \in S
    <2>1. ASSUME s[i] \in S PROVE i \in found
      <3>1. Min(at(s[i])) = i
        BY <1>3, <2>1 DEF Repeats
      <3> QED BY <2>1, <3>1
    <2>2. ASSUME i \in found PROVE s[i] \in S
      BY <1>3, <2>2
    <2> QED BY <2>1, <2>2
  <1> HIDE DEF found
  <1>5. I \in SUBSET DOMAIN s /\ {s[i] : i \in I} = Range(s) \ S
    BY <1>4 DEF Range
  <1>6. \A i, j \in I : s[i] = s[j] => i = j
    BY DEF Repeats
  <1>a. Positions(I)
    <2>1. I \in SUBSET (1..Len(s))
      BY <1>2
    <2> HIDE DEF I
    <2> QED BY <1>2, <2>1 DEF Positions
  <1> HIDE DEF I
  <1> QED BY <1>1, <1>5, <1>6, <1>a, ChosenRange, ChosenOnce

-----------------------------------------------------------------------------
(* What a table holds.                                                     *)

\* No two live buckets have the same key.
Unique(t) == \A i, j \in Elements(t) : t.arData[i].key = t.arData[j].key => i = j

Pairs(t) == {t.arData[i] : i \in Elements(t)}
KeysOf(t) == {b.key : b \in Pairs(t)}

LEMMA PairsFacts ==
    ASSUME NEW t \in Tables, Unique(t)
    PROVE  /\ Pairs(t) \in SUBSET Bucket /\ KeysOf(t) \in SUBSET Keys
           /\ \A b, c \in Pairs(t) : b.key = c.key => b = c
  BY TableParts DEF Pairs, KeysOf, Unique, Bucket

LEMMA FindFacts ==
    ASSUME NEW t \in Tables, Unique(t)
    PROVE  /\ \A k : find(t, k) # Undef <=> k \in KeysOf(t)
           /\ \A b \in Pairs(t) : find(t, b.key) = b.val
  <1>1. /\ Len(t.arData) \in Nat /\ Elements(t) \in SUBSET (1..Len(t.arData))
        /\ \A i \in Elements(t) : t.arData[i] \in Bucket
    BY TableParts
  <1>2. ASSUME NEW k, Holding(t, k) # {} PROVE Max(Holding(t, k)) \in Holding(t, k)
    <2>1. Holding(t, k) \in SUBSET (0..Len(t.arData))
      BY <1>1 DEF Holding
    <2> QED BY <1>1, <1>2, <2>1, MaxOf
  <1>3. \A k : Holding(t, k) # {} <=> k \in KeysOf(t)
    BY DEF Holding, KeysOf, Pairs
  <1>4. ASSUME NEW k, Holding(t, k) # {} PROVE find(t, k) \in Vals
    <2>1. t.arData[Max(Holding(t, k))] \in Bucket
      BY <1>1, <1>2, <1>4 DEF Holding
    <2> QED BY <1>4, <2>1 DEF find, Bucket
  <1>5. \A k : find(t, k) # Undef <=> k \in KeysOf(t)
    BY <1>3, <1>4, UndefAssumption DEF find
  <1>6. ASSUME NEW b \in Pairs(t) PROVE find(t, b.key) = b.val
    <2>1. PICK i \in Elements(t) : b = t.arData[i]
      BY DEF Pairs
    <2>2. i \in Holding(t, b.key)
      BY <2>1 DEF Holding
    <2>3. Max(Holding(t, b.key)) \in Holding(t, b.key)
      BY <1>2, <2>2
    <2>4. Max(Holding(t, b.key)) = i
      BY <2>1, <2>3 DEF Holding, Unique
    <2> QED BY <2>1, <2>2, <2>4 DEF find
  <1> QED BY <1>5, <1>6

\* A function that agrees with the table on every pair is what Lookup makes of it.
LEMMA LookupIs ==
    ASSUME NEW t \in Tables, Unique(t), NEW F, F = [k \in DOMAIN F |-> F[k]],
           DOMAIN F = KeysOf(t), \A b \in Pairs(t) : F[b.key] = b.val
    PROVE  Lookup(t) = F
  <1>1. {k \in Keys : find(t, k) # Undef} = KeysOf(t)
    BY FindFacts, PairsFacts
  <1>2. Lookup(t) = [m \in KeysOf(t) |-> find(t, m)]
    BY <1>1 DEF Lookup
  <1>3. \A m \in KeysOf(t) : F[m] = find(t, m)
    BY FindFacts DEF KeysOf
  <1> QED BY <1>2, <1>3

LEMMA LookupFacts ==
    ASSUME NEW t \in Tables, Unique(t)
    PROVE  /\ DOMAIN Lookup(t) = KeysOf(t)
           /\ \A b \in Pairs(t) : Lookup(t)[b.key] = b.val
           /\ Lookup(t) = [k \in KeysOf(t) |-> Lookup(t)[k]]
  <1>1. {k \in Keys : find(t, k) # Undef} = KeysOf(t)
    BY FindFacts, PairsFacts
  <1>2. Lookup(t) = [m \in KeysOf(t) |-> find(t, m)]
    BY <1>1 DEF Lookup
  <1>3. \A b \in Pairs(t) : b.key \in KeysOf(t) /\ find(t, b.key) = b.val
    BY FindFacts DEF KeysOf
  <1> QED BY <1>2, <1>3

\* Adding a key that is not there, also when the table is compacted first.
LEMMA AddPairs ==
    ASSUME NEW t \in Tables, Unique(t), NEW k \in Keys, NEW x \in Vals, k \notin KeysOf(t)
    PROVE  /\ Unique(add(t, k, x))
           /\ Pairs(add(t, k, x)) = Pairs(t) \cup {[key |-> k, val |-> x]}
  <1> DEFINE d == t.arData
             I == Elements(t)
             full == nNumUsed(t) >= t.nTableSize
             left == IF full THEN Chosen(d, I) ELSE d
             size == IF full /\ Len(left) = nNumUsed(t) THEN 2 * t.nTableSize ELSE t.nTableSize
             b == [key |-> k, val |-> x]
             L(s) == {i \in DOMAIN s : Live(s[i])}
             r == add(t, k, x)
  <1>1. r.arData = Append(left, b)
    BY DEF add
  <1>2. d \in Seq(Bucket \cup {Undef}) /\ Positions(I) /\ \A i \in I : d[i] \in Bucket
    BY TableParts
  <1>3. I = L(d) /\ Elements(r) = L(Append(left, b))
    BY <1>1 DEF Elements
  <1>4. \A c \in Bucket : Live(c)
    BY UndefAssumption DEF Live
  <1>5. Chosen(d, I) \in Seq(Bucket)
    BY <1>2, ChosenItems
  <1>6. L(Chosen(d, I)) = DOMAIN Chosen(d, I)
    <2> DEFINE c == Chosen(d, I)
    <2>1. \A i \in DOMAIN c : c[i] \in Bucket
      <3>1. c \in Seq(Bucket)
        BY <1>5
      <3> HIDE DEF c
      <3> QED BY <3>1, LenProperties, ElementOfSeq
    <2> QED BY <1>4, <2>1
  <1>7. {left[i] : i \in L(left)} = Pairs(t)
    <2>1. CASE full
      <3>1. {Chosen(d, I)[i] : i \in DOMAIN Chosen(d, I)} = {d[i] : i \in I}
        BY <1>2, ChosenRange DEF Range
      <3> QED BY <1>6, <2>1, <3>1 DEF Pairs
    <2>2. CASE ~full
      BY <1>3, <2>2 DEF Pairs
    <2> QED BY <2>1, <2>2
  <1>8. \A i, j \in L(left) : left[i].key = left[j].key => i = j
    <2>1. CASE full
      <3>1. \A i \in DOMAIN Chosen(d, I) : \E l \in I : i = Rank(I, l) /\ Chosen(d, I)[i] = d[l]
        BY <1>2, ChosenFrom
      <3>2. \A l, m \in I : d[l].key = d[m].key => l = m
        BY DEF Unique
      <3>3. ASSUME NEW i \in DOMAIN Chosen(d, I), NEW j \in DOMAIN Chosen(d, I),
                   Chosen(d, I)[i].key = Chosen(d, I)[j].key
            PROVE  i = j
        BY <3>1, <3>2, <3>3
      <3> QED BY <1>6, <2>1, <3>3
    <2>2. CASE ~full
      BY <1>3, <2>2 DEF Unique
    <2> QED BY <2>1, <2>2
  <1>9. left \in Seq(Bucket \cup {Undef})
    <2>1. Seq(Bucket) \subseteq Seq(Bucket \cup {Undef})
      BY SeqDef
    <2> QED BY <1>2, <1>5, <2>1
  <1> HIDE DEF left, full, size
  <1> DEFINE n == Len(left)
             a == Append(left, b)
  <1>10. n \in Nat /\ DOMAIN left = 1..n
    BY <1>9, LenProperties
  <1>11. b \in Bucket
    BY DEF Bucket
  <1>12. DOMAIN a = 1..(n + 1) /\ a[n + 1] = b /\ \A i \in 1..n : a[i] = left[i]
    <2>1. b \in Bucket \cup {Undef}
      BY <1>11
    <2>2. Len(a) = n + 1 /\ a \in Seq(Bucket \cup {Undef})
      BY <1>9, <2>1, AppendProperties
    <2>3. DOMAIN a = 1..Len(a)
      BY <2>2, LenProperties
    <2> QED BY <1>9, <2>1, <2>2, <2>3, AppendProperties
  <1> HIDE DEF a
  <1>13. L(a) = L(left) \cup {n + 1} /\ \A i \in L(left) : a[i] = left[i] /\ i # n + 1
    <2>1. 1..(n + 1) = 1..n \cup {n + 1} /\ \A i \in 1..n : i # n + 1
      BY <1>10
    <2>2. Live(b)
      BY <1>4, <1>11
    <2> HIDE DEF n, b
    <2> QED BY <1>10, <1>12, <2>1, <2>2
  <1>14. r.arData = a /\ Elements(r) = L(a)
    BY <1>1, <1>3 DEF a
  <1>15. \A i \in L(left) : left[i].key # k
    BY <1>7 DEF KeysOf
  <1>16. b.key = k
    OBVIOUS
  <1> HIDE DEF L, b, n, r
  <1>17. Unique(r)
    BY <1>8, <1>12, <1>13, <1>14, <1>15, <1>16 DEF Unique
  <1>18. Pairs(r) = Pairs(t) \cup {b}
    BY <1>7, <1>12, <1>13, <1>14 DEF Pairs
  <1> QED BY <1>17, <1>18 DEF r, b

LEMMA DeletePairs ==
    ASSUME NEW t \in Tables, Unique(t), NEW k \in KeysOf(t)
    PROVE  /\ Unique(delete(t, k))
           /\ Pairs(delete(t, k)) = {b \in Pairs(t) : b.key # k}
  <1> DEFINE d == t.arData
             m == Max(Holding(t, k))
             marked == [d EXCEPT ![m] = Undef]
             H == {0} \cup {i \in DOMAIN marked : Live(marked[i])}
             last == Max(H)
             n == Len(d)
             s == SubSeq(marked, 1, last)
             r == delete(t, k)
  <1>1. /\ n \in Nat /\ DOMAIN d = 1..n /\ Elements(t) \in SUBSET (1..n)
        /\ d \in Seq(Bucket \cup {Undef})
    BY TableParts
  <1>2. r = [t EXCEPT !.arData = s]
    BY DEF delete
  <1>3. r.arData = s
    <2>1. \A v : [t EXCEPT !.arData = v] = [arData |-> v, nTableSize |-> t.nTableSize]
      BY DEF Tables
    <2> HIDE DEF s, r
    <2> QED BY <1>2, <2>1
  <1>4. m \in Elements(t) /\ d[m].key = k
    <2>1. Holding(t, k) # {}
      BY DEF Holding, KeysOf, Pairs
    <2>2. Holding(t, k) \in SUBSET (0..n)
      BY <1>1 DEF Holding
    <2>3. m \in Holding(t, k)
      <3> HIDE DEF n
      <3> QED BY <1>1, <2>1, <2>2, MaxOf
    <2> QED BY <2>3 DEF Holding
  <1> HIDE DEF m
  <1>5. DOMAIN marked = 1..n /\ marked[m] = Undef /\ \A i \in 1..n : i # m => marked[i] = d[i]
    BY <1>1, <1>4
  <1> HIDE DEF marked
  <1>6. H \in SUBSET (0..n) /\ H # {}
    BY <1>1, <1>5
  <1>7. last \in 0..n /\ \A i \in H : i <= last
    <2> HIDE DEF H
    <2> QED BY <1>1, <1>6, MaxOf
  <1>8. \A i \in 1..n : Live(marked[i]) => i \in 1..last
    BY <1>1, <1>5, <1>7
  <1> HIDE DEF last, H
  <1>9. DOMAIN s = 1..last /\ \A i \in 1..last : i \in 1..n /\ s[i] = marked[i]
    <2>1. last \in Nat /\ 1..last \subseteq 1..n
      BY <1>1, <1>7
    <2>2. \A i \in 1..n : marked[i] \in Bucket \cup {Undef}
      <3>1. \A i \in 1..n : d[i] \in Bucket \cup {Undef}
        BY <1>1, ElementOfSeq
      <3> QED BY <1>5, <3>1
    <2>3. marked \in Seq(Bucket \cup {Undef}) /\ Len(marked) = n
      <3>1. marked \in [1..n -> Bucket \cup {Undef}]
        <4>1. marked = [i \in 1..n |-> marked[i]]
          BY <1>1, <1>5 DEF marked
        <4> QED BY <2>2, <4>1
      <3>2. marked \in Seq(Bucket \cup {Undef})
        BY <1>1, <3>1, SeqDef
      <3> QED BY <1>1, <1>5, <3>2, LenProperties
    <2> HIDE DEF n
    <2> QED BY <1>1, <1>7, <2>1, <2>3
  <1>10. Elements(r) = Elements(t) \ {m} /\ \A i \in Elements(r) : r.arData[i] = d[i]
    <2>1. Elements(r) = {i \in DOMAIN s : Live(s[i])}
      BY <1>3 DEF Elements
    <2>2. Elements(t) = {i \in 1..n : Live(d[i])}
      BY <1>1 DEF Elements
    <2>3. ~Live(Undef)
      BY DEF Live
    <2> HIDE DEF s, r, n, d
    <2>4. Elements(r) = Elements(t) \ {m}
      BY <1>5, <1>8, <1>9, <2>1, <2>2, <2>3
    <2>5. \A i \in Elements(r) : i \in 1..last /\ i # m
      BY <1>9, <2>1, <2>4
    <2> QED BY <1>3, <1>5, <1>9, <2>4, <2>5
  <1> HIDE DEF r, s
  <1>11. Unique(r)
    BY <1>10 DEF Unique
  <1>12. \A i \in Elements(t) : d[i].key = k <=> i = m
    BY <1>4 DEF Unique
  <1>13. Pairs(r) = {b \in Pairs(t) : b.key # k}
    BY <1>10, <1>12 DEF Pairs
  <1> QED BY <1>11, <1>13 DEF r

-----------------------------------------------------------------------------
(* What a fold leaves in a table.                                          *)

\* If f leads from each of the sets J[0], J[1], ... to the next, Fold ends in the last.
LEMMA FoldSteps ==
    ASSUME NEW f, NEW x, NEW s, Len(s) \in Nat, NEW J, x \in J[0],
           \A i \in 1..Len(s) : \A a \in J[i - 1] : f[<<a, s[i]>>] \in J[i]
    PROVE  Fold(f, x, s) \in J[Len(s)]
  <1> DEFINE n == Len(s)
  <1>1. PICK a : Runs(f, x, s, n, a) /\ Fold(f, x, s) = a[n]
    BY FoldRuns
  <1> HIDE DEF n
  <1> DEFINE Bad == {m \in 0..n : a[m] \notin J[m]}
  <1>2. n \in Nat
    BY DEF n
  <1>3. Bad = {}
    <2> SUFFICES ASSUME Bad # {} PROVE FALSE
      OBVIOUS
    <2>1. Bad \in SUBSET Nat
      BY <1>2
    <2>2. PICK m \in Bad : \A e \in Bad : m <= e
      BY <2>1, Smallest
    <2>3. m \in 0..n /\ m # 0
      BY <1>1 DEF Runs
    <2>4. m \in 1..n /\ m - 1 \in 0..n /\ ~(m <= m - 1)
      BY <1>2, <2>3
    <2>5. a[m - 1] \in J[m - 1]
      BY <2>2, <2>4
    <2>6. a[m] = f[<<a[m - 1], s[m]>>]
      BY <1>1, <2>4 DEF Runs
    <2>7. a[m] \in J[m]
      BY <2>4, <2>5, <2>6 DEF n
    <2> QED BY <2>7
  <1>4. n \in 0..n
    BY <1>2
  <1> QED BY <1>1, <1>3, <1>4 DEF n

LEMMA FoldOnce ==
    ASSUME NEW f, NEW x, NEW y
    PROVE  Fold(f, x, <<y>>) = f[<<x, y>>]
  <1> DEFINE s == <<y>>
  <1>1. Len(s) = 1 /\ s[1] = y
    OBVIOUS
  <1> HIDE DEF s
  <1>a. Len(s) \in Nat
    BY <1>1
  <1>b. PICK a : Runs(f, x, s, Len(s), a) /\ Fold(f, x, s) = a[Len(s)]
    BY <1>a, FoldRuns
  <1>2. Runs(f, x, s, 1, a) /\ Fold(f, x, s) = a[1]
    BY <1>1, <1>b
  <1>3. 1 \in 1..1 /\ 1 - 1 = 0
    OBVIOUS
  <1>4. a[1] = f[<<a[0], s[1]>>] /\ a[0] = x
    BY <1>2, <1>3 DEF Runs
  <1> QED BY <1>1, <1>2, <1>4 DEF s

LEMMA FoldTwice ==
    ASSUME NEW f, NEW x, NEW y, NEW z
    PROVE  Fold(f, x, <<y, z>>) = f[<<f[<<x, y>>], z>>]
  <1> DEFINE s == <<y, z>>
  <1>1. Len(s) = 2 /\ s[1] = y /\ s[2] = z
    OBVIOUS
  <1> HIDE DEF s
  <1>a. Len(s) \in Nat
    BY <1>1
  <1>b. PICK a : Runs(f, x, s, Len(s), a) /\ Fold(f, x, s) = a[Len(s)]
    BY <1>a, FoldRuns
  <1>2. Runs(f, x, s, 2, a) /\ Fold(f, x, s) = a[2]
    BY <1>1, <1>b
  <1>3. 1 \in 1..2 /\ 1 - 1 = 0 /\ 2 \in 1..2 /\ 2 - 1 = 1
    OBVIOUS
  <1>4. a[1] = f[<<a[0], s[1]>>] /\ a[0] = x /\ a[2] = f[<<a[1], s[2]>>]
    BY <1>2, <1>3 DEF Runs
  <1> QED BY <1>1, <1>2, <1>4 DEF s

LEMMA RemovingPairs ==
    ASSUME NEW t \in Tables, Unique(t), NEW s \in Seq(Bucket), ~Repeats(s), Range(s) \subseteq Pairs(t)
    PROVE  /\ Unique(Fold(Removing, t, s))
           /\ Pairs(Fold(Removing, t, s)) = Pairs(t) \ Range(s)
  <1> DEFINE n == Len(s)
             J == [i \in 0..n |-> {a \in Tables : Unique(a) /\ Pairs(a) = Pairs(t) \ {s[j] : j \in 1..i}}]
  <1>1. n \in Nat /\ DOMAIN s = 1..n /\ \A i \in 1..n : s[i] \in Bucket
    BY LenProperties, ElementOfSeq
  <1>2. \A i \in 1..n : i \in 0..n /\ i - 1 \in 0..n /\ 1..i = 1..(i - 1) \cup {i} /\ i \notin 1..(i - 1)
                        /\ 1..(i - 1) \subseteq 1..n
    BY <1>1
  <1>3. t \in J[0]
    <2>1. 0 \in 0..n /\ 1..0 = {}
      BY <1>1
    <2> QED BY <2>1
  <1>4. ASSUME NEW i \in 1..n, NEW a \in J[i - 1] PROVE Removing[<<a, s[i]>>] \in J[i]
    <2>1. a \in Tables /\ Unique(a) /\ Pairs(a) = Pairs(t) \ {s[j] : j \in 1..(i - 1)}
      BY <1>2
    <2>2. s[i] \in Pairs(a)
      <3>1. s[i] \in Pairs(t)
        BY <1>1 DEF Range
      <3>2. \A j \in 1..(i - 1) : s[j] # s[i]
        BY <1>1, <1>2 DEF Repeats
      <3> QED BY <2>1, <3>1, <3>2
    <2>3. Removing[<<a, s[i]>>] = delete(a, s[i].key)
      <3>1. <<a, s[i]>> \in Tables \X Bucket /\ <<a, s[i]>>[1] = a /\ <<a, s[i]>>[2] = s[i]
        BY <1>1, <2>1
      <3> QED BY <3>1 DEF Removing
    <2> DEFINE r == delete(a, s[i].key)
    <2>4. s[i].key \in KeysOf(a)
      BY <2>2 DEF KeysOf
    <2>5. r \in Tables /\ Unique(r) /\ Pairs(r) = {b \in Pairs(a) : b.key # s[i].key}
      BY <2>1, <2>4, DeletePairs, DeleteType
    <2>6. \A b \in Pairs(a) : b.key = s[i].key => b = s[i]
      BY <2>1, <2>2, PairsFacts
    <2> HIDE DEF r
    <2>7. Pairs(r) = Pairs(a) \ {s[i]}
      BY <2>5, <2>6
    <2>8. Pairs(r) = Pairs(t) \ {s[j] : j \in 1..i}
      BY <1>2, <2>1, <2>7
    <2>9. J[i] = {u \in Tables : Unique(u) /\ Pairs(u) = Pairs(t) \ {s[j] : j \in 1..i}}
      BY <1>2
    <2> HIDE DEF J
    <2> QED BY <2>3, <2>5, <2>8, <2>9 DEF r
  <1>5. J[n] = {a \in Tables : Unique(a) /\ Pairs(a) = Pairs(t) \ {s[j] : j \in 1..n}}
    BY <1>1
  <1> HIDE DEF J
  <1>6. Fold(Removing, t, s) \in J[n]
    BY <1>1, <1>3, <1>4, FoldSteps
  <1>7. Range(s) = {s[j] : j \in 1..n}
    BY <1>1 DEF Range
  <1> QED BY <1>5, <1>6, <1>7

\* Methods are inherited unless the class has one of that name.
LEMMA InheritingStep ==
    ASSUME NEW t \in Tables, Unique(t), NEW b \in Bucket
    PROVE  /\ Inheriting[<<t, b>>] \in Tables /\ Unique(Inheriting[<<t, b>>])
           /\ Pairs(Inheriting[<<t, b>>]) = IF b.key \in KeysOf(t) THEN Pairs(t) ELSE Pairs(t) \cup {b}
  <1>1. Inheriting[<<t, b>>] = IF find(t, b.key) = Undef THEN add(t, b.key, b.val) ELSE t
    <2>1. <<t, b>> \in Tables \X Bucket /\ <<t, b>>[1] = t /\ <<t, b>>[2] = b
      OBVIOUS
    <2> QED BY <2>1 DEF Inheriting
  <1>2. find(t, b.key) = Undef <=> b.key \notin KeysOf(t)
    BY FindFacts
  <1>3. b.key \in Keys /\ b.val \in Vals /\ [key |-> b.key, val |-> b.val] = b
    BY DEF Bucket
  <1>4. CASE b.key \in KeysOf(t)
    BY <1>1, <1>2, <1>4
  <1>5. CASE b.key \notin KeysOf(t)
    BY <1>1, <1>2, <1>3, <1>5, AddType, AddPairs
  <1> QED BY <1>4, <1>5

LEMMA InheritingUnique ==
    ASSUME NEW t \in Tables, Unique(t), NEW s \in Seq(Bucket)
    PROVE  Unique(Fold(Inheriting, t, s))
  <1> DEFINE S == {a \in Tables : Unique(a)}
  <1>1. \A a \in S, b \in Bucket : Inheriting[<<a, b>>] \in S
    BY InheritingStep
  <1>2. t \in S
    OBVIOUS
  <1> HIDE DEF S
  <1>3. Fold(Inheriting, t, s) \in S
    BY <1>1, <1>2, FoldIn
  <1> QED BY <1>3 DEF S

LEMMA InheritingPairs ==
    ASSUME NEW t \in Tables, Unique(t), NEW s \in Seq(Bucket),
           \A i, j \in DOMAIN s : s[i].key = s[j].key => i = j
    PROVE  Pairs(Fold(Inheriting, t, s)) = Pairs(t) \cup {b \in Range(s) : b.key \notin KeysOf(t)}
  <1> DEFINE n == Len(s)
             New(i) == {s[j] : j \in {l \in 1..i : s[l].key \notin KeysOf(t)}}
             J == [i \in 0..n |-> {a \in Tables : Unique(a) /\ Pairs(a) = Pairs(t) \cup New(i)}]
  <1>1. n \in Nat /\ DOMAIN s = 1..n /\ \A i \in 1..n : s[i] \in Bucket
    BY LenProperties, ElementOfSeq
  <1>2. \A i \in 1..n : i \in 0..n /\ i - 1 \in 0..n /\ 1..i = 1..(i - 1) \cup {i} /\ i \notin 1..(i - 1)
                        /\ 1..(i - 1) \subseteq 1..n
    BY <1>1
  <1>3. t \in J[0]
    <2>1. 0 \in 0..n /\ 1..0 = {}
      BY <1>1
    <2>2. New(0) = {}
      BY <2>1
    <2> HIDE DEF New
    <2> QED BY <2>1, <2>2
  <1>4. ASSUME NEW i \in 1..n, NEW a \in J[i - 1] PROVE Inheriting[<<a, s[i]>>] \in J[i]
    <2> DEFINE r == Inheriting[<<a, s[i]>>]
    <2>1. a \in Tables /\ Unique(a) /\ Pairs(a) = Pairs(t) \cup New(i - 1)
      <3> HIDE DEF New
      <3> QED BY <1>2
    <2>2. r \in Tables /\ Unique(r)
          /\ Pairs(r) = IF s[i].key \in KeysOf(a) THEN Pairs(a) ELSE Pairs(a) \cup {s[i]}
      BY <1>1, <2>1, InheritingStep
    <2>3. \A j \in 1..(i - 1) : s[j].key # s[i].key
      BY <1>1, <1>2
    <2>4. s[i].key \in KeysOf(a) <=> s[i].key \in KeysOf(t)
      BY <2>1, <2>3 DEF KeysOf
    <2>5. New(i) = IF s[i].key \in KeysOf(t) THEN New(i - 1) ELSE New(i - 1) \cup {s[i]}
      BY <1>2
    <2> HIDE DEF r, New
    <2>6. Pairs(r) = Pairs(t) \cup New(i)
      BY <2>1, <2>2, <2>4, <2>5
    <2>7. J[i] = {u \in Tables : Unique(u) /\ Pairs(u) = Pairs(t) \cup New(i)}
      BY <1>2
    <2> HIDE DEF J
    <2> QED BY <2>2, <2>6, <2>7 DEF r
  <1>5. New(n) = {b \in Range(s) : b.key \notin KeysOf(t)}
    BY <1>1 DEF Range
  <1> HIDE DEF New
  <1>6. J[n] = {a \in Tables : Unique(a) /\ Pairs(a) = Pairs(t) \cup New(n)}
    BY <1>1
  <1> HIDE DEF J
  <1>7. Fold(Inheriting, t, s) \in J[n]
    BY <1>1, <1>3, <1>4, FoldSteps
  <1> QED BY <1>5, <1>6, <1>7

\* foreach sees all of a table without holes.
LEMMA DenseIterator ==
    ASSUME NEW t \in Tables, Unique(t), Dense(t)
    PROVE  Range(getIterator(t)) = Pairs(t) /\ ~Repeats(getIterator(t))
  <1>1. \A i \in Elements(t) : i <= nNumOfElements(t)
    BY TableParts DEF Dense, nNumUsed
  <1>2. {i \in Elements(t) : i <= nNumOfElements(t)} = Elements(t)
    BY <1>1
  <1>3. getIterator(t) = Chosen(t.arData, Elements(t))
    BY <1>2 DEF getIterator
  <1>4. Positions(Elements(t))
    BY TableParts
  <1>5. \A i, j \in Elements(t) : t.arData[i] = t.arData[j] => i = j
    BY DEF Unique
  <1>6. Range(getIterator(t)) = Pairs(t)
    BY <1>3, <1>4, ChosenRange DEF Pairs
  <1>7. ~Repeats(getIterator(t))
    BY <1>3, <1>4, <1>5, ChosenOnce
  <1> QED BY <1>6, <1>7

LEMMA MethodsToRemove ==
    ASSUME NEW t \in Tables, Unique(t), Dense(t), NEW V
    PROVE  LET s == getIterator(t)
               m == Chosen(s, {i \in DOMAIN s : s[i].val \in V})
           IN  m \in Seq(Bucket) /\ ~Repeats(m) /\ Range(m) = {b \in Pairs(t) : b.val \in V}
  <1> DEFINE s == getIterator(t)
             I == {i \in DOMAIN s : s[i].val \in V}
             m == Chosen(s, I)
  <1>1. s \in Seq(Bucket) /\ ~Repeats(s) /\ Range(s) = Pairs(t)
    BY IteratorType, DenseIterator
  <1>2. I \in SUBSET DOMAIN s /\ Len(s) \in Nat /\ DOMAIN s = 1..Len(s)
    BY <1>1, LenProperties
  <1>3. {s[i] : i \in I} = {b \in Pairs(t) : b.val \in V}
    BY <1>1 DEF Range
  <1>4. \A i, j \in I : s[i] = s[j] => i = j
    BY <1>1 DEF Repeats
  <1> HIDE DEF I, s
  <1>6. Positions(I)
    BY <1>2 DEF Positions
  <1>7. m \in Seq(Bucket)
    BY <1>1, <1>2, ChosenType
  <1>8. Range(m) = {s[i] : i \in I}
    BY <1>6, ChosenRange
  <1>9. ~Repeats(m)
    BY <1>4, <1>6, ChosenOnce
  <1> HIDE DEF m
  <1>10. m \in Seq(Bucket) /\ ~Repeats(m) /\ Range(m) = {b \in Pairs(t) : b.val \in V}
    BY <1>3, <1>7, <1>8, <1>9
  <1> QED BY <1>10 DEF m, I, s

\* Names are deleted one after the other up to one that is not there.
LEMMA DeletingStep ==
    ASSUME NEW t \in Tables, Unique(t), NEW k \in Keys
    PROVE  /\ Deleting[<<[table |-> t, failed |-> TRUE], k>>] = [table |-> t, failed |-> TRUE]
           /\ Deleting[<<[table |-> t, failed |-> FALSE], k>>] =
                 IF k \in KeysOf(t) THEN [table |-> delete(t, k), failed |-> FALSE]
                 ELSE [table |-> t, failed |-> TRUE]
  <1>1. ASSUME NEW v \in BOOLEAN
        PROVE  Deleting[<<[table |-> t, failed |-> v], k>>] = Attempt([table |-> t, failed |-> v], k)
    <2> DEFINE a == [table |-> t, failed |-> v]
    <2>1. a \in Attempts
      BY DEF Attempts
    <2> HIDE DEF a
    <2>2. <<a, k>> \in Attempts \X Keys /\ <<a, k>>[1] = a /\ <<a, k>>[2] = k
      BY <2>1
    <2>3. Deleting[<<a, k>>] = Attempt(a, k)
      BY <2>2 DEF Deleting
    <2> QED BY <2>3 DEF a
  <1>2. find(t, k) = Undef <=> k \notin KeysOf(t)
    BY FindFacts
  <1>3. Attempt([table |-> t, failed |-> TRUE], k) = [table |-> t, failed |-> TRUE]
    BY DEF Attempt
  <1>4. Attempt([table |-> t, failed |-> FALSE], k) =
           IF k \in KeysOf(t) THEN [table |-> delete(t, k), failed |-> FALSE]
           ELSE [table |-> t, failed |-> TRUE]
    <2> DEFINE a == [table |-> t, failed |-> FALSE]
    <2>1. a.table = t /\ a.failed = FALSE
      OBVIOUS
    <2>a. a \in Attempts
      BY DEF Attempts
    <2>b. ASSUME NEW c \in Attempts, NEW w PROVE [c EXCEPT !.table = w] = [table |-> w, failed |-> c.failed]
      BY DEF Attempts
    <2>c. ASSUME NEW c \in Attempts, NEW w PROVE [c EXCEPT !.failed = w] = [table |-> c.table, failed |-> w]
      BY DEF Attempts
    <2>2. [a EXCEPT !.failed = TRUE] = [table |-> t, failed |-> TRUE]
      <3> HIDE DEF a
      <3> QED BY <2>1, <2>a, <2>c
    <2>3. \A w : [a EXCEPT !.table = w] = [table |-> w, failed |-> FALSE]
      <3> HIDE DEF a
      <3> QED BY <2>1, <2>a, <2>b
    <2>4. Attempt(a, k) = IF a.failed \/ find(a.table, k) = Undef THEN [a EXCEPT !.failed = TRUE]
                          ELSE [a EXCEPT !.table = delete(a.table, k)]
      BY DEF Attempt
    <2> HIDE DEF a
    <2>5. Attempt(a, k) = IF find(t, k) = Undef THEN [table |-> t, failed |-> TRUE]
                          ELSE [table |-> delete(t, k), failed |-> FALSE]
      BY <2>1, <2>2, <2>3, <2>4
    <2> QED BY <1>2, <2>5 DEF a
  <1> QED BY <1>1, <1>3, <1>4

LEMMA DeletingPairs ==
    ASSUME NEW t \in Tables, Unique(t), NEW names \in From1To2(Keys),
           NEW u, u = Fold(Deleting, [table |-> t, failed |-> FALSE], names).table
    PROVE  /\ u \in Tables /\ Unique(u)
           /\ \E R \in SUBSET (Range(names) \cap KeysOf(t)) :
                 /\ Range(names) \subseteq KeysOf(t) => R = Range(names)
                 /\ Pairs(u) = {b \in Pairs(t) : b.key \notin R}
  <1> DEFINE start == [table |-> t, failed |-> FALSE]
             Goal == /\ u \in Tables /\ Unique(u)
                     /\ \E R \in SUBSET (Range(names) \cap KeysOf(t)) :
                           /\ Range(names) \subseteq KeysOf(t) => R = Range(names)
                           /\ Pairs(u) = {b \in Pairs(t) : b.key \notin R}
  <1>0. (\E x \in Keys : names = <<x>>) \/ (\E x, y \in Keys : names = <<x, y>>)
    <2>1. CASE names \in Keys \X Keys
      <3>1. names = <<names[1], names[2]>> /\ names[1] \in Keys /\ names[2] \in Keys
        BY <2>1
      <3> QED BY <3>1
    <2> QED BY <2>1 DEF From1To2
  <1>1. ASSUME u = t, ~(Range(names) \subseteq KeysOf(t)) PROVE Goal
    <2>1. Pairs(t) = {b \in Pairs(t) : b.key \notin {}}
      OBVIOUS
    <2>2. {} \in SUBSET (Range(names) \cap KeysOf(t))
      OBVIOUS
    <2> QED BY <1>1, <2>1, <2>2
  <1>2. ASSUME NEW x \in KeysOf(t), x \in Range(names), u = delete(t, x),
               Range(names) \subseteq KeysOf(t) => Range(names) = {x}
        PROVE  Goal
    <2>1. u \in Tables /\ Unique(u) /\ Pairs(u) = {b \in Pairs(t) : b.key # x}
      BY <1>2, DeleteType, DeletePairs
    <2>2. Pairs(u) = {b \in Pairs(t) : b.key \notin {x}} /\ {x} \in SUBSET (Range(names) \cap KeysOf(t))
      BY <1>2, <2>1
    <2> QED BY <1>2, <2>1, <2>2
  <1>3. ASSUME NEW x \in Keys, names = <<x>> PROVE Goal
    <2>1. Fold(Deleting, start, names) = Deleting[<<start, x>>]
      BY <1>3, FoldOnce
    <2>2. Range(names) = {x}
      BY <1>3 DEF Range
    <2>3. CASE x \in KeysOf(t)
      <3>2. Deleting[<<start, x>>] = [table |-> delete(t, x), failed |-> FALSE]
        BY <2>3, DeletingStep
      <3>1. u = delete(t, x)
        BY <2>1, <3>2
      <3> HIDE DEF Goal
      <3> QED BY <1>2, <2>2, <2>3, <3>1
    <2>4. CASE x \notin KeysOf(t)
      <3>2. Deleting[<<start, x>>] = [table |-> t, failed |-> TRUE]
        BY <2>4, DeletingStep
      <3>1. u = t
        BY <2>1, <3>2
      <3> HIDE DEF Goal
      <3> QED BY <1>1, <2>2, <2>4, <3>1
    <2> QED BY <2>3, <2>4
  <1>4. ASSUME NEW x \in Keys, NEW y \in Keys, names = <<x, y>> PROVE Goal
    <2>1. Fold(Deleting, start, names) = Deleting[<<Deleting[<<start, x>>], y>>]
      <3>1. Fold(Deleting, start, <<x, y>>) = Deleting[<<Deleting[<<start, x>>], y>>]
        <4> HIDE DEF start
        <4> QED BY FoldTwice
      <3> HIDE DEF start
      <3> QED BY <1>4, <3>1
    <2>2. Range(names) = {x, y}
      BY <1>4 DEF Range
    <2>3. CASE x \notin KeysOf(t)
      <3>2. Deleting[<<start, x>>] = [table |-> t, failed |-> TRUE]
        BY <2>3, DeletingStep
      <3>3. Deleting[<<[table |-> t, failed |-> TRUE], y>>] = [table |-> t, failed |-> TRUE]
        BY DeletingStep
      <3>1. u = t
        BY <2>1, <3>2, <3>3
      <3> HIDE DEF Goal
      <3> QED BY <1>1, <2>2, <2>3, <3>1
    <2>4. CASE x \in KeysOf(t)
      <3> DEFINE w == delete(t, x)
      <3>1. Deleting[<<start, x>>] = [table |-> w, failed |-> FALSE]
        BY <2>4, DeletingStep
      <3>2. w \in Tables /\ Unique(w) /\ Pairs(w) = {b \in Pairs(t) : b.key # x}
        BY <2>4, DeleteType, DeletePairs
      <3>3. KeysOf(w) = KeysOf(t) \ {x}
        BY <3>2 DEF KeysOf
      <3> HIDE DEF w
      <3>4. CASE y \notin KeysOf(w)
        <4>3. Deleting[<<[table |-> w, failed |-> FALSE], y>>] = [table |-> w, failed |-> TRUE]
          BY <3>2, <3>4, DeletingStep
        <4>1. u = w
          BY <2>1, <3>1, <4>3
        <4>2. Range(names) \subseteq KeysOf(t) => Range(names) = {x}
          BY <2>2, <3>3, <3>4
        <4> HIDE DEF Goal
        <4> QED BY <1>2, <2>2, <2>4, <4>1, <4>2 DEF w
      <3>5. CASE y \in KeysOf(w)
        <4>5. Deleting[<<[table |-> w, failed |-> FALSE], y>>] = [table |-> delete(w, y), failed |-> FALSE]
          BY <3>2, <3>5, DeletingStep
        <4>1. u = delete(w, y)
          BY <2>1, <3>1, <4>5
        <4>2. u \in Tables /\ Unique(u) /\ Pairs(u) = {b \in Pairs(w) : b.key # y}
          BY <3>2, <3>5, <4>1, DeleteType, DeletePairs
        <4>3. Pairs(u) = {b \in Pairs(t) : b.key \notin {x, y}}
          BY <3>2, <4>2
        <4>4. {x, y} \in SUBSET (Range(names) \cap KeysOf(t))
          BY <2>2, <2>4, <3>3, <3>5
        <4> QED BY <2>2, <4>2, <4>3, <4>4
      <3> QED BY <3>4, <3>5
    <2> QED BY <2>3, <2>4
  <1> HIDE DEF Goal
  <1>5. Goal
    BY <1>0, <1>3, <1>4
  <1> QED BY <1>5 DEF Goal

-----------------------------------------------------------------------------
(* The methods of a class as a function.                                   *)

LEMMA LookupAdded ==
    ASSUME NEW t \in Tables, Unique(t), NEW k \in Keys, NEW x \in Vals, k \notin KeysOf(t)
    PROVE  Lookup(add(t, k, x)) = [l \in DOMAIN Lookup(t) \cup {k} |-> IF l = k THEN x ELSE Lookup(t)[l]]
  <1> DEFINE u == add(t, k, x)
             F == [l \in DOMAIN Lookup(t) \cup {k} |-> IF l = k THEN x ELSE Lookup(t)[l]]
             e == [key |-> k, val |-> x]
  <1>1. u \in Tables /\ Unique(u) /\ Pairs(u) = Pairs(t) \cup {e}
    BY AddType, AddPairs
  <1>2. DOMAIN Lookup(t) = KeysOf(t) /\ \A b \in Pairs(t) : Lookup(t)[b.key] = b.val
    BY LookupFacts
  <1>3. e.key = k /\ e.val = x
    OBVIOUS
  <1> HIDE DEF u, e
  <1>4. KeysOf(u) = KeysOf(t) \cup {k}
    BY <1>1, <1>3 DEF KeysOf
  <1>5. \A b \in Pairs(t) : b.key \in KeysOf(t) /\ b.key # k
    BY DEF KeysOf
  <1>6. \A b \in Pairs(u) : F[b.key] = b.val
    BY <1>1, <1>2, <1>3, <1>5
  <1>7. DOMAIN F = KeysOf(u) /\ F = [l \in DOMAIN F |-> F[l]]
    BY <1>2, <1>4
  <1> HIDE DEF F
  <1>8. Lookup(u) = F
    BY <1>1, <1>6, <1>7, LookupIs
  <1> QED BY <1>8 DEF u, F

LEMMA LookupLess ==
    ASSUME NEW t \in Tables, Unique(t), NEW u \in Tables, Unique(u), Pairs(u) \subseteq Pairs(t)
    PROVE  /\ Lookup(u) = [k \in KeysOf(u) |-> Lookup(t)[k]]
           /\ KeysOf(u) = {b.key : b \in Pairs(u)}
  <1> DEFINE F == [k \in KeysOf(u) |-> Lookup(t)[k]]
  <1>1. \A b \in Pairs(t) : Lookup(t)[b.key] = b.val
    BY LookupFacts
  <1>2. \A b \in Pairs(u) : b.key \in KeysOf(u)
    BY DEF KeysOf
  <1>3. \A b \in Pairs(u) : F[b.key] = b.val
    BY <1>1, <1>2
  <1>4. DOMAIN F = KeysOf(u) /\ F = [l \in DOMAIN F |-> F[l]]
    OBVIOUS
  <1> HIDE DEF F
  <1>5. Lookup(u) = F
    BY <1>3, <1>4, LookupIs
  <1> QED BY <1>5 DEF F, KeysOf

LEMMA LookupJoined ==
    ASSUME NEW t \in Tables, Unique(t), NEW v \in Tables, Unique(v), NEW u \in Tables, Unique(u),
           Pairs(u) = Pairs(t) \cup {b \in Pairs(v) : b.key \notin KeysOf(t)}
    PROVE  Lookup(u) = [m \in DOMAIN Lookup(t) \cup DOMAIN Lookup(v) |->
                            IF m \in DOMAIN Lookup(t) THEN Lookup(t)[m] ELSE Lookup(v)[m]]
  <1> DEFINE F == [m \in DOMAIN Lookup(t) \cup DOMAIN Lookup(v) |->
                            IF m \in DOMAIN Lookup(t) THEN Lookup(t)[m] ELSE Lookup(v)[m]]
  <1>1. /\ DOMAIN Lookup(t) = KeysOf(t) /\ \A b \in Pairs(t) : Lookup(t)[b.key] = b.val
        /\ DOMAIN Lookup(v) = KeysOf(v) /\ \A b \in Pairs(v) : Lookup(v)[b.key] = b.val
    BY LookupFacts
  <1>2. /\ \A b \in Pairs(t) : b.key \in KeysOf(t)
        /\ \A b \in Pairs(v) : b.key \in KeysOf(v)
    BY DEF KeysOf
  <1>3. KeysOf(u) = KeysOf(t) \cup KeysOf(v)
    BY DEF KeysOf
  <1>4. \A b \in Pairs(u) : F[b.key] = b.val
    BY <1>1, <1>2
  <1>5. DOMAIN F = KeysOf(u) /\ F = [l \in DOMAIN F |-> F[l]]
    BY <1>1, <1>3
  <1> HIDE DEF F
  <1>6. Lookup(u) = F
    BY <1>4, <1>5, LookupIs
  <1> QED BY <1>6 DEF F

-----------------------------------------------------------------------------
(* What an operation promises.                                             *)

\* What a tidy program keeps true, which is why it gets what is promised: no
\* name is there twice, interfaces exist, and no two methods have one name.
Clean(c, h) ==
    /\ ~Repeats(getInterfaceNames(c, h)) /\ ~Repeats(getTraitNames(c, h))
    /\ Range(getInterfaceNames(c, h)) \subseteq Interfaces
    /\ Unique(c.function_table)

LEMMA RunningFacts ==
    ASSUME SurgeryInv, Running
    PROVE  /\ Sound(ce, heap) /\ internal \in BOOLEAN /\ cli \in BOOLEAN /\ Unused(heap) # {}
           /\ getTraitNames(ce, heap) \in Seq(Names) /\ getInterfaceNames(ce, heap) \in Seq(Names)
           /\ ce.function_table \in Tables
  <1>1. Sound(ce, heap) /\ internal \in BOOLEAN /\ cli \in BOOLEAN /\ Unused(heap) # {}
    BY DEF SurgeryInv, ClassTypeOK, Running, Room
  <1>2. ce.function_table \in Tables
    BY <1>1, EntryParts DEF Sound
  <1> QED BY <1>1, <1>2, NamesHeld

LEMMA addTraitsKept ==
    ASSUME SurgeryInv, Clean(ce, heap), NEW names \in From1To2(Traits), addTraits(names), tidy'
    PROVE  Clean(ce', heap') /\ Promise!addTraits(Range(names))
  <1> DEFINE available == getTraitNames(ce, heap)
             traitsToAdd == ToAdd(names, available)
             items == available \o traitsToAdd
  <1>1. /\ Running
        /\ ce' = WithTraits(ce, heap, items).ce /\ heap' = WithTraits(ce, heap, items).heap
        /\ ~Repeats(traitsToAdd)
    BY DEF addTraits, Becomes
  <1>2. /\ Sound(ce, heap) /\ internal \in BOOLEAN /\ cli \in BOOLEAN /\ Unused(heap) # {}
        /\ available \in Seq(Names)
    BY <1>1, RunningFacts
  <1>3. names \in Seq(Names)
    BY SequencesOfNames
  <1>4. items \in Seq(Names)
    BY <1>2, <1>3, ChoiceTypes, ConcatProperties
  <1>5. Range(items) = Range(available) \cup Range(names) /\ ~Repeats(items)
    BY <1>1, <1>2, <1>3, ToAddRange DEF Clean
  <1> HIDE DEF items
  <1>6. /\ ce'.parent = ce.parent /\ ce'.function_table = ce.function_table
        /\ getTraitNames(ce', heap') = items
        /\ getInterfaceNames(ce', heap') = getInterfaceNames(ce, heap)
    BY <1>1, <1>2, <1>4, WithTraitsSound
  <1>7. Clean(ce', heap')
    BY <1>5, <1>6 DEF Clean
  <1> QED BY <1>5, <1>6, <1>7 DEF Promise!addTraits

LEMMA removeTraitsKept ==
    ASSUME SurgeryInv, Clean(ce, heap), NEW S, removeTraits(S)
    PROVE  Clean(ce', heap') /\ Promise!removeTraits(S)
  <1> DEFINE available == getTraitNames(ce, heap)
             items == Without(available, S)
  <1>1. /\ Running
        /\ S \subseteq Range(available) =>
              ce' = WithTraits(ce, heap, items).ce /\ heap' = WithTraits(ce, heap, items).heap
        /\ ~(S \subseteq Range(available)) => UNCHANGED <<ce, heap>>
    BY DEF removeTraits, Becomes
  <1>2. /\ Sound(ce, heap) /\ internal \in BOOLEAN /\ cli \in BOOLEAN /\ Unused(heap) # {}
        /\ available \in Seq(Names)
    BY <1>1, RunningFacts
  <1>3. CASE S \subseteq Range(available)
    <2>1. Range(items) = Range(available) \ S /\ ~Repeats(items)
      BY <1>2, <1>3, WithoutRange DEF Clean
    <2>2. items \in Seq(Names)
      BY <1>2, ChoiceTypes
    <2> HIDE DEF items
    <2>3. /\ ce'.parent = ce.parent /\ ce'.function_table = ce.function_table
          /\ getTraitNames(ce', heap') = items
          /\ getInterfaceNames(ce', heap') = getInterfaceNames(ce, heap)
      BY <1>1, <1>2, <1>3, <2>2, WithTraitsSound
    <2>4. Clean(ce', heap')
      BY <2>1, <2>3 DEF Clean
    <2> QED BY <1>3, <2>1, <2>3, <2>4 DEF Promise!removeTraits
  <1>4. CASE ~(S \subseteq Range(available))
    <2>1. ce' = ce /\ heap' = heap
      BY <1>1, <1>4
    <2> QED BY <1>4, <2>1 DEF Promise!removeTraits
  <1> QED BY <1>3, <1>4

LEMMA addInterfacesKept ==
    ASSUME SurgeryInv, Clean(ce, heap), NEW names \in From1To2(Interfaces \cup {Unknown}),
           addInterfaces(names), tidy'
    PROVE  Clean(ce', heap') /\ Promise!addInterfaces(Range(names))
  <1> DEFINE available == getInterfaceNames(ce, heap)
             interfacesToAdd == ToAdd(names, available)
             items == available \o interfacesToAdd
             exist == Range(interfacesToAdd) \subseteq Interfaces
  <1>1. /\ Running
        /\ exist => ce' = WithInterfaces(ce, heap, items).ce /\ heap' = WithInterfaces(ce, heap, items).heap
        /\ ~exist => UNCHANGED <<ce, heap>>
        /\ ~Repeats(interfacesToAdd)
    BY DEF addInterfaces, Becomes
  <1>2. /\ Sound(ce, heap) /\ internal \in BOOLEAN /\ cli \in BOOLEAN /\ Unused(heap) # {}
        /\ available \in Seq(Names)
    BY <1>1, RunningFacts
  <1>3. names \in Seq(Names)
    BY SequencesOfNames
  <1>4. items \in Seq(Names)
    BY <1>2, <1>3, ChoiceTypes, ConcatProperties
  <1>5. /\ Range(items) = Range(available) \cup Range(names) /\ ~Repeats(items)
        /\ Range(interfacesToAdd) = Range(names) \ Range(available)
    BY <1>1, <1>2, <1>3, ToAddRange DEF Clean
  <1>6. exist <=> Range(names) \subseteq Interfaces
    BY <1>5 DEF Clean
  <1> HIDE DEF items
  <1>7. CASE exist
    <2>1. /\ ce'.parent = ce.parent /\ ce'.function_table = ce.function_table
          /\ getInterfaceNames(ce', heap') = items
          /\ getTraitNames(ce', heap') = getTraitNames(ce, heap)
      BY <1>1, <1>2, <1>4, <1>7, WithInterfacesSound
    <2>2. Clean(ce', heap')
      BY <1>5, <1>6, <1>7, <2>1 DEF Clean
    <2> QED BY <1>5, <1>6, <1>7, <2>1, <2>2 DEF Promise!addInterfaces
  <1>8. CASE ~exist
    <2>1. ce' = ce /\ heap' = heap
      BY <1>1, <1>8
    <2> QED BY <1>6, <1>8, <2>1 DEF Promise!addInterfaces
  <1> QED BY <1>7, <1>8

LEMMA removeInterfacesKept ==
    ASSUME SurgeryInv, Clean(ce, heap), NEW S, removeInterfaces(S)
    PROVE  Clean(ce', heap') /\ Promise!removeInterfaces(S)
  <1> DEFINE available == getInterfaceNames(ce, heap)
             items == Without(available, S)
  <1>1. /\ Running
        /\ S \subseteq Range(available) =>
              ce' = WithInterfaces(ce, heap, items).ce /\ heap' = WithInterfaces(ce, heap, items).heap
        /\ ~(S \subseteq Range(available)) => UNCHANGED <<ce, heap>>
    BY DEF removeInterfaces, Becomes
  <1>2. /\ Sound(ce, heap) /\ internal \in BOOLEAN /\ cli \in BOOLEAN /\ Unused(heap) # {}
        /\ available \in Seq(Names)
    BY <1>1, RunningFacts
  <1>3. CASE S \subseteq Range(available)
    <2>1. Range(items) = Range(available) \ S /\ ~Repeats(items)
      BY <1>2, <1>3, WithoutRange DEF Clean
    <2>2. items \in Seq(Names)
      BY <1>2, ChoiceTypes
    <2> HIDE DEF items
    <2>3. /\ ce'.parent = ce.parent /\ ce'.function_table = ce.function_table
          /\ getInterfaceNames(ce', heap') = items
          /\ getTraitNames(ce', heap') = getTraitNames(ce, heap)
      BY <1>1, <1>2, <1>3, <2>2, WithInterfacesSound
    <2>4. Clean(ce', heap')
      BY <2>1, <2>3 DEF Clean
    <2> QED BY <1>3, <2>1, <2>3, <2>4 DEF Promise!removeInterfaces
  <1>4. CASE ~(S \subseteq Range(available))
    <2>1. ce' = ce /\ heap' = heap
      BY <1>1, <1>4
    <2> QED BY <1>4, <2>1 DEF Promise!removeInterfaces
  <1> QED BY <1>3, <1>4

\* An operation on methods leaves the names of interfaces and traits alone.
LEMMA TableKept ==
    ASSUME Sound(ce, heap), Clean(ce, heap), NEW t \in Tables, Unique(t),
           ce' = [ce EXCEPT !.function_table = t], heap' = heap
    PROVE  /\ Clean(ce', heap') /\ ce'.function_table = t /\ ce'.parent = ce.parent
           /\ getInterfaceNames(ce', heap') = getInterfaceNames(ce, heap)
           /\ getTraitNames(ce', heap') = getTraitNames(ce, heap)
  <1>1. ce \in ClassEntries
    BY DEF Sound
  <1>2. /\ ce'.interfaces = ce.interfaces /\ ce'.num_interfaces = ce.num_interfaces
        /\ ce'.trait_names = ce.trait_names /\ ce'.num_traits = ce.num_traits
        /\ ce'.function_table = t /\ ce'.parent = ce.parent
    BY <1>1 DEF ClassEntries
  <1>3. /\ getInterfaceNames(ce', heap') = getInterfaceNames(ce, heap)
        /\ getTraitNames(ce', heap') = getTraitNames(ce, heap)
    BY <1>2 DEF getInterfaceNames, getTraitNames
  <1> QED BY <1>2, <1>3 DEF Clean

LEMMA addMethodKept ==
    ASSUME SurgeryInv, Clean(ce, heap), NEW m \in Keys, addMethod(m), tidy'
    PROVE  Clean(ce', heap') /\ Promise!addMethod(m)
  <1> DEFINE t == ce.function_table
  <1>1. /\ Running /\ heap' = heap /\ ce' = [ce EXCEPT !.function_table = add(t, m, Class)]
        /\ find(t, m) = Undef
    BY DEF addMethod
  <1>2. Sound(ce, heap) /\ t \in Tables /\ Class \in Vals /\ Unique(t)
    BY <1>1, RunningFacts, SurgeryAssumption DEF Clean
  <1>3. m \notin KeysOf(t)
    BY <1>1, <1>2, FindFacts
  <1>4. add(t, m, Class) \in Tables /\ Unique(add(t, m, Class))
    BY <1>2, <1>3, AddType, AddPairs
  <1>5. Lookup(add(t, m, Class)) = [l \in DOMAIN Lookup(t) \cup {m} |-> IF l = m THEN Class ELSE Lookup(t)[l]]
    BY <1>2, <1>3, LookupAdded
  <1>6. /\ Clean(ce', heap') /\ ce'.function_table = add(t, m, Class) /\ ce'.parent = ce.parent
        /\ getInterfaceNames(ce', heap') = getInterfaceNames(ce, heap)
        /\ getTraitNames(ce', heap') = getTraitNames(ce, heap)
    BY <1>1, <1>2, <1>4, TableKept
  <1> QED BY <1>5, <1>6 DEF Promise!addMethod

LEMMA removeMethodsKept ==
    ASSUME SurgeryInv, Clean(ce, heap), NEW names \in From1To2(Keys), removeMethods(names)
    PROVE  Clean(ce', heap') /\ Promise!removeMethods(Range(names))
  <1> DEFINE t == ce.function_table
             u == Fold(Deleting, [table |-> t, failed |-> FALSE], names).table
  <1>1. Running /\ heap' = heap /\ ce' = [ce EXCEPT !.function_table = u]
    BY DEF removeMethods
  <1>2. Sound(ce, heap) /\ t \in Tables /\ Unique(t)
    BY <1>1, RunningFacts DEF Clean
  <1>3. /\ u \in Tables /\ Unique(u)
        /\ \E R \in SUBSET (Range(names) \cap KeysOf(t)) :
              /\ Range(names) \subseteq KeysOf(t) => R = Range(names)
              /\ Pairs(u) = {b \in Pairs(t) : b.key \notin R}
    BY <1>2, DeletingPairs
  <1> HIDE DEF u
  <1>4. PICK R \in SUBSET (Range(names) \cap KeysOf(t)) :
              /\ Range(names) \subseteq KeysOf(t) => R = Range(names)
              /\ Pairs(u) = {b \in Pairs(t) : b.key \notin R}
    BY <1>3
  <1>5. KeysOf(u) = KeysOf(t) \ R
    BY <1>4 DEF KeysOf
  <1>6. Pairs(u) \subseteq Pairs(t)
    BY <1>4
  <1>7. DOMAIN Lookup(t) = KeysOf(t) /\ Lookup(u) = [k \in KeysOf(t) \ R |-> Lookup(t)[k]]
    BY <1>2, <1>3, <1>5, <1>6, LookupFacts, LookupLess
  <1>8. /\ Clean(ce', heap') /\ ce'.function_table = u /\ ce'.parent = ce.parent
        /\ getInterfaceNames(ce', heap') = getInterfaceNames(ce, heap)
        /\ getTraitNames(ce', heap') = getTraitNames(ce, heap)
    BY <1>1, <1>2, <1>3, TableKept
  <1> QED BY <1>4, <1>7, <1>8 DEF Promise!removeMethods, Promise!Restrict

\* What is left without the parent: the class's own interfaces and methods.
LEMMA WithoutParentKept ==
    ASSUME SurgeryInv, Clean(ce, heap), Running, hasParent(ce), Removable(ce, heap),
           Dense(ce.function_table), NEW r, r = WithoutParent(ce, heap)
    PROVE  /\ Clean(r.ce, r.heap) /\ r.ce.parent = Null
           /\ getTraitNames(r.ce, r.heap) = getTraitNames(ce, heap)
           /\ Range(getInterfaceNames(r.ce, r.heap)) = Promise!Remaining
           /\ Lookup(r.ce.function_table) = Promise!Own
  <1> DEFINE p == ce.parent
             t == ce.function_table
             available == getInterfaceNames(ce, heap)
             V == {p} \cup Ancestors[p]
             s == getMethods(ce)
             m == Chosen(s, {i \in DOMAIN s : s[i].val \in V})
             u == Fold(Removing, t, m)
             names == getInterfaceNames(r.ce, r.heap)
  <1>1. /\ Sound(ce, heap) /\ internal \in BOOLEAN /\ cli \in BOOLEAN /\ Unused(heap) # {}
        /\ available \in Seq(Names) /\ t \in Tables /\ Unique(t)
    BY RunningFacts DEF Clean
  <1>2. /\ r.ce.parent = Null /\ r.ce.function_table = u
        /\ getTraitNames(r.ce, r.heap) = getTraitNames(ce, heap)
        /\ names = IF InterfacesOf[p] = << >> THEN available
                   ELSE Without(available, Range(InterfacesOf[p]))
    BY <1>1, WithoutParentSound
  <1>3. p \in Parents /\ p # Null
    BY <1>1, EntryParts DEF hasParent, Sound
  <1>4. Range(names) = Range(available) \ Range(InterfacesOf[p]) /\ ~Repeats(names)
    <2>1. CASE InterfacesOf[p] = << >>
      <3>1. Range(InterfacesOf[p]) = {} /\ names = available
        BY <1>2, <2>1 DEF Range
      <3> HIDE DEF names
      <3> QED BY <3>1 DEF Clean
    <2>2. CASE InterfacesOf[p] # << >>
      <3>1. names = Without(available, Range(InterfacesOf[p]))
        BY <1>2, <2>2
      <3>2. Range(InterfacesOf[p]) \in SUBSET Range(available)
        BY DEF Removable
      <3> HIDE DEF names
      <3> QED BY <1>1, <3>1, <3>2, WithoutRange DEF Clean
    <2> QED BY <2>1, <2>2
  <1>5. m \in Seq(Bucket) /\ ~Repeats(m) /\ Range(m) = {b \in Pairs(t) : b.val \in V}
    <2> HIDE DEF V
    <2> QED BY <1>1, MethodsToRemove DEF getMethods
  <1> HIDE DEF m
  <1>6. u \in Tables /\ Unique(u) /\ Pairs(u) = {b \in Pairs(t) : b.val \notin V}
    <2>1. Range(m) \subseteq Pairs(t)
      BY <1>5
    <2>2. u \in Tables /\ Unique(u) /\ Pairs(u) = Pairs(t) \ Range(m)
      BY <1>1, <1>5, <2>1, RemovingPairs, RemovingType
    <2> QED BY <1>5, <2>2
  <1> HIDE DEF u
  <1>7. Lookup(u) = [k \in {l \in DOMAIN Lookup(t) : Lookup(t)[l] \notin V} |-> Lookup(t)[k]]
    <2>1. DOMAIN Lookup(t) = KeysOf(t) /\ \A b \in Pairs(t) : Lookup(t)[b.key] = b.val
      BY <1>1, LookupFacts
    <2>2. Pairs(u) \subseteq Pairs(t)
      BY <1>6
    <2>3. Lookup(u) = [k \in KeysOf(u) |-> Lookup(t)[k]]
      BY <1>1, <1>6, <2>2, LookupLess
    <2>4. KeysOf(u) = {l \in KeysOf(t) : Lookup(t)[l] \notin V}
      <3> HIDE DEF V, t
      <3> QED BY <1>6, <2>1 DEF KeysOf
    <2> QED BY <2>1, <2>3, <2>4
  <1>8. Lookup(u) = Promise!Own
    BY <1>3, <1>7 DEF Promise!Own, Promise!Restrict
  <1>9. Range(names) = Promise!Remaining
    BY <1>3, <1>4 DEF Promise!Remaining
  <1>10. Clean(r.ce, r.heap)
    <2>1. Range(names) \subseteq Interfaces
      BY <1>4 DEF Clean
    <2>2. ~Repeats(getTraitNames(r.ce, r.heap)) /\ Unique(r.ce.function_table)
      BY <1>2, <1>6 DEF Clean
    <2> QED BY <1>4, <2>1, <2>2 DEF Clean
  <1> QED BY <1>2, <1>8, <1>9, <1>10

\* Parents' methods as a table, which is how ClassParts sees them.
LEMMA ParentMethods ==
    ASSUME NEW p \in Parents, NEW v, v = [arData |-> MethodsOf[p], nTableSize |-> TableSize]
    PROVE  /\ v \in Tables /\ Unique(v) /\ Pairs(v) = Range(MethodsOf[p])
           /\ MethodsOf[p] \in Seq(Bucket)
           /\ \A i, j \in DOMAIN MethodsOf[p] : MethodsOf[p][i].key = MethodsOf[p][j].key => i = j
  <1> DEFINE s == MethodsOf[p]
  <1>1. s \in Seq(Bucket) /\ TableSize \in Nat \ {0} /\ ~Repeats([i \in DOMAIN s |-> s[i].key])
    BY SurgeryAssumption
  <1>2. \A i, j \in DOMAIN s : s[i].key = s[j].key => i = j
    BY <1>1 DEF Repeats
  <1>3. \A i \in DOMAIN s : s[i] \in Bucket /\ Live(s[i])
    <2> HIDE DEF s
    <2>1. \A i \in DOMAIN s : s[i] \in Bucket
      BY <1>1, LenProperties, ElementOfSeq
    <2> QED BY <2>1, UndefAssumption DEF Live
  <1>4. s \in Seq(Bucket \cup {Undef})
    <2>1. Seq(Bucket) \subseteq Seq(Bucket \cup {Undef})
      BY SeqDef
    <2> QED BY <1>1, <2>1
  <1>5. v.arData = s /\ v \in Tables
    BY <1>1, <1>4 DEF Tables
  <1>6. Elements(v) = DOMAIN s
    BY <1>3, <1>5 DEF Elements
  <1>7. Unique(v) /\ Pairs(v) = Range(s)
    BY <1>2, <1>5, <1>6 DEF Unique, Pairs, Range
  <1> QED BY <1>1, <1>2, <1>5, <1>7

\* What a class gets from a parent.
LEMMA InheritKept ==
    ASSUME NEW c, NEW h, Sound(c, h), Clean(c, h), internal \in BOOLEAN, cli \in BOOLEAN,
           c.num_interfaces = 0 => Unused(h) # {}, NEW p \in Parents,
           NEW r, r = Inherit(c, h, p)
    PROVE  /\ Clean(r.ce, r.heap) /\ r.ce.parent = p
           /\ getTraitNames(r.ce, r.heap) = getTraitNames(c, h)
           /\ Range(getInterfaceNames(r.ce, r.heap)) = Range(getInterfaceNames(c, h)) \cup Range(InterfacesOf[p])
           /\ Lookup(r.ce.function_table) =
                 LET own == Lookup(c.function_table)
                     theirs == Lookup([arData |-> MethodsOf[p], nTableSize |-> TableSize])
                 IN  [m \in DOMAIN own \cup DOMAIN theirs |-> IF m \in DOMAIN own THEN own[m] ELSE theirs[m]]
  <1> DEFINE t == c.function_table
             u == Fold(Inheriting, t, MethodsOf[p])
             v == [arData |-> MethodsOf[p], nTableSize |-> TableSize]
             items == getInterfaceNames(c, h)
             names == getInterfaceNames(r.ce, r.heap)
  <1>1. /\ r.ce.parent = p /\ r.ce.function_table = u
        /\ getTraitNames(r.ce, r.heap) = getTraitNames(c, h)
        /\ names = IF InterfacesOf[p] = << >> THEN items ELSE items \o ToAdd(InterfacesOf[p], items)
    BY InheritSound
  <1>2. items \in Seq(Names) /\ t \in Tables /\ Unique(t) /\ ~Repeats(items)
    BY NamesHeld, EntryParts DEF Sound, Clean
  <1>3. InterfacesOf[p] \in Seq(Interfaces) /\ InterfacesOf[p] \in Seq(Names) /\ ~Repeats(InterfacesOf[p])
    <2>1. Seq(Interfaces) \subseteq Seq(Names)
      BY SeqDef DEF Names
    <2> QED BY <2>1, SurgeryAssumption
  <1>4. Range(InterfacesOf[p]) \subseteq Interfaces
    BY <1>3, LenProperties, ElementOfSeq DEF Range
  <1>5. Range(names) = Range(items) \cup Range(InterfacesOf[p]) /\ ~Repeats(names)
    <2>1. CASE InterfacesOf[p] = << >>
      <3>1. Range(InterfacesOf[p]) = {} /\ names = items
        BY <1>1, <2>1 DEF Range
      <3> HIDE DEF names
      <3> QED BY <1>2, <3>1
    <2>2. CASE InterfacesOf[p] # << >>
      <3>1. names = items \o ToAdd(InterfacesOf[p], items)
        BY <1>1, <2>2
      <3> HIDE DEF names, items
      <3> QED BY <1>2, <1>3, <3>1, ToAddRange
    <2> QED BY <2>1, <2>2
  <1>6. v \in Tables /\ Unique(v) /\ Pairs(v) = Range(MethodsOf[p])
    BY ParentMethods
  <1>7. u \in Tables /\ Unique(u) /\ Pairs(u) = Pairs(t) \cup {b \in Range(MethodsOf[p]) : b.key \notin KeysOf(t)}
    <2>1. /\ MethodsOf[p] \in Seq(Bucket)
          /\ \A i, j \in DOMAIN MethodsOf[p] : MethodsOf[p][i].key = MethodsOf[p][j].key => i = j
      BY ParentMethods
    <2> HIDE DEF t
    <2> QED BY <1>2, <2>1, InheritingPairs, InheritingUnique, InheritingType
  <1> HIDE DEF u, v
  <1>8. Lookup(u) = [m \in DOMAIN Lookup(t) \cup DOMAIN Lookup(v) |->
                        IF m \in DOMAIN Lookup(t) THEN Lookup(t)[m] ELSE Lookup(v)[m]]
    <2>1. Pairs(u) = Pairs(t) \cup {b \in Pairs(v) : b.key \notin KeysOf(t)}
      BY <1>6, <1>7
    <2> QED BY <1>2, <1>6, <1>7, <2>1, LookupJoined
  <1>9. Clean(r.ce, r.heap)
    <2>1. Range(names) \subseteq Interfaces
      BY <1>4, <1>5 DEF Clean
    <2>2. ~Repeats(getTraitNames(r.ce, r.heap)) /\ Unique(r.ce.function_table)
      BY <1>1, <1>7 DEF Clean
    <2> QED BY <1>5, <2>1, <2>2 DEF Clean
  <1> QED BY <1>1, <1>5, <1>8, <1>9 DEF v

LEMMA removeParentKept ==
    ASSUME SurgeryInv, Clean(ce, heap), removeParent, tidy'
    PROVE  Clean(ce', heap') /\ Promise!removeParent
  <1> DEFINE can == hasParent(ce) /\ Removable(ce, heap)
  <1>1. /\ Running
        /\ can => ce' = WithoutParent(ce, heap).ce /\ heap' = WithoutParent(ce, heap).heap
        /\ ~can => UNCHANGED <<ce, heap>>
        /\ hasParent(ce) => Dense(ce.function_table)
    BY DEF removeParent, Becomes
  <1>2. can <=> ce.parent # Null /\ [p \in Parents |-> Range(InterfacesOf[p])][ce.parent]
                                        \subseteq Range(getInterfaceNames(ce, heap))
    <2>1. ce.parent # Null => ce.parent \in Parents
      BY <1>1, RunningFacts, EntryParts DEF Sound
    <2> QED BY <2>1 DEF hasParent, Removable
  <1>3. CASE can
    <2> DEFINE r == WithoutParent(ce, heap)
    <2>1. /\ Clean(r.ce, r.heap) /\ r.ce.parent = Null
          /\ getTraitNames(r.ce, r.heap) = getTraitNames(ce, heap)
          /\ Range(getInterfaceNames(r.ce, r.heap)) = Promise!Remaining
          /\ Lookup(r.ce.function_table) = Promise!Own
      BY <1>1, <1>3, WithoutParentKept
    <2>2. ce' = r.ce /\ heap' = r.heap
      BY <1>1, <1>3
    <2> HIDE DEF r, can
    <2> QED BY <1>2, <1>3, <2>1, <2>2 DEF Promise!removeParent
  <1>4. CASE ~can
    <2>1. ce' = ce /\ heap' = heap
      BY <1>1, <1>4
    <2> HIDE DEF can
    <2> QED BY <1>2, <1>4, <2>1 DEF Promise!removeParent
  <1> QED BY <1>3, <1>4

LEMMA newParentKept ==
    ASSUME SurgeryInv, Clean(ce, heap), NEW p, newParent(p), tidy'
    PROVE  Clean(ce', heap') /\ Promise!SetParent(p)
  <1> DEFINE alone == IF hasParent(ce) THEN WithoutParent(ce, heap) ELSE [ce |-> ce, heap |-> heap]
             cannot == hasParent(ce) /\ ~Removable(ce, heap)
  <1>1. /\ Running
        /\ cannot => UNCHANGED <<ce, heap>>
        /\ (~cannot /\ p \in Parents) =>
              ce' = Inherit(alone.ce, alone.heap, p).ce /\ heap' = Inherit(alone.ce, alone.heap, p).heap
        /\ (~cannot /\ p \notin Parents) => ce' = alone.ce /\ heap' = alone.heap
        /\ hasParent(ce) => Dense(ce.function_table)
    BY DEF newParent, Becomes
  <1>2. cannot <=> ce.parent # Null /\ ~([q \in Parents |-> Range(InterfacesOf[q])][ce.parent]
                                        \subseteq Range(getInterfaceNames(ce, heap)))
    <2>1. ce.parent # Null => ce.parent \in Parents
      BY <1>1, RunningFacts, EntryParts DEF Sound
    <2> QED BY <2>1 DEF hasParent, Removable
  <1>3. /\ Sound(ce, heap) /\ internal \in BOOLEAN /\ cli \in BOOLEAN /\ Unused(heap) # {}
    BY <1>1, RunningFacts
  <1>4. ASSUME ~cannot
        PROVE  /\ Sound(alone.ce, alone.heap) /\ (alone.ce.num_interfaces = 0 => Unused(alone.heap) # {})
               /\ Clean(alone.ce, alone.heap) /\ alone.ce.parent = Null
               /\ getTraitNames(alone.ce, alone.heap) = getTraitNames(ce, heap)
               /\ Range(getInterfaceNames(alone.ce, alone.heap)) = Promise!Remaining
               /\ Lookup(alone.ce.function_table) = Promise!Own
    <2>1. CASE hasParent(ce)
      <3>1. alone = WithoutParent(ce, heap) /\ Removable(ce, heap) /\ Dense(ce.function_table)
        BY <1>1, <1>4, <2>1
      <3> HIDE DEF alone
      <3>2. Sound(alone.ce, alone.heap) /\ (alone.ce.num_interfaces = 0 => Unused(alone.heap) # {})
        BY <1>3, <3>1, WithoutParentSound
      <3>3. /\ Clean(alone.ce, alone.heap) /\ alone.ce.parent = Null
            /\ getTraitNames(alone.ce, alone.heap) = getTraitNames(ce, heap)
            /\ Range(getInterfaceNames(alone.ce, alone.heap)) = Promise!Remaining
            /\ Lookup(alone.ce.function_table) = Promise!Own
        BY <1>1, <2>1, <3>1, WithoutParentKept
      <3> QED BY <3>2, <3>3
    <2>2. CASE ~hasParent(ce)
      <3>1. alone.ce = ce /\ alone.heap = heap /\ ce.parent = Null
        BY <2>2 DEF hasParent
      <3> HIDE DEF alone
      <3> QED BY <1>3, <3>1 DEF Promise!Remaining, Promise!Own
    <2> QED BY <2>1, <2>2
  <1> HIDE DEF alone, cannot
  <1>5. CASE cannot
    <2>1. ce' = ce /\ heap' = heap
      BY <1>1, <1>5
    <2> QED BY <1>2, <1>5, <2>1 DEF Promise!SetParent
  <1>6. CASE ~cannot /\ p \notin Parents
    <2>1. ce' = alone.ce /\ heap' = alone.heap
      BY <1>1, <1>6
    <2> QED BY <1>2, <1>4, <1>6, <2>1 DEF Promise!SetParent
  <1>7. CASE ~cannot /\ p \in Parents
    <2> DEFINE r == Inherit(alone.ce, alone.heap, p)
               own == Lookup(alone.ce.function_table)
               theirs == Lookup([arData |-> MethodsOf[p], nTableSize |-> TableSize])
    <2>1. ce' = r.ce /\ heap' = r.heap
      BY <1>1, <1>7
    <2>2. /\ Clean(r.ce, r.heap) /\ r.ce.parent = p
          /\ getTraitNames(r.ce, r.heap) = getTraitNames(alone.ce, alone.heap)
          /\ Range(getInterfaceNames(r.ce, r.heap))
                = Range(getInterfaceNames(alone.ce, alone.heap)) \cup Range(InterfacesOf[p])
          /\ Lookup(r.ce.function_table)
                = [m \in DOMAIN own \cup DOMAIN theirs |-> IF m \in DOMAIN own THEN own[m] ELSE theirs[m]]
      BY <1>3, <1>4, <1>7, InheritKept
    <2>3. own = Promise!Own
      BY <1>4, <1>7
    <2> HIDE DEF r, own
    <2> QED BY <1>2, <1>4, <1>7, <2>1, <2>2, <2>3 DEF Promise!SetParent
  <1> QED BY <1>5, <1>6, <1>7

\* Classes as the engine links them are clean.
LEMMA CleanInit == ASSUME ClassInit PROVE Clean(ce, heap)
  <1>1. PICK own \in UpTo1(Interfaces), uses \in UpTo1(Traits), m \in UpTo1(Keys), p \in Parents \cup {Null} :
           Linked(own, uses, m, p)
    BY DEF ClassInit
  <1> DEFINE items == IF p = Null THEN own ELSE InterfacesOf[p] \o ToAdd(own, InterfacesOf[p])
             inherited == IF p = Null THEN << >> ELSE MethodsOf[p]
             declared == [i \in DOMAIN m |-> [key |-> m[i], val |-> Class]]
             table == Fold(Inheriting, EmptyTable(TableSize), declared \o inherited)
  <1>2. /\ ce.interfaces = IF items = << >> THEN Null ELSE 1
        /\ ce.num_interfaces = Len(items)
        /\ ce.trait_names = IF uses = << >> THEN Null ELSE 2
        /\ ce.num_traits = Len(uses)
        /\ ce.function_table = table
        /\ heap.blocks = [b \in Blocks |->
              IF b = 1 /\ items # << >> THEN [live |-> TRUE, persistent |-> internal, items |-> items]
              ELSE IF b = 2 /\ uses # << >> THEN [live |-> TRUE, persistent |-> internal, items |-> uses]
              ELSE Free]
    BY <1>1 DEF Linked
  <1>3. /\ own \in Seq(Interfaces) /\ own \in Seq(Names) /\ ~Repeats(own)
        /\ uses \in Seq(Names) /\ ~Repeats(uses)
    <2>1. own \in Seq(Interfaces) /\ uses \in Seq(Traits)
      BY UpTo1Type
    <2>2. Seq(Interfaces) \subseteq Seq(Names) /\ Seq(Traits) \subseteq Seq(Names)
      BY SeqDef DEF Names
    <2>3. \A S : \A s \in UpTo1(S) : ~Repeats(s)
      BY DEF UpTo1, Repeats
    <2> QED BY <2>1, <2>2, <2>3
  <1>4. items \in Seq(Names) /\ ~Repeats(items) /\ Range(items) \subseteq Interfaces
    <2>1. Range(own) \subseteq Interfaces
      BY <1>3, LenProperties, ElementOfSeq DEF Range
    <2>2. CASE p = Null
      BY <1>3, <2>1, <2>2
    <2>3. CASE p # Null
      <3> DEFINE theirs == InterfacesOf[p]
      <3>a. p \in Parents
        BY <2>3
      <3>b. theirs \in Seq(Interfaces) /\ ~Repeats(theirs)
        BY <3>a, SurgeryAssumption
      <3>c. Seq(Interfaces) \subseteq Seq(Names)
        BY SeqDef DEF Names
      <3>1. theirs \in Seq(Interfaces) /\ ~Repeats(theirs) /\ Seq(Interfaces) \subseteq Seq(Names)
        BY <3>b, <3>c
      <3> HIDE DEF theirs
      <3>2. Range(theirs) \subseteq Interfaces
        BY <3>1, LenProperties, ElementOfSeq DEF Range
      <3>3. ToAdd(own, theirs) \in Seq(Names) /\ ~Repeats(theirs \o ToAdd(own, theirs))
            /\ Range(theirs \o ToAdd(own, theirs)) = Range(theirs) \cup Range(own)
        BY <1>3, <3>1, ToAddRange, ChoiceTypes
      <3>4. theirs \o ToAdd(own, theirs) \in Seq(Names)
        BY <3>1, <3>3, ConcatProperties
      <3>5. items = theirs \o ToAdd(own, theirs)
        BY <2>3 DEF theirs
      <3> HIDE DEF items
      <3> QED BY <2>1, <3>2, <3>3, <3>4, <3>5
    <2> QED BY <2>2, <2>3
  <1>5. Unique(table)
    <2>1. m \in Seq(Keys)
      BY UpTo1Type
    <2>2. Len(m) \in Nat /\ DOMAIN m = 1..Len(m) /\ \A i \in 1..Len(m) : m[i] \in Keys
      BY <2>1, LenProperties, ElementOfSeq
    <2>3. Class \in Vals
      BY SurgeryAssumption
    <2>4. declared \in [1..Len(m) -> Bucket]
      BY <2>2, <2>3 DEF Bucket
    <2> HIDE DEF declared
    <2>5. declared \in Seq(Bucket)
      BY <2>2, <2>4, SeqDef
    <2>6. inherited \in Seq(Bucket)
      BY SurgeryAssumption
    <2> HIDE DEF inherited
    <2>7. declared \o inherited \in Seq(Bucket)
      BY <2>5, <2>6, ConcatProperties
    <2>8. EmptyTable(TableSize) \in Tables
      BY SurgeryAssumption DEF EmptyTable, Tables
    <2>9. Unique(EmptyTable(TableSize))
      BY DEF Unique, Elements, EmptyTable
    <2> QED BY <2>7, <2>8, <2>9, InheritingUnique
  <1> HIDE DEF items, table
  <1>6. getInterfaceNames(ce, heap) = items
    <2>1. CASE items = << >>
      <3>1. ce.num_interfaces = 0
        BY <1>2, <2>1
      <3> QED BY <2>1, <3>1 DEF getInterfaceNames, Items
    <2>2. CASE items # << >>
      <3>1. Len(items) # 0 /\ SubSeq(items, 1, Len(items)) = items
        BY <1>4, <2>2, LenProperties, EmptySeq, SubSeqFull
      <3>2. ce.interfaces = 1 /\ heap.blocks[1].items = items
        BY <1>2, <2>2, BlockFacts
      <3> QED BY <1>2, <3>1, <3>2 DEF getInterfaceNames, Items
    <2> QED BY <2>1, <2>2
  <1>7. getTraitNames(ce, heap) = uses
    <2>1. CASE uses = << >>
      <3>1. ce.num_traits = 0
        BY <1>2, <2>1
      <3> QED BY <2>1, <3>1 DEF getTraitNames, Items
    <2>2. CASE uses # << >>
      <3>1. Len(uses) # 0 /\ SubSeq(uses, 1, Len(uses)) = uses
        BY <1>3, <2>2, LenProperties, EmptySeq, SubSeqFull
      <3>2. ce.trait_names = 2 /\ heap.blocks[2].items = uses
        BY <1>2, <2>2, BlockFacts
      <3> QED BY <1>2, <3>1, <3>2 DEF getTraitNames, Items
    <2> QED BY <2>1, <2>2
  <1> QED BY <1>2, <1>3, <1>4, <1>5, <1>6, <1>7 DEF Clean

\* Every promise was kept so far, and the next will be if the program is tidy.
PromiseInv ==
    /\ SurgeryInv
    /\ kept = TRUE
    /\ (tidy /\ phase # "ended") => Clean(ce, heap)

\* An operation that does what it promises, and leaves a clean class, to a tidy program.
LEMMA PromiseNext ==
    ASSUME SurgeryInv', kept' = TRUE, tidy' => Clean(ce', heap')
    PROVE  PromiseInv'
  BY DEF PromiseInv

LEMMA ArraysPromise ==
    ASSUME PromiseInv, SurgeryInv',
           \/ \E names \in From1To2(Traits) : addTraits(names) \/ removeTraits(Range(names))
           \/ \E names \in From1To2(Interfaces \cup {Unknown}) :
                 addInterfaces(names) \/ removeInterfaces(Range(names))
    PROVE  PromiseInv'
  <1>1. SurgeryInv /\ kept = TRUE /\ tidy \in BOOLEAN /\ (phase = "running" => (tidy => Clean(ce, heap)))
    BY DEF PromiseInv, SurgeryInv, ClassTypeOK
  <1>2. ASSUME NEW names \in From1To2(Traits), addTraits(names) PROVE PromiseInv'
    <2>1. /\ phase = "running" /\ (tidy' => tidy)
          /\ kept' = (kept /\ (tidy' => Promise!addTraits(Range(names))))
      BY <1>2 DEF addTraits, Running, Promised
    <2>2. tidy' => Clean(ce', heap') /\ Promise!addTraits(Range(names))
      BY <1>1, <1>2, <2>1, addTraitsKept
    <2>3. kept' = TRUE
      BY <1>1, <2>1, <2>2
    <2> QED BY <2>2, <2>3, PromiseNext
  <1>3. ASSUME NEW names \in From1To2(Traits), removeTraits(Range(names)) PROVE PromiseInv'
    <2>1. /\ phase = "running" /\ (tidy' => tidy)
          /\ kept' = (kept /\ (tidy' => Promise!removeTraits(Range(names))))
      BY <1>3 DEF removeTraits, Running, Promised
    <2>2. tidy' => Clean(ce', heap') /\ Promise!removeTraits(Range(names))
      BY <1>1, <1>3, <2>1, removeTraitsKept
    <2>3. kept' = TRUE
      BY <1>1, <2>1, <2>2
    <2> QED BY <2>2, <2>3, PromiseNext
  <1>4. ASSUME NEW names \in From1To2(Interfaces \cup {Unknown}), addInterfaces(names) PROVE PromiseInv'
    <2>1. /\ phase = "running" /\ (tidy' => tidy)
          /\ kept' = (kept /\ (tidy' => Promise!addInterfaces(Range(names))))
      BY <1>4 DEF addInterfaces, Running, Promised
    <2>2. tidy' => Clean(ce', heap') /\ Promise!addInterfaces(Range(names))
      BY <1>1, <1>4, <2>1, addInterfacesKept
    <2>3. kept' = TRUE
      BY <1>1, <2>1, <2>2
    <2> QED BY <2>2, <2>3, PromiseNext
  <1>5. ASSUME NEW names \in From1To2(Interfaces \cup {Unknown}), removeInterfaces(Range(names)) PROVE PromiseInv'
    <2>1. /\ phase = "running" /\ (tidy' => tidy)
          /\ kept' = (kept /\ (tidy' => Promise!removeInterfaces(Range(names))))
      BY <1>5 DEF removeInterfaces, Running, Promised
    <2>2. tidy' => Clean(ce', heap') /\ Promise!removeInterfaces(Range(names))
      BY <1>1, <1>5, <2>1, removeInterfacesKept
    <2>3. kept' = TRUE
      BY <1>1, <2>1, <2>2
    <2> QED BY <2>2, <2>3, PromiseNext
  <1> QED BY <1>2, <1>3, <1>4, <1>5

LEMMA MethodsPromise ==
    ASSUME PromiseInv, SurgeryInv',
           \/ \E m \in Keys : addMethod(m)
           \/ \E names \in From1To2(Keys) : removeMethods(names)
           \/ removeParent
           \/ \E p \in Parents \cup {Unknown} : newParent(p)
    PROVE  PromiseInv'
  <1>1. SurgeryInv /\ kept = TRUE /\ tidy \in BOOLEAN /\ (phase = "running" => (tidy => Clean(ce, heap)))
    BY DEF PromiseInv, SurgeryInv, ClassTypeOK
  <1>2. ASSUME NEW m \in Keys, addMethod(m) PROVE PromiseInv'
    <2>1. /\ phase = "running" /\ (tidy' => tidy)
          /\ kept' = (kept /\ (tidy' => Promise!addMethod(m)))
      BY <1>2 DEF addMethod, Running, Promised
    <2>2. tidy' => Clean(ce', heap') /\ Promise!addMethod(m)
      BY <1>1, <1>2, <2>1, addMethodKept
    <2>3. kept' = TRUE
      BY <1>1, <2>1, <2>2
    <2> QED BY <2>2, <2>3, PromiseNext
  <1>3. ASSUME NEW names \in From1To2(Keys), removeMethods(names) PROVE PromiseInv'
    <2>1. /\ phase = "running" /\ (tidy' => tidy)
          /\ kept' = (kept /\ (tidy' => Promise!removeMethods(Range(names))))
      BY <1>3 DEF removeMethods, Running, Promised
    <2>2. tidy' => Clean(ce', heap') /\ Promise!removeMethods(Range(names))
      BY <1>1, <1>3, <2>1, removeMethodsKept
    <2>3. kept' = TRUE
      BY <1>1, <2>1, <2>2
    <2> QED BY <2>2, <2>3, PromiseNext
  <1>4. ASSUME removeParent PROVE PromiseInv'
    <2>1. /\ phase = "running" /\ (tidy' => tidy)
          /\ kept' = (kept /\ (tidy' => Promise!removeParent))
      BY <1>4 DEF removeParent, Running, Promised
    <2>2. tidy' => Clean(ce', heap') /\ Promise!removeParent
      BY <1>1, <1>4, <2>1, removeParentKept
    <2>3. kept' = TRUE
      BY <1>1, <2>1, <2>2
    <2> QED BY <2>2, <2>3, PromiseNext
  <1>5. ASSUME NEW p \in Parents \cup {Unknown}, newParent(p) PROVE PromiseInv'
    <2>1. /\ phase = "running" /\ (tidy' => tidy)
          /\ kept' = (kept /\ (tidy' => Promise!SetParent(p)))
      BY <1>5 DEF newParent, Running, Promised
    <2>2. tidy' => Clean(ce', heap') /\ Promise!SetParent(p)
      BY <1>1, <1>5, <2>1, newParentKept
    <2>3. kept' = TRUE
      BY <1>1, <2>1, <2>2
    <2> QED BY <2>2, <2>3, PromiseNext
  <1> QED BY <1>2, <1>3, <1>4, <1>5

LEMMA PromiseStep == ASSUME PromiseInv, [ClassNext]_class_vars PROVE PromiseInv'
  <1>1. SurgeryInv'
    BY SurgeryStep DEF PromiseInv
  <1>2. CASE NextRequest
    <2>1. phase # "ended" /\ UNCHANGED <<ce, heap, tidy, kept>>
      BY <1>2 DEF NextRequest
    <2> QED BY <1>1, <2>1 DEF PromiseInv
  <1>3. CASE DestroyClass
    <2>1. phase' = "ended" /\ kept' = kept
      BY <1>3 DEF DestroyClass
    <2> QED BY <1>1, <2>1 DEF PromiseInv
  <1>4. CASE UNCHANGED class_vars
    <2>1. UNCHANGED <<ce, heap, phase, tidy, kept>>
      BY <1>4 DEF class_vars
    <2> QED BY <1>1, <2>1 DEF PromiseInv
  <1>5. CASE ClassTerminated
    BY <1>4, <1>5 DEF ClassTerminated
  <1> QED BY <1>1, <1>2, <1>3, <1>4, <1>5, ArraysPromise, MethodsPromise DEF ClassNext

\* As long as the program is tidy, every operation does to the sets of names
\* and to the methods what ClassParts promises, whatever was done before.
THEOREM PromisesKept == ClassSpec => []KeepsPromise
  <1>1. ClassInit => PromiseInv
    <2>1. ClassInit => kept = TRUE
      BY DEF ClassInit
    <2> QED BY <2>1, SurgeryInit, CleanInit DEF PromiseInv
  <1>2. PromiseInv => KeepsPromise
    BY DEF PromiseInv, KeepsPromise
  <1>3. PromiseInv /\ [ClassNext]_class_vars => PromiseInv'
    BY PromiseStep
  <1> QED BY <1>1, <1>2, <1>3, PTL DEF ClassSpec
=============================================================================
