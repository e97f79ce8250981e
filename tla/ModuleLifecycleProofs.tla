----------------------- MODULE ModuleLifecycleProofs -----------------------
(* Theorems about ModuleLifecycle, for any number of classes and objects,  *)
(* either build and any bounds: the order of the shutdown queue, the slots *)
(* and the registry, and that a program within SafeUse has every closure   *)
(* out of the SAPI's structure before PHP frees it.                        *)
EXTENDS ModuleLifecycle, SequenceTheorems, TLAPS

LEMMA DeclLemma ==
    ASSUME NEW d \in Decls, NEW c \in Classes
    PROVE  d[c] \in DeclType
  BY DeclAssumption

LEMMA KeyType ==
    ASSUME NEW c \in Classes
    PROVE  Key(c) \in Keys
  BY DEF Keys

\* clear_module() leaves the slots and the registry well typed.
LEMMA ClearType ==
    ASSUME TypeOK, NEW c \in Classes, Clear(c)
    PROVE  /\ global_module' \in [Keys -> Instances \cup {NoOne}]
           /\ registry' \subseteq Instances /\ ended' \subseteq Instances
           /\ ze_other_ptr' \in [Instances -> Instances \cup {NoOne}]
  <1>1. Key(c) \in Keys
    BY KeyType
  <1>2. GetModule(c) \in Instances \cup {NoOne}
    BY <1>1 DEF TypeOK, GetModule
  <1>3. CASE GetModule(c) = NoOne
    BY <1>3 DEF TypeOK, Clear, slots
  <1>4. CASE GetModule(c) # NoOne
    BY <1>2, <1>4 DEF TypeOK, Clear
  <1> QED BY <1>3, <1>4

\* So does module_destructor(), for all it changes.
LEMMA DestructType ==
    ASSUME TypeOK, NEW i \in Instances, Destruct(i)
    PROVE  /\ activate' \in Hook /\ deactivate' \in Hook
           /\ original_sapi_activate' \in [Instances -> Hook]
           /\ original_sapi_deactivate' \in [Instances -> Hook]
           /\ global_module' \in [Keys -> Instances \cup {NoOne}]
           /\ registry' \subseteq Instances /\ ended' \subseteq Instances
           /\ ze_other_ptr' \in [Instances -> Instances \cup {NoOne}]
           /\ balance' \in [Instances -> Int] /\ since' \in [Instances -> Int]
           /\ skipped' \in BOOLEAN /\ dead' \in BOOLEAN
  <1>1. ClassOf[i] \in Classes
    BY ClassAssumption
  <1>2. balance' \in [Instances -> Int] /\ since' \in [Instances -> Int]
        /\ skipped' \in BOOLEAN /\ dead' \in BOOLEAN
    BY DEF TypeOK, Destruct
  <1>3. CASE Persistent(i) /\ Sapi(i)
    BY <1>2, <1>3 DEF TypeOK, Destruct, hooks, slots
  <1>4. CASE ~(Persistent(i) /\ Sapi(i))
    <2>1. RestoreActivate(i) /\ RestoreDeactivate(i)
      BY <1>4 DEF Destruct
    <2>2. activate' \in Hook /\ original_sapi_activate' \in [Instances -> Hook]
      BY <2>1 DEF TypeOK, RestoreActivate, Hook
    <2>3. deactivate' \in Hook /\ original_sapi_deactivate' \in [Instances -> Hook]
      BY <2>1 DEF TypeOK, RestoreDeactivate, Hook
    <2>4. UNCHANGED slots \/ Clear(ClassOf[i])
      BY <1>4 DEF Destruct
    <2>5. CASE UNCHANGED slots
      BY <1>2, <2>2, <2>3, <2>5 DEF TypeOK, slots
    <2>6. CASE Clear(ClassOf[i])
      BY <1>1, <1>2, <2>2, <2>3, <2>6, ClearType
    <2> QED BY <2>4, <2>5, <2>6
  <1> QED BY <1>3, <1>4

\* The new entry, the new hooks and the queued destructor are well typed.
LEMMA ConstructType ==
    ASSUME TypeOK, NEW i \in Instances, Construct(i)
    PROVE  TypeOK'
  <1>1. ClassOf[i] \in Classes /\ decl[ClassOf[i]] \in DeclType
    BY ClassAssumption, DeclLemma DEF TypeOK
  <1>2. Key(ClassOf[i]) \in Keys
    BY <1>1, KeyType
  <1>3. UNCHANGED <<env, ended, byHand, sapiCalls, userFns>>
    BY DEF Construct
  <1>4. activate' \in Hook /\ deactivate' \in Hook
        /\ original_sapi_activate' \in [Instances -> Hook]
        /\ original_sapi_deactivate' \in [Instances -> Hook]
    BY DEF TypeOK, Construct, Hook
  <1>5. registry' \subseteq Instances
        /\ ze_other_ptr' \in [Instances -> Instances \cup {NoOne}]
        /\ global_module' \in [Keys -> Instances \cup {NoOne}]
    BY <1>2 DEF TypeOK, Construct
  <1>6. skipped' \in BOOLEAN /\ dead' \in BOOLEAN
    BY DEF TypeOK, Construct
  <1>7. since' \in [Instances -> Int]
    BY DEF TypeOK, Construct, Bump
  <1>8. balance' \in [Instances -> Int]
    <2>1. \A S : Bump(balance, S, -1) \in [Instances -> Int]
      BY DEF TypeOK, Bump
    <2>2. \A S, U : Bump(Bump(balance, S, -1), U, 1) \in [Instances -> Int]
      BY <2>1 DEF Bump
    <2> QED BY <2>2 DEF Construct
  <1>9. shutq' \in Seq(Fn) /\ phase' \in Phase
    <2>1. [kind |-> "outer", who |-> i] \in Fn
      BY DEF Fn
    <2>2. QueueDestructor(i) \in Seq(Fn)
      BY <2>1 DEF TypeOK, QueueDestructor
    <2>3. << >> \in Seq(Fn)
      OBVIOUS
    <2>4. shutq' \in Seq(Fn)
      BY <2>2, <2>3 DEF TypeOK, Construct
    <2>5. phase' \in Phase
      BY DEF TypeOK, Construct, Phase
    <2> QED BY <2>4, <2>5
  <1> QED BY <1>3, <1>4, <1>5, <1>6, <1>7, <1>8, <1>9 DEF TypeOK, env

LEMMA SapiDeactivateType ==
    ASSUME TypeOK, SapiDeactivate
    PROVE  /\ balance' \in [Instances -> Int] /\ since' \in [Instances -> Int]
           /\ skipped' \in BOOLEAN /\ dead' \in BOOLEAN
  BY DEF TypeOK, SapiDeactivate, Bump

LEMMA TypeStep == TypeOK /\ [Next]_vars => TypeOK'
  <1> SUFFICES ASSUME TypeOK, [Next]_vars PROVE TypeOK'
    OBVIOUS
  <1> USE DEF env, hooks, slots, calls
  <1>1. ASSUME NEW i \in Instances, Attach(i) PROVE TypeOK'
    BY <1>1 DEF TypeOK, Attach
  <1>2. ASSUME NEW i \in Instances, Construct(i) PROVE TypeOK'
    BY <1>2, ConstructType
  <1>3. ASSUME NEW i \in Instances, StandardActivate(i) PROVE TypeOK'
    <2>1. SapiActivate
      BY <1>3 DEF StandardActivate
    <2>2. balance' \in [Instances -> Int] /\ since' \in [Instances -> Int]
          /\ skipped' \in BOOLEAN /\ dead' \in BOOLEAN
      BY <2>1 DEF TypeOK, SapiActivate, Bump
    <2> QED BY <1>3, <2>2 DEF TypeOK, StandardActivate
  <1>4. ASSUME NEW i \in Instances, StandardDeactivate(i) PROVE TypeOK'
    <2>1. SapiDeactivate
      BY <1>4 DEF StandardDeactivate
    <2> QED BY <1>4, <2>1, SapiDeactivateType DEF TypeOK, StandardDeactivate
  <1>5. ASSUME NEW i \in Instances, ModuleDestructor(i) PROVE TypeOK'
    <2>1. Destruct(i)
      BY <1>5 DEF ModuleDestructor
    <2> QED BY <1>5, <2>1, DestructType DEF TypeOK, ModuleDestructor
  <1>6. ASSUME NEW c \in Classes, ClearModule(c) PROVE TypeOK'
    <2>1. Clear(c)
      BY <1>6 DEF ClearModule
    <2> QED BY <1>6, <2>1, ClearType DEF TypeOK, ClearModule
  <1>7. ASSUME RegisterShutdownFunction PROVE TypeOK'
    <2>1. [kind |-> IF phase = "script" THEN "user" ELSE "late", who |-> NoOne] \in Fn
      BY DEF Fn
    <2>2. shutq' \in Seq(Fn)
      BY <1>7, <2>1 DEF TypeOK, RegisterShutdownFunction
    <2> QED BY <1>7, <2>2 DEF TypeOK, RegisterShutdownFunction
  <1>8. ASSUME EndScript PROVE TypeOK'
    BY <1>8 DEF TypeOK, EndScript, Phase
  <1>9. ASSUME RunOuter PROVE TypeOK'
    <2>1. Head(shutq) \in Fn /\ Tail(shutq) \in Seq(Fn) /\ Head(shutq).kind = "outer"
      BY <1>9 DEF TypeOK, RunOuter, AtHead
    <2>2. [kind |-> "inner", who |-> Head(shutq).who] \in Fn
      BY <2>1 DEF Fn
    <2>3. shutq' \in Seq(Fn)
      BY <1>9, <2>1, <2>2 DEF RunOuter
    <2> QED BY <1>9, <2>3 DEF TypeOK, RunOuter
  <1>10. ASSUME RunInner PROVE TypeOK'
    <2>1. Head(shutq) \in Fn /\ Tail(shutq) \in Seq(Fn) /\ Head(shutq).kind = "inner"
      BY <1>10 DEF TypeOK, RunInner, AtHead
    <2>2. Head(shutq).who \in Instances /\ Destruct(Head(shutq).who)
      BY <1>10, <2>1 DEF RunInner, Fn
    <2> QED BY <1>10, <2>1, <2>2, DestructType DEF TypeOK, RunInner
  <1>11. ASSUME EndUserFn PROVE TypeOK'
    BY <1>11 DEF TypeOK, EndUserFn, AtHead
  <1>12. ASSUME FreeClosures PROVE TypeOK'
    BY <1>12 DEF TypeOK, FreeClosures, Phase
  <1>13. ASSUME LastDeactivate PROVE TypeOK'
    <2>1. SapiDeactivate
      BY <1>13 DEF LastDeactivate
    <2> QED BY <1>13, <2>1, SapiDeactivateType DEF TypeOK, LastDeactivate, Phase
  <1>14. ASSUME PhpModuleShutdown PROVE TypeOK'
    BY <1>14 DEF TypeOK, PhpModuleShutdown, Phase
  <1>15. CASE UNCHANGED vars
    BY <1>15 DEF TypeOK, vars
  <1> QED
    BY <1>1, <1>2, <1>3, <1>4, <1>5, <1>6, <1>7, <1>8, <1>9, <1>10, <1>11,
       <1>12, <1>13, <1>14, <1>15 DEF Next, Engine, Terminated

\* The state of the lifecycle keeps its types.
THEOREM TypeCorrect == Spec => []TypeOK
  <1>1. Init => TypeOK
    <2> SUFFICES ASSUME Init PROVE TypeOK
      OBVIOUS
    <2>1. shutq \in Seq(Fn)
      BY DEF Init
    <2>2. activate \in Hook /\ deactivate \in Hook
      BY DEF Init, Hook
    <2>3. /\ original_sapi_activate \in [Instances -> Hook]
          /\ original_sapi_deactivate \in [Instances -> Hook]
          /\ global_module \in [Keys -> Instances \cup {NoOne}]
          /\ ze_other_ptr \in [Instances -> Instances \cup {NoOne}]
          /\ balance \in [Instances -> Int] /\ since \in [Instances -> Int]
      BY DEF Init, Hook
    <2>4. /\ decl \in Decls /\ target_persistent \in BOOLEAN /\ phase \in Phase
          /\ host \in [activate : {Null, Native}, deactivate : {Null, Native}]
          /\ registry \subseteq Instances /\ ended \subseteq Instances
          /\ skipped \in BOOLEAN /\ dead \in BOOLEAN
          /\ byHand \in Nat /\ sapiCalls \in Nat /\ userFns \in Nat
      BY DeclAssumption DEF Init, Phase
    <2> QED BY <2>1, <2>2, <2>3, <2>4 DEF TypeOK
  <1> QED BY <1>1, TypeStep, PTL DEF Spec

-----------------------------------------------------------------------------
(* The order of the shutdown functions.                                    *)

\* Every function the script registered precedes every module_destructor.
InnerLast(q) ==
    \A k, l \in DOMAIN q : (q[k].kind = "inner" /\ q[l].kind = "user") => l < k

NoInner(q) == \A k \in DOMAIN q : q[k].kind # "inner"

\* DestructorsRunLast alone is not inductive: the script may still register
\* functions, so while it runs no module_destructor may be queued at all.
QueueInv == InnerLast(shutq) /\ (phase = "script" => NoInner(shutq))

LEMMA AppendLast ==
    ASSUME NEW q \in Seq(Fn), NEW x \in Fn, InnerLast(q),
           x.kind = "user" => NoInner(q)
    PROVE  InnerLast(Append(q, x))
  <1>1. /\ DOMAIN Append(q, x) = 1 .. (Len(q) + 1)
        /\ \A k \in 1 .. Len(q) : Append(q, x)[k] = q[k]
        /\ Append(q, x)[Len(q) + 1] = x
    BY AppendProperties
  <1>2. DOMAIN q = 1 .. Len(q) /\ Len(q) \in Nat
    OBVIOUS
  <1> SUFFICES ASSUME NEW k \in 1 .. (Len(q) + 1), NEW l \in 1 .. (Len(q) + 1),
                      Append(q, x)[k].kind = "inner", Append(q, x)[l].kind = "user"
               PROVE  l < k
    BY <1>1 DEF InnerLast
  <1>3. CASE l = Len(q) + 1
    <2>1. x.kind = "user" /\ NoInner(q)
      BY <1>1, <1>3
    <2>2. k = Len(q) + 1 \/ k \in 1 .. Len(q)
      BY <1>2
    <2> QED BY <1>1, <1>2, <2>1, <2>2 DEF NoInner
  <1>4. CASE l \in 1 .. Len(q) /\ k = Len(q) + 1
    BY <1>2, <1>4
  <1>5. CASE l \in 1 .. Len(q) /\ k \in 1 .. Len(q)
    BY <1>1, <1>2, <1>5 DEF InnerLast
  <1> QED BY <1>2, <1>3, <1>4, <1>5

LEMMA AppendNoInner ==
    ASSUME NEW q \in Seq(Fn), NEW x \in Fn, NoInner(q), x.kind # "inner"
    PROVE  NoInner(Append(q, x))
  BY AppendProperties DEF NoInner

LEMMA TailLast ==
    ASSUME NEW q \in Seq(Fn), q # << >>, InnerLast(q)
    PROVE  Tail(q) \in Seq(Fn) /\ InnerLast(Tail(q))
  <1>1. /\ Tail(q) \in Seq(Fn) /\ Len(q) \in Nat \ {0}
        /\ DOMAIN Tail(q) = 1 .. (Len(q) - 1)
        /\ \A k \in 1 .. (Len(q) - 1) : Tail(q)[k] = q[k + 1]
    OBVIOUS
  <1>2. DOMAIN q = 1 .. Len(q)
    OBVIOUS
  <1> SUFFICES ASSUME NEW k \in 1 .. (Len(q) - 1), NEW l \in 1 .. (Len(q) - 1),
                      Tail(q)[k].kind = "inner", Tail(q)[l].kind = "user"
               PROVE  l < k
    BY <1>1 DEF InnerLast
  <1>3. k + 1 \in DOMAIN q /\ l + 1 \in DOMAIN q
    BY <1>1, <1>2
  <1>4. l + 1 < k + 1
    BY <1>1, <1>3 DEF InnerLast
  <1> QED BY <1>4

LEMMA QueueStep == TypeOK /\ QueueInv /\ [Next]_vars => QueueInv'
  <1> SUFFICES ASSUME TypeOK, QueueInv, [Next]_vars PROVE QueueInv'
    OBVIOUS
  <1> USE DEF QueueInv
  <1>0. shutq \in Seq(Fn)
    BY DEF TypeOK
  <1>1. ASSUME NEW i \in Instances, Construct(i) PROVE QueueInv'
    <2>1. CASE decl[ClassOf[i]].boots
      <3>1. shutq' = QueueDestructor(i) /\ phase' = phase
        BY <1>1, <2>1 DEF Construct
      <3>2. [kind |-> "outer", who |-> i] \in Fn
        BY DEF Fn
      <3> QED BY <1>0, <3>1, <3>2, AppendLast, AppendNoInner DEF QueueDestructor
    <2>2. CASE ~decl[ClassOf[i]].boots
      <3>1. phase' = "shutdown" /\ (shutq' = shutq \/ shutq' = << >>)
        BY <1>1, <2>2 DEF Construct
      <3> QED BY <3>1 DEF InnerLast
    <2> QED BY <2>1, <2>2
  <1>2. ASSUME RegisterShutdownFunction PROVE QueueInv'
    <2> DEFINE x == [kind |-> IF phase = "script" THEN "user" ELSE "late",
                     who  |-> NoOne]
    <2>1. x \in Fn /\ x.kind # "inner" /\ (x.kind = "user" => phase = "script")
      BY DEF Fn
    <2>2. shutq' = Append(shutq, x) /\ phase' = phase
      BY <1>2 DEF RegisterShutdownFunction
    <2> QED BY <1>0, <2>1, <2>2, AppendLast, AppendNoInner
  <1>3. ASSUME RunOuter PROVE QueueInv'
    <2> DEFINE x == [kind |-> "inner", who |-> Head(shutq).who]
    <2>1. shutq # << >> /\ Head(shutq) \in Fn /\ Head(shutq).kind = "outer"
          /\ phase = "shutdown" /\ phase' = phase /\ shutq' = Append(Tail(shutq), x)
      BY <1>0, <1>3 DEF RunOuter, AtHead
    <2>2. x \in Fn
      BY <2>1 DEF Fn
    <2> QED BY <1>0, <2>1, <2>2, TailLast, AppendLast
  <1>4. ASSUME RunInner PROVE QueueInv'
    BY <1>0, <1>4, TailLast DEF RunInner, AtHead
  <1>5. ASSUME EndUserFn PROVE QueueInv'
    BY <1>0, <1>5, TailLast DEF EndUserFn, AtHead
  <1>6. CASE EndScript \/ FreeClosures \/ LastDeactivate \/ PhpModuleShutdown
    BY <1>6 DEF EndScript, FreeClosures, LastDeactivate, PhpModuleShutdown
  <1>7. CASE \E i \in Instances : Attach(i) \/ StandardActivate(i)
                \/ StandardDeactivate(i) \/ ModuleDestructor(i)
    BY <1>7 DEF Attach, StandardActivate, StandardDeactivate, ModuleDestructor
  <1>8. CASE \E c \in Classes : ClearModule(c)
    BY <1>8 DEF ClearModule
  <1>9. CASE UNCHANGED vars
    BY <1>9 DEF vars
  <1> QED
    BY <1>1, <1>2, <1>3, <1>4, <1>5, <1>6, <1>7, <1>8, <1>9
       DEF Next, Engine, Terminated

\* A module_destructor never runs before a shutdown function the script
\* registered, however often the program and its modules register functions.
THEOREM DestructorsLast == Spec => []DestructorsRunLast
  <1>1. Init => QueueInv
    BY DEF Init, QueueInv, InnerLast, NoInner
  <1>2. QueueInv => DestructorsRunLast
    BY DEF QueueInv, InnerLast, DestructorsRunLast
  <1> QED BY <1>1, <1>2, QueueStep, TypeCorrect, PTL DEF Spec

-----------------------------------------------------------------------------
(* The static slots and the engine's registry.                             *)

\* SlotsMatchRegistry is inductive once each slot is known to hold an object
\* of its own class.
SlotInv ==
    DistinctSlots =>
        /\ \A i \in Instances : phase # "done" =>
              (i \in registry <=> global_module[Key(ClassOf[i])] = i)
        /\ \A c \in Classes : GetModule(c) # NoOne => ClassOf[GetModule(c)] = c

LEMMA ClearSlots ==
    ASSUME TypeOK, SlotInv, DistinctSlots, phase # "done", NEW c \in Classes, Clear(c)
    PROVE  /\ \A i \in Instances : i \in registry' <=> global_module'[Key(ClassOf[i])] = i
           /\ \A d \in Classes : GetModule(d)' # NoOne => ClassOf[GetModule(d)'] = d
  <1> USE ClassAssumption, NullAssumption, KeyType
  <1>1. CASE GetModule(c) = NoOne
    BY <1>1 DEF Clear, slots, SlotInv, GetModule
  <1>2. CASE GetModule(c) # NoOne
    <2> DEFINE o == GetModule(c)
    <2>1. o \in Instances /\ ClassOf[o] = c
      BY <1>2 DEF SlotInv, TypeOK, GetModule
    <2>2. global_module' = [global_module EXCEPT ![Key(c)] = NoOne]
          /\ registry' = registry \ {o}
      BY <1>2 DEF Clear
    <2>3. \A d \in Classes : d # c => GetModule(d)' = GetModule(d)
      BY <2>2 DEF DistinctSlots, GetModule, TypeOK
    <2>4. GetModule(c)' = NoOne
      BY <2>2 DEF GetModule, TypeOK
    <2>5. ASSUME NEW i \in Instances
          PROVE  i \in registry' <=> GetModule(ClassOf[i])' = i
      <3>1. CASE ClassOf[i] = c
        BY <2>1, <2>2, <2>4, <3>1 DEF SlotInv, GetModule
      <3>2. CASE ClassOf[i] # c
        BY <2>1, <2>2, <2>3, <3>2 DEF SlotInv, GetModule
      <3> QED BY <3>1, <3>2
    <2> QED BY <2>3, <2>4, <2>5 DEF SlotInv, GetModule
  <1> QED BY <1>1, <1>2

LEMMA SlotStep == TypeOK /\ SlotInv /\ [Next]_vars => SlotInv'
  <1> SUFFICES ASSUME TypeOK, SlotInv, [Next]_vars, DistinctSlots PROVE SlotInv'
    BY DEF SlotInv, DistinctSlots, Key
  <1> USE ClassAssumption, NullAssumption, KeyType
  <1>1. ASSUME UNCHANGED <<global_module, registry>>, phase' # "done" => phase # "done"
        PROVE  SlotInv'
    BY <1>1 DEF SlotInv, GetModule
  <1>2. ASSUME NEW i \in Instances, Construct(i) PROVE SlotInv'
    <2> DEFINE c == ClassOf[i]
    <2>1. /\ ~IsRegistered(c) /\ registry' = registry \cup {i}
          /\ global_module' = [global_module EXCEPT ![Key(c)] = i]
          /\ phase # "done"
      BY <1>2 DEF Construct, InProgram
    <2>2. \A j \in registry : ClassOf[j] # c
      BY <2>1 DEF IsRegistered
    <2>3. \A d \in Classes : d # c => GetModule(d)' = GetModule(d)
      BY <2>1 DEF DistinctSlots, GetModule, TypeOK
    <2>4. GetModule(c)' = i
      BY <2>1 DEF GetModule, TypeOK
    <2>5. ASSUME NEW j \in Instances
          PROVE  j \in registry' <=> GetModule(ClassOf[j])' = j
      <3>1. CASE ClassOf[j] = c
        BY <2>1, <2>2, <2>4, <3>1
      <3>2. CASE ClassOf[j] # c
        BY <2>1, <2>3, <3>2 DEF SlotInv, GetModule
      <3> QED BY <3>1, <3>2
    <2> QED BY <2>3, <2>4, <2>5 DEF SlotInv, GetModule
  <1>3. ASSUME NEW i \in Instances, Destruct(i), phase' = phase, phase # "done"
        PROVE  SlotInv'
    <2>1. UNCHANGED slots \/ Clear(ClassOf[i])
      BY <1>3 DEF Destruct
    <2>2. CASE UNCHANGED slots
      BY <1>1, <1>3, <2>2 DEF slots
    <2>3. CASE Clear(ClassOf[i])
      BY <1>3, <2>3, ClearSlots DEF SlotInv
    <2> QED BY <2>1, <2>2, <2>3
  <1>4. ASSUME NEW i \in Instances, ModuleDestructor(i) PROVE SlotInv'
    BY <1>3, <1>4 DEF ModuleDestructor, InProgram
  <1>5. ASSUME NEW c \in Classes, ClearModule(c) PROVE SlotInv'
    BY <1>5, ClearSlots DEF ClearModule, InProgram, SlotInv
  <1>6. ASSUME RunInner PROVE SlotInv'
    <2>1. Head(shutq) \in Fn /\ Head(shutq).kind = "inner"
      BY <1>6 DEF RunInner, AtHead, TypeOK
    <2>2. Head(shutq).who \in Instances
      BY <2>1 DEF Fn
    <2> QED BY <1>3, <1>6, <2>2 DEF RunInner, AtHead
  <1>7. ASSUME PhpModuleShutdown PROVE SlotInv'
    BY <1>7 DEF PhpModuleShutdown, SlotInv, GetModule
  <1>8. ASSUME NEW i \in Instances,
               Attach(i) \/ StandardActivate(i) \/ StandardDeactivate(i)
        PROVE  SlotInv'
    BY <1>1, <1>8 DEF Attach, StandardActivate, StandardDeactivate, slots
  <1>9. CASE RegisterShutdownFunction \/ EndScript \/ RunOuter \/ EndUserFn
             \/ FreeClosures \/ LastDeactivate
    BY <1>1, <1>9 DEF RegisterShutdownFunction, EndScript, RunOuter, EndUserFn,
                      FreeClosures, LastDeactivate, slots
  <1>10. CASE UNCHANGED vars
    BY <1>1, <1>10 DEF vars, slots
  <1> QED
    BY <1>2, <1>4, <1>5, <1>6, <1>7, <1>8, <1>9, <1>10 DEF Next, Engine, Terminated

LEMMA SlotInvariant == Spec => []SlotInv
  <1>1. Init => SlotInv
    BY ClassAssumption, NullAssumption, KeyType DEF Init, SlotInv, GetModule
  <1> QED BY <1>1, SlotStep, TypeCorrect, PTL DEF Spec

\* While a request lasts an object is in its static slot exactly as long as
\* its entry is in the engine's registry.
THEOREM SlotsAgree == Spec => []SlotsMatchRegistry
  <1>1. SlotInv => SlotsMatchRegistry
    BY DEF SlotInv, SlotsMatchRegistry
  <1> QED BY <1>1, SlotInvariant, PTL

-----------------------------------------------------------------------------
(* What a call of a slot runs.                                             *)

LEMMA ChainEmpty ==
    ASSUME NEW h, h \notin Instances, NEW next
    PROVE  Chain(h, next) = {}
  <1>1. {} \in SUBSET Instances
    OBVIOUS
  <1> QED BY <1>1 DEF Chain

LEMMA ChainOne ==
    ASSUME NEW h \in Instances, NEW next, next[h] \notin Instances
    PROVE  Chain(h, next) = {h}
  <1>1. {h} \in SUBSET Instances
    OBVIOUS
  <1>2. Chain(h, next) \subseteq {h}
    BY <1>1 DEF Chain
  <1>3. h \in Chain(h, next)
    BY DEF Chain
  <1> QED BY <1>2, <1>3

LEMMA HostType ==
    TypeOK => host.activate \notin Instances /\ host.deactivate \notin Instances
  BY NullAssumption DEF TypeOK

\* Called in a good state, a slot runs the closure of the registered module
\* that hooks it, if there is one, and then the SAPI's own routine.
LEMMA ActivateCall ==
    ASSUME TypeOK, ActivateSlot
    PROVE  /\ Chain(activate, original_sapi_activate)
                  = {i \in registry : HooksActivate(i)}
           /\ host.activate = Native
                  => ReachesHost(activate, original_sapi_activate)
  <1>1. CASE activate \in Instances
    <2>1. activate \in registry /\ HooksActivate(activate)
          /\ original_sapi_activate[activate] = host.activate
      BY <1>1 DEF ActivateSlot
    <2>2. Chain(activate, original_sapi_activate) = {activate}
      BY <1>1, <2>1, HostType, ChainOne
    <2>3. {i \in registry : HooksActivate(i)} = {activate}
      BY <2>1 DEF ActivateSlot
    <2> QED BY <2>1, <2>2, <2>3 DEF ReachesHost
  <1>2. CASE activate \notin Instances
    <2>1. activate = host.activate /\ Chain(activate, original_sapi_activate) = {}
      BY <1>2, ChainEmpty DEF ActivateSlot
    <2>2. {i \in registry : HooksActivate(i)} = {}
      BY <1>2 DEF ActivateSlot, TypeOK
    <2> QED BY <2>1, <2>2 DEF ReachesHost
  <1> QED BY <1>1, <1>2

LEMMA DeactivateCall ==
    ASSUME TypeOK, DeactivateSlot
    PROVE  /\ Chain(deactivate, original_sapi_deactivate)
                  = {i \in registry : HooksDeactivate(i)}
           /\ host.deactivate = Native
                  => ReachesHost(deactivate, original_sapi_deactivate)
  <1>1. CASE deactivate \in Instances
    <2>1. deactivate \in registry /\ HooksDeactivate(deactivate)
          /\ original_sapi_deactivate[deactivate] = host.deactivate
      BY <1>1 DEF DeactivateSlot
    <2>2. Chain(deactivate, original_sapi_deactivate) = {deactivate}
      BY <1>1, <2>1, HostType, ChainOne
    <2>3. {i \in registry : HooksDeactivate(i)} = {deactivate}
      BY <2>1 DEF DeactivateSlot
    <2> QED BY <2>1, <2>2, <2>3 DEF ReachesHost
  <1>2. CASE deactivate \notin Instances
    <2>1. deactivate = host.deactivate
          /\ Chain(deactivate, original_sapi_deactivate) = {}
      BY <1>2, ChainEmpty DEF DeactivateSlot
    <2>2. {i \in registry : HooksDeactivate(i)} = {}
      BY <1>2 DEF DeactivateSlot, TypeOK
    <2> QED BY <2>1, <2>2 DEF ReachesHost
  <1> QED BY <1>1, <1>2

\* No step makes an unsafe program safe, and none changes the environment.
LEMMA SafeUseBack ==
    ASSUME TypeOK, [Next]_vars, SafeUse'
    PROVE  SafeUse /\ UNCHANGED env
  <1>1. UNCHANGED env /\ (byHand' = 0 => byHand = 0)
    <2>1. CASE \E i \in Instances : Attach(i) \/ Construct(i) \/ StandardActivate(i)
                                 \/ StandardDeactivate(i)
      BY <2>1 DEF Attach, Construct, StandardActivate, StandardDeactivate
    <2>2. CASE \/ \E i \in Instances : ModuleDestructor(i)
               \/ \E c \in Classes : ClearModule(c)
      BY <2>2 DEF ModuleDestructor, ClearModule, TypeOK
    <2>3. CASE RegisterShutdownFunction \/ EndScript \/ Engine
      BY <2>3 DEF RegisterShutdownFunction, EndScript, Engine, RunOuter, RunInner,
                  EndUserFn, FreeClosures, LastDeactivate, PhpModuleShutdown
    <2>4. CASE UNCHANGED vars
      BY <2>4 DEF vars
    <2> QED BY <2>1, <2>2, <2>3, <2>4 DEF Next, Terminated
  <1> QED BY <1>1 DEF SafeUse, env, DistinctSlots, Key, Hooks

-----------------------------------------------------------------------------
(* Each step of a safe program keeps the hooks in order.                   *)

Good == TypeOK /\ SlotInv /\ SafeUse /\ SafeCore /\ UNCHANGED env

\* In a safe program two registered modules never hook the same SAPI.
LEMMA OneHook ==
    ASSUME TypeOK, SlotInv, SafeUse, phase # "done",
           NEW i \in registry, NEW j \in registry,
           Hooks(ClassOf[i]), Hooks(ClassOf[j])
    PROVE  i = j
  <1>1. i \in Instances /\ j \in Instances
    BY DEF TypeOK
  <1>2. ClassOf[i] = ClassOf[j]
    BY <1>1, ClassAssumption DEF SafeUse
  <1> QED BY <1>1, <1>2 DEF SlotInv, SafeUse

\* What startup() runs while it restarts the SAPI, and what it leaves.
LEMMA ConstructCalls ==
    ASSUME Good, NEW i \in Instances, Construct(i)
    PROVE  /\ i \notin registry /\ registry' = registry \cup {i}
           /\ ActivateSlot' /\ DeactivateSlot' /\ ~dead' /\ ~skipped'
           /\ since' = since
           /\ balance' = IF Sapi(i)
                 THEN Bump(Bump(balance, {j \in registry : HooksDeactivate(j)}, -1),
                           {j \in registry' : HooksActivate(j)}, 1)
                 ELSE Bump(Bump(balance, {}, -1), {}, 1)
  <1> DEFINE saveA == IF HooksActivate(i)
                      THEN [original_sapi_activate EXCEPT ![i] = activate]
                      ELSE original_sapi_activate
             saveD == IF HooksDeactivate(i)
                      THEN [original_sapi_deactivate EXCEPT ![i] = deactivate]
                      ELSE original_sapi_deactivate
             new   == IF HooksActivate(i) THEN i ELSE activate
             reg   == registry \cup {i}
             down  == IF Sapi(i) THEN Chain(deactivate, saveD) ELSE {}
             up    == IF Sapi(i) THEN Chain(new, saveA) ELSE {}
  <1>1. ClassOf[i] \in Classes /\ decl[ClassOf[i]].boots
    BY ClassAssumption DEF Good, SafeUse
  <1>2. i \notin registry /\ \A j \in registry : ClassOf[j] # ClassOf[i]
    BY DEF Construct, IsRegistered
  <1>3. /\ original_sapi_activate' = saveA /\ original_sapi_deactivate' = saveD
        /\ activate' = new /\ deactivate' = IF HooksDeactivate(i) THEN i ELSE deactivate
        /\ registry' = reg /\ since' = since
        /\ ClosuresLive /\ phase # "done"
    BY <1>1 DEF Construct, InProgram, ClosuresLive
  <1>4. /\ balance' = Bump(Bump(balance, down, -1), up, 1)
        /\ skipped' = (\/ skipped
                       \/ Sapi(i) /\ host.deactivate = Native /\ ~ReachesHost(deactivate, saveD)
                       \/ Sapi(i) /\ host.activate = Native /\ ~ReachesHost(new, saveA))
        /\ dead' = (dead \/ Unsafe(down, reg) \/ Unsafe(up, reg))
    BY <1>1 DEF Construct, DeactivateAtRestart
  <1>5. \A j \in registry : Hooks(ClassOf[i]) => ~Hooks(ClassOf[j])
    BY <1>1, <1>2, ClassAssumption DEF Good, SafeUse, TypeOK
  <1>6. \A j \in Instances : (HooksActivate(j) \/ HooksDeactivate(j)) = Hooks(ClassOf[j])
    BY DEF HooksActivate, HooksDeactivate, Hooks, Sapi, Rs, Rd
  <1>7. Hooks(ClassOf[i]) => activate = host.activate /\ deactivate = host.deactivate
    BY <1>5, <1>6 DEF Good, SafeCore, ActivateSlot, DeactivateSlot, TypeOK
  <1>8. Chain(deactivate, saveD) = {j \in registry : HooksDeactivate(j)}
        /\ (host.deactivate = Native => ReachesHost(deactivate, saveD))
    <2>1. CASE HooksDeactivate(i)
      <3>1. deactivate = host.deactivate /\ deactivate \notin Instances
        BY <1>6, <1>7, <2>1, HostType DEF Good
      <3>2. {j \in registry : HooksDeactivate(j)} = {}
        BY <1>5, <1>6, <2>1 DEF Good, TypeOK
      <3> QED BY <3>1, <3>2, ChainEmpty DEF ReachesHost
    <2>2. CASE ~HooksDeactivate(i)
      BY <2>2, DeactivateCall DEF Good, SafeCore
    <2> QED BY <2>1, <2>2
  <1>9. Chain(new, saveA) = {j \in reg : HooksActivate(j)}
        /\ (host.activate = Native => ReachesHost(new, saveA))
    <2>1. CASE HooksActivate(i)
      <3>1. new = i /\ saveA[i] = host.activate /\ saveA[i] \notin Instances
        BY <1>6, <1>7, <2>1, HostType DEF Good, TypeOK
      <3>2. Chain(new, saveA) = {i}
        BY <3>1, ChainOne
      <3>3. {j \in reg : HooksActivate(j)} = {i}
        BY <1>5, <1>6, <2>1 DEF Good, TypeOK
      <3> QED BY <3>1, <3>2, <3>3 DEF ReachesHost
    <2>2. CASE ~HooksActivate(i)
      <3>1. {j \in reg : HooksActivate(j)} = {j \in registry : HooksActivate(j)}
        BY <2>2
      <3> QED BY <2>2, <3>1, ActivateCall DEF Good, SafeCore
    <2> QED BY <2>1, <2>2
  <1>10. ~dead'
    <2>1. ~Unsafe(down, reg) /\ ~Unsafe(up, reg)
      BY <1>3, <1>8, <1>9 DEF Unsafe
    <2> QED BY <1>4, <2>1 DEF Good, SafeCore
  <1>11. ~skipped'
    BY <1>4, <1>8, <1>9 DEF Good, SafeCore
  <1>12. \A j \in Instances : /\ HooksActivate(j)' = HooksActivate(j)
                             /\ HooksDeactivate(j)' = HooksDeactivate(j)
    BY DEF Good, env, HooksActivate, HooksDeactivate, Sapi, Rs, Rd
  <1>13. ActivateSlot'
    <2>1. host' = host /\ registry \subseteq Instances
      BY DEF Good, env, TypeOK
    <2>2. CASE HooksActivate(i)
      <3>1. \A j \in registry : ~HooksActivate(j)
        BY <1>5, <1>6, <2>2 DEF Good, TypeOK
      <3> QED BY <1>3, <1>6, <1>7, <1>12, <2>1, <2>2, <3>1 DEF Good, TypeOK, ActivateSlot
    <2>3. CASE ~HooksActivate(i)
      BY <1>3, <1>12, <2>1, <2>3 DEF Good, SafeCore, ActivateSlot
    <2> QED BY <2>2, <2>3
  <1>14. DeactivateSlot'
    <2>1. host' = host /\ registry \subseteq Instances
      BY DEF Good, env, TypeOK
    <2>2. CASE HooksDeactivate(i)
      <3>1. \A j \in registry : ~HooksDeactivate(j)
        BY <1>5, <1>6, <2>2 DEF Good, TypeOK
      <3> QED BY <1>3, <1>6, <1>7, <1>12, <2>1, <2>2, <3>1 DEF Good, TypeOK, DeactivateSlot
    <2>3. CASE ~HooksDeactivate(i)
      BY <1>3, <1>12, <2>1, <2>3 DEF Good, SafeCore, DeactivateSlot
    <2> QED BY <2>2, <2>3
  <1> QED BY <1>2, <1>3, <1>4, <1>8, <1>9, <1>10, <1>11, <1>13, <1>14

\* The destructor of a registered module takes it out of everything.
LEMMA DestructSafe ==
    ASSUME Good, phase # "done", NEW i \in registry, Rd(i), Destruct(i)
    PROVE  /\ registry' = registry \ {i}
           /\ ze_other_ptr' = [ze_other_ptr EXCEPT ![i] = NoOne]
           /\ ActivateSlot' /\ DeactivateSlot' /\ ~dead' /\ ~skipped'
           /\ balance' = [balance EXCEPT ![i] = @ - 1] /\ since' = since
  <1>1. i \in Instances /\ ClassOf[i] \in Classes
    BY ClassAssumption DEF Good, TypeOK
  <1>2. ~decl[ClassOf[i]].linked /\ ~target_persistent
    BY <1>1 DEF Good, SafeUse
  <1>3. RestoreActivate(i) /\ RestoreDeactivate(i) /\ Clear(ClassOf[i])
    BY <1>2 DEF Destruct, Persistent
  <1>4. GetModule(ClassOf[i]) = i /\ i # NoOne
    BY <1>1, NullAssumption DEF Good, SlotInv, SafeUse, GetModule
  <1>5. registry' = registry \ {i} /\ ze_other_ptr' = [ze_other_ptr EXCEPT ![i] = NoOne]
    BY <1>3, <1>4 DEF Clear
  <1>6. ze_other_ptr[i] = i
    BY DEF Good, SafeCore
  <1>7. balance' = [balance EXCEPT ![i] = @ - 1] /\ since' = since /\ ~dead' /\ ~skipped'
    BY <1>4, <1>6 DEF Destruct, Good, SafeCore
  <1>8. \A j \in Instances : /\ HooksActivate(j)' = HooksActivate(j)
                            /\ HooksDeactivate(j)' = HooksDeactivate(j)
    BY DEF Good, env, HooksActivate, HooksDeactivate, Sapi, Rs, Rd
  <1>8a. \A j \in Instances : HooksActivate(j) \/ HooksDeactivate(j) => Hooks(ClassOf[j])
    BY DEF HooksActivate, HooksDeactivate, Sapi, Rs, Rd, Hooks
  <1>9. \A j \in registry : Hooks(ClassOf[i]) /\ Hooks(ClassOf[j]) => j = i
    BY OneHook DEF Good
  <1>10. host' = host /\ registry \subseteq Instances
         /\ host.activate \notin Instances /\ host.deactivate \notin Instances
    BY HostType DEF Good, env, TypeOK
  <1>11. ActivateSlot'
    <2>1. CASE HooksActivate(i)
      <3>1. activate' = host.activate
        BY <1>3, <2>1 DEF RestoreActivate, Good, SafeCore, ActivateSlot
      <3>2. ASSUME NEW j \in registry' PROVE ~HooksActivate(j)
        BY <1>1, <1>5, <1>8a, <1>9, <1>10, <2>1
      <3> QED BY <1>5, <1>8, <1>10, <3>1, <3>2 DEF ActivateSlot
    <2>2. CASE ~HooksActivate(i)
      <3>1. UNCHANGED <<activate, original_sapi_activate>>
        BY <1>3, <2>2 DEF RestoreActivate
      <3>2. ActivateSlot /\ registry' \subseteq Instances
        BY <1>5, <1>10 DEF Good, SafeCore
      <3>3. \A j \in registry' : HooksActivate(j) =>
               activate' = j /\ original_sapi_activate'[j] = host'.activate
        BY <1>5, <1>10, <3>1, <3>2 DEF ActivateSlot
      <3>4. /\ activate' \in Instances => activate' \in registry' /\ HooksActivate(activate')
            /\ activate' \notin Instances => activate' = host'.activate
        BY <1>5, <1>10, <2>2, <3>1, <3>2 DEF ActivateSlot
      <3> QED BY <1>8, <3>2, <3>3, <3>4 DEF ActivateSlot
    <2> QED BY <2>1, <2>2
  <1>12. DeactivateSlot'
    <2>1. CASE HooksDeactivate(i)
      <3>1. deactivate' = host.deactivate
        BY <1>3, <2>1 DEF RestoreDeactivate, Good, SafeCore, DeactivateSlot
      <3>2. ASSUME NEW j \in registry' PROVE ~HooksDeactivate(j)
        BY <1>1, <1>5, <1>8a, <1>9, <1>10, <2>1
      <3> QED BY <1>5, <1>8, <1>10, <3>1, <3>2 DEF DeactivateSlot
    <2>2. CASE ~HooksDeactivate(i)
      <3>1. UNCHANGED <<deactivate, original_sapi_deactivate>>
        BY <1>3, <2>2 DEF RestoreDeactivate
      <3>2. DeactivateSlot /\ registry' \subseteq Instances
        BY <1>5, <1>10 DEF Good, SafeCore
      <3>3. \A j \in registry' : HooksDeactivate(j) =>
               deactivate' = j /\ original_sapi_deactivate'[j] = host'.deactivate
        BY <1>5, <1>10, <3>1, <3>2 DEF DeactivateSlot
      <3>4. /\ deactivate' \in Instances => deactivate' \in registry' /\ HooksDeactivate(deactivate')
            /\ deactivate' \notin Instances => deactivate' = host'.deactivate
        BY <1>5, <1>10, <2>2, <3>1, <3>2 DEF DeactivateSlot
      <3> QED BY <1>8, <3>2, <3>3, <3>4 DEF DeactivateSlot
    <2> QED BY <2>1, <2>2
  <1> QED BY <1>5, <1>7, <1>11, <1>12

-----------------------------------------------------------------------------
(* The pending destructors.                                                *)

IsDestructor(f) == f.kind \in {"outer", "inner"}

\* PendingDestructors of a queue q, for the registered set reg.
Pending(q, reg) ==
    /\ \A i \in reg : Rd(i) => \E k \in DOMAIN q : IsDestructor(q[k]) /\ q[k].who = i
    /\ \A k, l \in DOMAIN q :
          IsDestructor(q[k]) /\ IsDestructor(q[l]) /\ q[k].who = q[l].who => k = l
    /\ \A k \in DOMAIN q : IsDestructor(q[k]) => q[k].who \in reg /\ Rd(q[k].who)

LEMMA PendingLive ==
    ASSUME TypeOK, ClosuresLive
    PROVE  PendingDestructors <=> Pending(shutq, registry)
  <1>1. \A k \in DOMAIN shutq : shutq[k] \in Fn
    BY DEF TypeOK
  <1>2. \A k \in DOMAIN shutq : IsDestructor(shutq[k]) => shutq[k].who \in Instances
    BY <1>1 DEF Fn, IsDestructor
  <1>3. \A k, i : Destructs(k, i) <=> IsDestructor(shutq[k]) /\ shutq[k].who = i
    BY DEF Destructs, IsDestructor
  <1>4. registry \subseteq Instances
    BY DEF TypeOK
  <1>5. ASSUME PendingDestructors PROVE Pending(shutq, registry)
    BY <1>2, <1>3, <1>4, <1>5 DEF PendingDestructors, Pending
  <1>6. ASSUME Pending(shutq, registry) PROVE PendingDestructors
    BY <1>2, <1>3, <1>4, <1>6 DEF PendingDestructors, Pending
  <1> QED BY <1>5, <1>6

\* A function of the program is added at the end.
LEMMA PendingAppendOther ==
    ASSUME NEW q \in Seq(Fn), NEW reg, Pending(q, reg), NEW x \in Fn, ~IsDestructor(x)
    PROVE  Pending(Append(q, x), reg)
  <1>1. /\ DOMAIN Append(q, x) = 1 .. (Len(q) + 1) /\ DOMAIN q = 1 .. Len(q)
        /\ Len(q) \in Nat
        /\ \A k \in 1 .. Len(q) : Append(q, x)[k] = q[k]
        /\ Append(q, x)[Len(q) + 1] = x
    BY AppendProperties
  <1>2. \A k \in DOMAIN Append(q, x) :
           IsDestructor(Append(q, x)[k]) => k \in DOMAIN q /\ Append(q, x)[k] = q[k]
    BY <1>1
  <1>3. \A k \in DOMAIN q : k \in DOMAIN Append(q, x) /\ Append(q, x)[k] = q[k]
    BY <1>1
  <1> QED BY <1>2, <1>3 DEF Pending

\* A module is registered and its destructor, if it wants one, added.
LEMMA PendingAppendNew ==
    ASSUME NEW q \in Seq(Fn), NEW reg, Pending(q, reg), NEW x \in Fn,
           IsDestructor(x), x.who \notin reg, Rd(x.who)
    PROVE  Pending(Append(q, x), reg \cup {x.who})
  <1>1. /\ DOMAIN Append(q, x) = 1 .. (Len(q) + 1) /\ DOMAIN q = 1 .. Len(q)
        /\ Len(q) \in Nat
        /\ \A k \in 1 .. Len(q) : Append(q, x)[k] = q[k]
        /\ Append(q, x)[Len(q) + 1] = x
    BY AppendProperties
  <1> DEFINE n == Len(q) + 1
  <1>2. \A k \in DOMAIN Append(q, x) : k # n => k \in DOMAIN q /\ Append(q, x)[k] = q[k]
    BY <1>1
  <1>3. \A k \in DOMAIN q : k \in DOMAIN Append(q, x) /\ k # n /\ Append(q, x)[k] = q[k]
    BY <1>1
  <1>4. n \in DOMAIN Append(q, x) /\ Append(q, x)[n] = x
    BY <1>1
  <1> HIDE DEF n
  <1> QED BY <1>2, <1>3, <1>4 DEF Pending

\* The head of the queue has run; if it was a destructor, so is its module.
LEMMA PendingTail ==
    ASSUME NEW q \in Seq(Fn), q # << >>, NEW reg, Pending(q, reg)
    PROVE  /\ Tail(q) \in Seq(Fn)
           /\ IsDestructor(Head(q)) =>
                 /\ Head(q).who \in reg /\ Rd(Head(q).who)
                 /\ Pending(Tail(q), reg \ {Head(q).who})
           /\ ~IsDestructor(Head(q)) => Pending(Tail(q), reg)
  <1>1. /\ Tail(q) \in Seq(Fn) /\ Len(q) \in Nat \ {0}
        /\ DOMAIN Tail(q) = 1 .. (Len(q) - 1) /\ DOMAIN q = 1 .. Len(q)
        /\ \A k \in 1 .. (Len(q) - 1) : Tail(q)[k] = q[k + 1]
        /\ Head(q) = q[1] /\ 1 \in DOMAIN q
    OBVIOUS
  <1>2. \A k \in DOMAIN Tail(q) : k + 1 \in DOMAIN q /\ k + 1 # 1 /\ Tail(q)[k] = q[k + 1]
    BY <1>1
  <1>3. \A k \in DOMAIN q : k # 1 => k - 1 \in DOMAIN Tail(q) /\ Tail(q)[k - 1] = q[k]
    BY <1>1
  <1>4. \A k, l \in DOMAIN Tail(q) : k + 1 = l + 1 => k = l
    BY <1>1
  <1>5. ASSUME IsDestructor(Head(q))
        PROVE  Pending(Tail(q), reg \ {Head(q).who})
    <2>1. \A k \in DOMAIN q : IsDestructor(q[k]) /\ q[k].who = Head(q).who => k = 1
      BY <1>1, <1>5 DEF Pending
    <2>2. ASSUME NEW i \in reg \ {Head(q).who}, Rd(i)
          PROVE  \E k \in DOMAIN Tail(q) : IsDestructor(Tail(q)[k]) /\ Tail(q)[k].who = i
      <3>1. PICK k \in DOMAIN q : IsDestructor(q[k]) /\ q[k].who = i
        BY <2>2 DEF Pending
      <3>2. k # 1
        BY <1>1, <3>1
      <3> QED BY <1>3, <3>1, <3>2
    <2>3. \A k, l \in DOMAIN Tail(q) :
             IsDestructor(Tail(q)[k]) /\ IsDestructor(Tail(q)[l])
                /\ Tail(q)[k].who = Tail(q)[l].who => k = l
      BY <1>2, <1>4 DEF Pending
    <2>4. \A k \in DOMAIN Tail(q) : IsDestructor(Tail(q)[k]) =>
             Tail(q)[k].who \in reg \ {Head(q).who} /\ Rd(Tail(q)[k].who)
      BY <1>2, <2>1 DEF Pending
    <2> QED BY <2>2, <2>3, <2>4 DEF Pending
  <1>6. ASSUME ~IsDestructor(Head(q)) PROVE Pending(Tail(q), reg)
    <2>1. ASSUME NEW i \in reg, Rd(i)
          PROVE  \E k \in DOMAIN Tail(q) : IsDestructor(Tail(q)[k]) /\ Tail(q)[k].who = i
      <3>1. PICK k \in DOMAIN q : IsDestructor(q[k]) /\ q[k].who = i
        BY <2>1 DEF Pending
      <3>2. k # 1
        BY <1>1, <1>6, <3>1
      <3> QED BY <1>3, <3>1, <3>2
    <2>2. \A k, l \in DOMAIN Tail(q) :
             IsDestructor(Tail(q)[k]) /\ IsDestructor(Tail(q)[l])
                /\ Tail(q)[k].who = Tail(q)[l].who => k = l
      BY <1>2, <1>4 DEF Pending
    <2>3. \A k \in DOMAIN Tail(q) : IsDestructor(Tail(q)[k]) =>
             Tail(q)[k].who \in reg /\ Rd(Tail(q)[k].who)
      BY <1>2 DEF Pending
    <2> QED BY <2>1, <2>2, <2>3 DEF Pending
  <1> QED BY <1>1, <1>5, <1>6 DEF Pending

-----------------------------------------------------------------------------
(* The theorems.                                                           *)

\* RequestCallsMatch, for the inductive step.
Match == \A i \in Instances :
            (HooksActivate(i) /\ HooksDeactivate(i)) =>
                balance[i] = since[i] + (IF i \in registry THEN 1 ELSE 0)

LEMMA SafeStep ==
    ASSUME Good, Match, [Next]_vars, SafeUse'
    PROVE  SafeCore' /\ Match'
  <1>1. /\ TypeOK /\ SlotInv /\ SafeUse /\ ActivateSlot /\ DeactivateSlot
        /\ PendingDestructors /\ \A i \in registry : ze_other_ptr[i] = i
        /\ ~dead /\ ~skipped /\ decl' = decl /\ host' = host
        /\ shutq \in Seq(Fn) /\ registry \subseteq Instances
    BY DEF Good, SafeCore, env, TypeOK
  <1>2. TypeOK'
    BY <1>1, TypeStep
  <1>3. /\ \A i \in Instances : /\ HooksActivate(i)' = HooksActivate(i)
                               /\ HooksDeactivate(i)' = HooksDeactivate(i)
        /\ \A i : Rd(i)' = Rd(i)
    BY <1>1 DEF HooksActivate, HooksDeactivate, Sapi, Rs, Rd
  <1>4. \A q, reg : Pending(q, reg)' <=> Pending(q, reg)
    BY <1>3 DEF Pending
  <1>5. ASSUME UNCHANGED hooks, registry' = registry
        PROVE  ActivateSlot' /\ DeactivateSlot'
    BY <1>1, <1>3, <1>5 DEF hooks, ActivateSlot, DeactivateSlot
  <1>6. ASSUME ClosuresLive, ClosuresLive', Pending(shutq, registry) => Pending(shutq', registry')
        PROVE  PendingDestructors'
    <2>1. Pending(shutq', registry')
      BY <1>1, <1>6, PendingLive
    <2>2. \A k \in DOMAIN shutq' : shutq'[k] \in Fn
      BY <1>2 DEF TypeOK
    <2>3. \A k \in DOMAIN shutq' :
             IsDestructor(shutq'[k]) => shutq'[k].who \in Instances
      BY <2>2 DEF Fn, IsDestructor
    <2>4. \A k, i : Destructs(k, i)' <=> IsDestructor(shutq'[k]) /\ shutq'[k].who = i
      BY DEF Destructs, IsDestructor
    <2>5. registry' \subseteq Instances
      BY <1>2 DEF TypeOK
    <2> QED BY <1>3, <1>6, <2>1, <2>3, <2>4, <2>5 DEF PendingDestructors, Pending
  <1>7. ASSUME UNCHANGED calls, registry' = registry PROVE Match'
    BY <1>3, <1>7 DEF calls, Match
  <1>8. ASSUME NEW i \in Instances, Construct(i) PROVE SafeCore' /\ Match'
    <2>1. /\ i \notin registry /\ registry' = registry \cup {i}
          /\ ActivateSlot' /\ DeactivateSlot' /\ ~dead' /\ ~skipped' /\ since' = since
          /\ balance' = IF Sapi(i)
                THEN Bump(Bump(balance, {j \in registry : HooksDeactivate(j)}, -1),
                          {j \in registry' : HooksActivate(j)}, 1)
                ELSE Bump(Bump(balance, {}, -1), {}, 1)
      BY <1>8, ConstructCalls
    <2>2. decl[ClassOf[i]].boots
      BY <1>1, ClassAssumption DEF SafeUse
    <2>3. /\ shutq' = QueueDestructor(i) /\ phase' = phase /\ ClosuresLive
          /\ ze_other_ptr' = [ze_other_ptr EXCEPT ![i] = i]
      BY <1>8, <2>2 DEF Construct, InProgram, ClosuresLive
    <2>4. PendingDestructors'
      <3> DEFINE x == [kind |-> "outer", who |-> i]
      <3>1. x \in Fn /\ IsDestructor(x) /\ x.who = i
        BY DEF Fn, IsDestructor
      <3>2. CASE Rd(i)
        <4>1. shutq' = Append(shutq, x)
          BY <2>3, <3>2 DEF QueueDestructor
        <4> HIDE DEF x
        <4>2. Pending(shutq, registry) => Pending(shutq', registry')
          BY <1>1, <2>1, <3>1, <3>2, <4>1, PendingAppendNew
        <4> QED BY <1>6, <2>3, <4>2 DEF ClosuresLive
      <3>3. CASE ~Rd(i)
        <4>1. shutq' = shutq
          BY <2>3, <3>3 DEF QueueDestructor
        <4>2. Pending(shutq, registry) => Pending(shutq', registry')
          BY <2>1, <3>3, <4>1 DEF Pending
        <4> QED BY <1>6, <2>3, <4>2 DEF ClosuresLive
      <3> QED BY <3>2, <3>3
    <2>5. \A j \in registry' : ze_other_ptr'[j] = j
      BY <1>1, <2>1, <2>3 DEF TypeOK
    <2>6. Match'
      <3> SUFFICES ASSUME NEW j \in Instances, HooksActivate(j), HooksDeactivate(j)
                   PROVE  balance'[j] = since'[j] + (IF j \in registry' THEN 1 ELSE 0)
        BY <1>3 DEF Match
      <3>1. balance[j] = since[j] + (IF j \in registry THEN 1 ELSE 0)
            /\ balance[j] \in Int /\ since[j] \in Int
        BY <1>1 DEF Match, TypeOK
      <3>2. CASE Sapi(i)
        <4>1. balance'[j] = balance[j] - (IF j \in registry THEN 1 ELSE 0)
                                       + (IF j \in registry' THEN 1 ELSE 0)
          BY <2>1, <3>1, <3>2 DEF Bump
        <4>2. CASE j = i
          BY <2>1, <3>1, <4>1, <4>2
        <4>3. CASE j # i
          BY <2>1, <3>1, <4>1, <4>3
        <4> QED BY <4>2, <4>3
      <3>3. CASE ~Sapi(i)
        <4>1. j # i
          BY <3>3 DEF HooksActivate
        <4>2. balance'[j] = balance[j]
          BY <2>1, <3>1, <3>3 DEF Bump
        <4> QED BY <2>1, <3>1, <4>1, <4>2
      <3> QED BY <3>2, <3>3
    <2> QED BY <2>1, <2>4, <2>5, <2>6 DEF SafeCore
  <1>9. ASSUME NEW i \in Instances, Attach(i) PROVE SafeCore' /\ Match'
    <2>1. /\ UNCHANGED <<phase, shutq, hooks, registry, calls, dead>> /\ ClosuresLive
          /\ ze_other_ptr[i] = NoOne
          /\ \E j \in registry : ze_other_ptr' = [ze_other_ptr EXCEPT ![i] = j]
      BY <1>9 DEF Attach, InProgram, ClosuresLive, Constructed
    <2>2. i \notin registry
      BY <1>1, <2>1, NullAssumption
    <2>3. \A j \in registry' : ze_other_ptr'[j] = j
      BY <1>1, <2>1, <2>2 DEF TypeOK
    <2>4. ~skipped' /\ ~dead'
      BY <1>1, <2>1 DEF calls
    <2> QED BY <1>5, <1>6, <1>7, <2>1, <2>3, <2>4 DEF SafeCore, ClosuresLive
  <1>10. ASSUME UNCHANGED <<hooks, registry, ze_other_ptr, shutq, phase>>,
                SapiActivate, ClosuresLive
         PROVE  SafeCore' /\ Match'
    <2> DEFINE run == {i \in registry : HooksActivate(i)}
    <2>1. Chain(activate, original_sapi_activate) = run
          /\ (host.activate = Native => ReachesHost(activate, original_sapi_activate))
      BY <1>1, ActivateCall
    <2>2. /\ balance' = Bump(balance, run, 1) /\ since' = Bump(since, registry, 1)
          /\ ~skipped' /\ ~dead'
      BY <1>1, <1>10, <2>1 DEF SapiActivate, Unsafe
    <2>3. Match'
      BY <1>1, <1>3, <1>10, <2>2 DEF Match, Bump, TypeOK
    <2> QED BY <1>1, <1>5, <1>6, <1>10, <2>2, <2>3 DEF SafeCore, ClosuresLive
  <1>11. ASSUME SapiDeactivate
         PROVE  LET run == {i \in registry : HooksDeactivate(i)} IN
                /\ balance' = Bump(balance, run, -1) /\ since' = Bump(since, registry, -1)
                /\ ~skipped' /\ (ClosuresLive \/ run = {} => ~dead')
    <2>1. Chain(deactivate, original_sapi_deactivate) = {i \in registry : HooksDeactivate(i)}
          /\ (host.deactivate = Native => ReachesHost(deactivate, original_sapi_deactivate))
      BY <1>1, DeactivateCall
    <2> QED BY <1>1, <1>11, <2>1 DEF SapiDeactivate, Unsafe
  <1>12. ASSUME SapiDeactivate, registry' = registry PROVE Match'
    <2>1. balance' = Bump(balance, {i \in registry : HooksDeactivate(i)}, -1)
          /\ since' = Bump(since, registry, -1)
      BY <1>11, <1>12
    <2> SUFFICES ASSUME NEW j \in Instances, HooksActivate(j), HooksDeactivate(j)
                 PROVE  balance'[j] = since'[j] + (IF j \in registry' THEN 1 ELSE 0)
      BY <1>3 DEF Match
    <2>2. balance[j] = since[j] + (IF j \in registry THEN 1 ELSE 0)
          /\ balance[j] \in Int /\ since[j] \in Int
      BY <1>1 DEF Match, TypeOK
    <2> QED BY <1>12, <2>1, <2>2 DEF Bump
  <1>13. ASSUME NEW i \in Instances, StandardActivate(i) PROVE SafeCore' /\ Match'
    BY <1>10, <1>13 DEF StandardActivate, InProgram, ClosuresLive, slots
  <1>14. ASSUME NEW i \in Instances, StandardDeactivate(i) PROVE SafeCore' /\ Match'
    <2>1. /\ SapiDeactivate /\ ClosuresLive
          /\ UNCHANGED <<hooks, registry, ze_other_ptr, shutq, phase>>
      BY <1>14 DEF StandardDeactivate, InProgram, ClosuresLive, slots
    <2>2. ~skipped' /\ ~dead'
      BY <1>11, <2>1
    <2>3. Match'
      BY <1>12, <2>1
    <2> QED BY <1>1, <1>5, <1>6, <2>1, <2>2, <2>3 DEF SafeCore, ClosuresLive
  <1>15. ASSUME RunInner PROVE SafeCore' /\ Match'
    <2> DEFINE i == Head(shutq).who
    <2>1. /\ phase = "shutdown" /\ phase' = phase /\ shutq # << >>
          /\ Head(shutq).kind = "inner" /\ shutq' = Tail(shutq) /\ Destruct(i)
      BY <1>15 DEF RunInner, AtHead
    <2>2. Pending(shutq, registry) /\ ClosuresLive /\ IsDestructor(Head(shutq))
      BY <1>1, <2>1, PendingLive DEF ClosuresLive, IsDestructor
    <2>3. i \in registry /\ Rd(i) /\ Pending(Tail(shutq), registry \ {i})
      BY <1>1, <2>1, <2>2, PendingTail
    <2> HIDE DEF i
    <2>4. /\ registry' = registry \ {i}
          /\ ze_other_ptr' = [ze_other_ptr EXCEPT ![i] = NoOne]
          /\ ActivateSlot' /\ DeactivateSlot' /\ ~dead' /\ ~skipped'
          /\ balance' = [balance EXCEPT ![i] = @ - 1] /\ since' = since
      BY <2>1, <2>3, DestructSafe
    <2>5. PendingDestructors'
      BY <1>6, <2>1, <2>2, <2>3, <2>4 DEF ClosuresLive
    <2>6. Match'
      <3> SUFFICES ASSUME NEW j \in Instances, HooksActivate(j), HooksDeactivate(j)
                   PROVE  balance'[j] = since'[j] + (IF j \in registry' THEN 1 ELSE 0)
        BY <1>3 DEF Match
      <3>1. balance[j] = since[j] + (IF j \in registry THEN 1 ELSE 0)
            /\ balance[j] \in Int /\ since[j] \in Int
        BY <1>1 DEF Match, TypeOK
      <3> QED BY <1>1, <2>3, <2>4, <3>1 DEF TypeOK
    <2>7. \A j \in registry' : ze_other_ptr'[j] = j
      BY <1>1, <2>4 DEF TypeOK
    <2> QED BY <2>4, <2>5, <2>6, <2>7 DEF SafeCore
  <1>16. ASSUME UNCHANGED <<hooks, registry, ze_other_ptr, calls, dead>>,
                PendingDestructors'
         PROVE  SafeCore' /\ Match'
    BY <1>1, <1>5, <1>7, <1>16 DEF SafeCore, calls
  <1>17. ASSUME RegisterShutdownFunction PROVE SafeCore' /\ Match'
    <2> DEFINE x == [kind |-> IF phase = "script" THEN "user" ELSE "late",
                     who  |-> NoOne]
    <2>1. x \in Fn /\ ~IsDestructor(x)
      BY DEF Fn, IsDestructor
    <2>2. shutq' = Append(shutq, x) /\ ClosuresLive /\ phase' = phase
          /\ UNCHANGED <<hooks, registry, ze_other_ptr, calls, dead>>
      BY <1>17 DEF RegisterShutdownFunction, InProgram, ClosuresLive, slots
    <2> HIDE DEF x
    <2>3. Pending(shutq, registry) => Pending(shutq', registry')
      BY <1>1, <2>1, <2>2, PendingAppendOther
    <2> QED BY <1>6, <1>16, <2>2, <2>3 DEF ClosuresLive
  <1>18. ASSUME RunOuter PROVE SafeCore' /\ Match'
    <2> DEFINE i == Head(shutq).who
               x == [kind |-> "inner", who |-> i]
    <2>1. /\ shutq # << >> /\ Head(shutq).kind = "outer" /\ Head(shutq) \in Fn
          /\ shutq' = Append(Tail(shutq), x) /\ phase = "shutdown" /\ phase' = phase
          /\ UNCHANGED <<hooks, registry, ze_other_ptr, calls, dead>>
      BY <1>1, <1>18 DEF RunOuter, AtHead, slots
    <2>2. IsDestructor(Head(shutq)) /\ ClosuresLive
      BY <2>1 DEF IsDestructor, ClosuresLive
    <2>3. x \in Fn /\ IsDestructor(x) /\ x.who = i
      BY <2>1 DEF Fn, IsDestructor
    <2> HIDE DEF x
    <2>4. ASSUME Pending(shutq, registry) PROVE Pending(shutq', registry')
      <3>1. i \in registry /\ Rd(i) /\ Tail(shutq) \in Seq(Fn)
            /\ Pending(Tail(shutq), registry \ {i})
        BY <1>1, <2>1, <2>2, <2>4, PendingTail
      <3>2. Pending(Append(Tail(shutq), x), (registry \ {i}) \cup {i})
        BY <2>3, <3>1, PendingAppendNew
      <3>3. (registry \ {i}) \cup {i} = registry'
        BY <2>1, <3>1
      <3> QED BY <2>1, <3>2, <3>3
    <2> QED BY <1>6, <1>16, <2>1, <2>2, <2>4 DEF ClosuresLive
  <1>19. ASSUME EndUserFn PROVE SafeCore' /\ Match'
    <2>1. /\ shutq # << >> /\ ~IsDestructor(Head(shutq)) /\ shutq' = Tail(shutq)
          /\ phase = "shutdown" /\ phase' = phase
          /\ UNCHANGED <<hooks, registry, ze_other_ptr, calls, dead>>
      BY <1>19 DEF EndUserFn, AtHead, slots, IsDestructor
    <2>2. Pending(shutq, registry) => Pending(shutq', registry')
      BY <1>1, <2>1, PendingTail
    <2> QED BY <1>6, <1>16, <2>1, <2>2 DEF ClosuresLive
  <1>20. ASSUME EndScript PROVE SafeCore' /\ Match'
    BY <1>6, <1>16, <1>20 DEF EndScript, ClosuresLive, slots
  <1>21. ASSUME FreeClosures PROVE SafeCore' /\ Match'
    <2>1. Pending(shutq, registry) /\ shutq = << >>
      BY <1>1, <1>21, PendingLive DEF FreeClosures, ClosuresLive
    <2>2. \A i \in registry : ~Rd(i)
      BY <2>1 DEF Pending
    <2>3. shutq' = << >> /\ ~ClosuresLive' /\ registry' = registry
          /\ UNCHANGED <<hooks, registry, ze_other_ptr, calls, dead>>
      BY <1>21 DEF FreeClosures, ClosuresLive, slots
    <2>4. PendingDestructors'
      BY <1>3, <2>2, <2>3 DEF PendingDestructors, Destructs
    <2> QED BY <1>16, <2>3, <2>4
  <1>22. ASSUME LastDeactivate PROVE SafeCore' /\ Match'
    <2>1. /\ SapiDeactivate /\ ~ClosuresLive /\ ~ClosuresLive'
          /\ UNCHANGED <<hooks, registry, ze_other_ptr, shutq>>
      BY <1>22 DEF LastDeactivate, ClosuresLive, slots
    <2>2. \A i \in registry : ~Rd(i) /\ ~HooksDeactivate(i)
      BY <1>1, <2>1 DEF PendingDestructors, HooksDeactivate
    <2>3. ~skipped' /\ ~dead'
      BY <1>11, <2>1, <2>2
    <2>4. PendingDestructors'
      BY <1>1, <1>3, <2>1 DEF PendingDestructors, Destructs
    <2>5. Match'
      BY <1>12, <2>1
    <2> QED BY <1>1, <1>5, <2>1, <2>3, <2>4, <2>5 DEF SafeCore
  <1>23. ASSUME PhpModuleShutdown PROVE SafeCore' /\ Match'
    <2>1. /\ ~ClosuresLive /\ ~ClosuresLive' /\ registry' = {}
          /\ dead' = (dead \/ \E i \in registry : decl[ClassOf[i]].ends)
          /\ UNCHANGED <<hooks, calls, shutq>>
      BY <1>23 DEF PhpModuleShutdown, ClosuresLive
    <2>2. \A i \in registry : ~Rd(i) /\ ClassOf[i] \in Classes
      BY <1>1, <2>1, ClassAssumption DEF PendingDestructors
    <2>3. \A i \in registry : ~decl[ClassOf[i]].ends /\ ~Hooks(ClassOf[i])
      BY <1>1, <2>2 DEF SafeUse, Rd
    <2>4. \A i \in registry : ~HooksActivate(i) /\ ~HooksDeactivate(i)
      BY <2>3 DEF HooksActivate, HooksDeactivate, Hooks, Sapi, Rs, Rd
    <2>5. /\ activate = host.activate /\ activate \notin Instances
          /\ deactivate = host.deactivate /\ deactivate \notin Instances
      BY <1>1, <2>4 DEF ActivateSlot, DeactivateSlot
    <2>6. ActivateSlot' /\ DeactivateSlot'
      BY <1>1, <2>1, <2>5 DEF hooks, ActivateSlot, DeactivateSlot
    <2>7. PendingDestructors'
      <3>1. \A i \in Instances : \A k \in DOMAIN shutq : ~Destructs(k, i)
        BY <1>1, <2>2 DEF PendingDestructors
      <3> QED BY <2>1, <3>1 DEF PendingDestructors, Destructs
    <2>8. Match'
      <3>1. \A j \in Instances : HooksActivate(j) => j \notin registry
        BY <2>4
      <3> QED BY <1>1, <1>3, <2>1, <3>1 DEF Match, calls
    <2> QED BY <1>1, <2>1, <2>3, <2>6, <2>7, <2>8 DEF SafeCore, calls
  <1>24. CASE UNCHANGED vars
    <2>1. PendingDestructors'
      BY <1>1, <1>3, <1>24 DEF PendingDestructors, Destructs, ClosuresLive, vars, slots
    <2> QED BY <1>16, <1>24, <2>1 DEF vars, slots
  <1>25. ASSUME \/ \E i \in Instances : ModuleDestructor(i)
                \/ \E c \in Classes : ClearModule(c)
         PROVE  FALSE
    <2>1. byHand \in Nat /\ byHand' = byHand + 1
      BY <1>1, <1>25 DEF ModuleDestructor, ClearModule, TypeOK
    <2> QED BY <2>1 DEF SafeUse
  <1> QED
    BY <1>8, <1>9, <1>13, <1>14, <1>15, <1>17, <1>18, <1>19, <1>20, <1>21, <1>22,
       <1>23, <1>24, <1>25 DEF Next, Engine, Terminated

\* The inductive invariant: everything the step relies on.
HookInv == SafeUse => SafeCore /\ Match

LEMMA HookInit == Init => HookInv
  <1> SUFFICES ASSUME Init PROVE SafeCore /\ Match
    BY DEF HookInv
  <1>1. activate \notin Instances /\ deactivate \notin Instances
    BY NullAssumption DEF Init
  <1>2. ActivateSlot /\ DeactivateSlot
    BY <1>1 DEF Init, ActivateSlot, DeactivateSlot
  <1>3. PendingDestructors
    BY DEF Init, PendingDestructors
  <1> QED BY <1>2, <1>3 DEF Init, SafeCore, Match

LEMMA HookStep == TypeOK /\ SlotInv /\ HookInv /\ [Next]_vars => HookInv'
  <1> SUFFICES ASSUME TypeOK, SlotInv, HookInv, [Next]_vars, SafeUse'
               PROVE  SafeCore' /\ Match'
    BY DEF HookInv
  <1>1. SafeUse /\ UNCHANGED env
    BY SafeUseBack
  <1>2. Good /\ Match
    BY <1>1 DEF Good, HookInv
  <1> QED BY <1>2, SafeStep

LEMMA HookInvariant == Spec => []HookInv
  BY HookInit, HookStep, TypeCorrect, SlotInvariant, PTL DEF Spec

\* SafeInv: while a hooking module is registered its closure is in the slot
\* with the SAPI's routine saved behind it, its destructor is pending, and
\* nothing freed was ever used.
THEOREM HooksSafe == Spec => []SafeInv
  <1>1. HookInv => SafeInv
    BY DEF HookInv, SafeInv
  <1> QED BY <1>1, HookInvariant, PTL

\* A safe program never makes PHP call a freed closure or use a freed entry.
THEOREM NoDeadCalls == Spec => []NoDeadCall
  <1>1. HookInv => NoDeadCall
    BY DEF HookInv, SafeCore, NoDeadCall
  <1> QED BY <1>1, HookInvariant, PTL

\* The SAPI's own activate and deactivate run in every call of a slot.
THEOREM HostServed == Spec => []HostNeverSkipped
  <1>1. HookInv => HostNeverSkipped
    BY DEF HookInv, SafeCore, HostNeverSkipped
  <1> QED BY <1>1, HookInvariant, PTL

\* A hooked module's callbacks are called as often as the SAPI is
\* (de)activated, whatever other modules do in between.
THEOREM CallsMatch == Spec => []RequestCallsMatch
  <1>1. HookInv => RequestCallsMatch
    BY DEF HookInv, Match, RequestCallsMatch
  <1> QED BY <1>1, HookInvariant, PTL

\* When the closures are freed the slots are the SAPI's again.
THEOREM Restored == Spec => []HooksRestored
  <1>1. TypeOK /\ HookInv => HooksRestored
    <2> SUFFICES ASSUME TypeOK, SafeUse, SafeCore, ~ClosuresLive
                 PROVE  /\ activate = host.activate /\ deactivate = host.deactivate
                        /\ \A i \in registry : ~Rd(i) /\ ~decl[ClassOf[i]].ends
      BY DEF HookInv, HooksRestored
    <2>1. \A i \in registry : ~Rd(i) /\ ClassOf[i] \in Classes
      BY ClassAssumption DEF SafeCore, PendingDestructors, TypeOK
    <2>2. \A i \in registry : ~decl[ClassOf[i]].ends /\ ~Hooks(ClassOf[i])
      BY <2>1 DEF SafeUse, Rd
    <2>3. \A i \in registry : ~HooksActivate(i) /\ ~HooksDeactivate(i)
      BY <2>2 DEF HooksActivate, HooksDeactivate, Hooks, Sapi, Rs, Rd
    <2> QED BY <2>1, <2>2, <2>3 DEF SafeCore, ActivateSlot, DeactivateSlot
  <1> QED BY <1>1, HookInvariant, TypeCorrect, PTL
=============================================================================
