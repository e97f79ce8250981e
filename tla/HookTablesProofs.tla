-------------------------- MODULE HookTablesProofs --------------------------
(***************************************************************************)
(* Proofs about HookTables, for any classes, fields and number of hooks:   *)
(* that chains of hooks end, and that hooks destructed newest first leave  *)
(* every field as it was.  All ways to install are seen as one, Grows: new *)
(* hooks of different fields, each in its field and holding what was there.*)
(***************************************************************************)
EXTENDS HookTables, SequenceTheorems, WellFoundedInduction, TLAPS

\* What install() and install_handlers() do to the hooks and the fields.
Grows ==
    /\ hooks' \in Seq(Hook) /\ Len(hooks') <= MaxHooks /\ Len(hooks) <= Len(hooks')
    /\ slot' \in [Places -> Function]
    /\ \A h \in DOMAIN hooks : hooks'[h] = hooks[h]
    /\ \A h \in Newest .. Len(hooks') :
          /\ hooks'[h].original = slot[hooks'[h].place]
          /\ slot'[hooks'[h].place] = h
    /\ \A h, k \in Newest .. Len(hooks') : hooks'[h].place = hooks'[k].place => h = k
    /\ \A p \in Places :
          (\A h \in Newest .. Len(hooks') : hooks'[h].place # p) => slot'[p] = slot[p]

LEMMA LenHooks == TypeOK => Len(hooks) \in Nat /\ DOMAIN hooks = 1 .. Len(hooks) /\ Len(hooks) <= MaxHooks
  BY DEF TypeOK

LEMMA InstallGrows ==
    ASSUME TypeOK, NEW p \in Places, NEW c \in Classes \cup {Null}, Install(p, c)
    PROVE  Grows
  <1> DEFINE new == [place |-> p, class |-> c, original |-> slot[p]]
  <1>1. Len(hooks) \in Nat /\ Len(hooks) < MaxHooks /\ DOMAIN hooks = 1 .. Len(hooks)
    BY LenHooks DEF Install
  <1>2. new \in Hook
    BY DEF TypeOK, Hook
  <1>3. hooks \in Seq(Hook) /\ hooks' = Append(hooks, new)
    BY DEF TypeOK, Install, Captured
  <1> HIDE DEF new
  <1>4. /\ hooks' \in Seq(Hook) /\ Len(hooks') = Len(hooks) + 1
        /\ \A h \in 1 .. Len(hooks) : hooks'[h] = hooks[h]
        /\ hooks'[Len(hooks) + 1] = new
    BY <1>2, <1>3
  <1>5. Newest .. Len(hooks') = {Newest} /\ Newest = Len(hooks) + 1
    BY <1>1, <1>4 DEF Newest
  <1>6. slot' = [slot EXCEPT ![p] = Newest] /\ Newest \in Ids
    BY <1>1, BoundAssumption DEF Install, Newest, Ids
  <1>7. slot' \in [Places -> Function] /\ slot'[p] = Newest
        /\ \A q \in Places : q # p => slot'[q] = slot[q]
    BY <1>6 DEF TypeOK, Function
  <1>8. new.place = p /\ new.original = slot[p]
    BY DEF new
  <1>9. Len(hooks') <= MaxHooks /\ Len(hooks) <= Len(hooks')
    BY <1>1, <1>4, BoundAssumption
  <1>10. \A h \in Newest .. Len(hooks') : h = Newest /\ hooks'[h] = new
    BY <1>4, <1>5
  <1> QED BY <1>1, <1>4, <1>5, <1>7, <1>8, <1>9, <1>10 DEF Grows

LEMMA EntriesArePlaces ==
    /\ \A c \in Classes : Create(c) \in Places /\ Gets(c) \in Places
    /\ Ast \in Places
    /\ \A f \in Fields, t \in 1 .. MaxTables : In(f, t) \in Places
  BY DEF Places, Entries

\* A function on an initial segment of the numbers is a sequence.
LEMMA FunctionIsSequence ==
    ASSUME NEW n \in Nat, NEW S, NEW f \in [1 .. n -> S]
    PROVE  f \in Seq(S) /\ Len(f) = n
  <1>1. f \in Seq(S)
    OBVIOUS
  <1>2. DOMAIN f = 1 .. n
    OBVIOUS
  <1> QED BY <1>1, <1>2

\* The fields of a table differ from each other and from create_object.
LEMMA PlacesDiffer ==
    ASSUME NEW c \in Classes, NEW F \in Choices, NEW t
    PROVE  /\ \A i \in DOMAIN F : In(F[i], t) # Create(c)
           /\ \A i, j \in DOMAIN F : In(F[i], t) = In(F[j], t) => i = j
  <1>1. /\ \A i \in DOMAIN F : F[i] \in Fields
        /\ \A i, j \in DOMAIN F : F[i] = F[j] => i = j
    BY DEF Choices
  <1>2. \A i \in DOMAIN F : F[i] # "create_object"
    BY <1>1, FieldAssumption
  <1> QED BY <1>1, <1>2 DEF In, Create

LEMMA ChoiceIsSequence ==
    ASSUME NEW F \in Choices
    PROVE  F \in Seq(Fields) /\ Len(F) \in Nat /\ DOMAIN F = 1 .. Len(F)
  <1>1. PICK n \in 0 .. Cardinality(Fields) : F \in [1 .. n -> Fields]
    BY DEF Choices
  <1>2. F \in Seq(Fields)
    BY <1>1
  <1> QED BY <1>2

LEMMA HandlersGrow ==
    ASSUME TypeOK, NEW c \in Classes, NEW F \in Choices, InstallHandlers(c, F)
    PROVE  Grows
  <1> DEFINE place(k) == IF k = Newest THEN Create(c) ELSE In(F[k - Newest], tables + 1)
             fresh == Newest .. Newest + Len(F)
             added == [k \in 1 .. Len(F) + 1 |->
                          [place |-> place(Len(hooks) + k), class |-> c,
                           original |-> slot[place(Len(hooks) + k)]]]
  <1>1. /\ Len(hooks) \in Nat /\ DOMAIN hooks = 1 .. Len(hooks)
        /\ Len(F) \in Nat /\ DOMAIN F = 1 .. Len(F) /\ F \in Seq(Fields)
        /\ Len(hooks) + 1 + Len(F) <= MaxHooks
    BY LenHooks, ChoiceIsSequence DEF InstallHandlers
  <1>2. tables + 1 \in 1 .. MaxTables
    BY BoundAssumption DEF TypeOK, InstallHandlers, Allocated
  <1>3. \A k \in fresh : k = Newest \/ k - Newest \in DOMAIN F
    BY <1>1 DEF Newest
  <1>4. \A k \in fresh : place(k) \in Places
    <2>1. \A i \in DOMAIN F : F[i] \in Fields
      BY <1>1
    <2> QED BY <1>2, <1>3, <2>1, EntriesArePlaces
  <1>5. \A k, l \in fresh : place(k) = place(l) => k = l
    <2>1. /\ \A i \in DOMAIN F : In(F[i], tables + 1) # Create(c)
          /\ \A i, j \in DOMAIN F : In(F[i], tables + 1) = In(F[j], tables + 1) => i = j
      BY PlacesDiffer
    <2>2. \A k \in fresh : k \in Int /\ Newest \in Int
      BY <1>1 DEF Newest
    <2>3. \A k, l \in fresh : k - Newest = l - Newest => k = l
      BY <2>2
    <2> QED BY <1>3, <2>1, <2>3
  <1>6. hooks' = hooks \o added
    BY DEF InstallHandlers, Captured
  <1>7. /\ slot' = [p \in Places |->
                       IF \E k \in fresh : p = place(k)
                       THEN CHOOSE k \in fresh : p = place(k) ELSE slot[p]]
    BY DEF InstallHandlers
  <1> HIDE DEF place
  <1>8. \A k \in 1 .. Len(F) + 1 : Len(hooks) + k \in fresh
    BY <1>1 DEF Newest
  <1>9. added \in Seq(Hook) /\ Len(added) = Len(F) + 1
    <2>1. \A k \in 1 .. Len(F) + 1 : added[k] \in Hook
      BY <1>4, <1>8 DEF TypeOK, Hook
    <2>2. added \in [1 .. Len(F) + 1 -> Hook]
      BY <2>1
    <2>3. Len(F) + 1 \in Nat
      BY <1>1
    <2> HIDE DEF added
    <2> QED BY <2>2, <2>3, FunctionIsSequence
  <1>10. \A k \in 1 .. Len(F) + 1 : /\ added[k].place = place(Len(hooks) + k)
                                    /\ added[k].original = slot[place(Len(hooks) + k)]
    OBVIOUS
  <1> HIDE DEF added
  <1>11. /\ hooks' \in Seq(Hook) /\ Len(hooks') = Len(hooks) + Len(F) + 1
         /\ \A h \in 1 .. Len(hooks) : hooks'[h] = hooks[h]
         /\ \A k \in 1 .. Len(F) + 1 : hooks'[Len(hooks) + k] = added[k]
    <2>1. hooks \in Seq(Hook)
      BY DEF TypeOK
    <2>2. /\ hooks' \in Seq(Hook) /\ Len(hooks') = Len(hooks) + Len(added)
          /\ \A i \in 1 .. Len(hooks) + Len(added) :
                hooks'[i] = IF i <= Len(hooks) THEN hooks[i] ELSE added[i - Len(hooks)]
      BY <1>6, <1>9, <2>1, ConcatProperties
    <2>3. \A i \in 1 .. Len(hooks) : hooks'[i] = hooks[i]
      BY <1>1, <1>9, <2>2
    <2>4. \A k \in 1 .. Len(F) + 1 : hooks'[Len(hooks) + k] = added[k]
      <3> TAKE k \in 1 .. Len(F) + 1
      <3>1. /\ Len(hooks) + k \in 1 .. Len(hooks) + Len(added)
            /\ ~(Len(hooks) + k <= Len(hooks)) /\ (Len(hooks) + k) - Len(hooks) = k
        BY <1>1, <1>9
      <3> QED BY <2>2, <3>1
    <2> QED BY <1>1, <1>9, <2>2, <2>3, <2>4
  <1>12. Newest .. Len(hooks') = fresh
    BY <1>1, <1>11 DEF Newest
  <1>13. \A h \in fresh : h - Len(hooks) \in 1 .. Len(F) + 1 /\ Len(hooks) + (h - Len(hooks)) = h
    BY <1>1 DEF Newest
  <1>14. \A h \in fresh : /\ hooks'[h].place = place(h)
                          /\ hooks'[h].original = slot[place(h)]
    <2> TAKE h \in fresh
    <2>1. h - Len(hooks) \in 1 .. Len(F) + 1 /\ Len(hooks) + (h - Len(hooks)) = h
      BY <1>13
    <2>2. hooks'[h] = added[h - Len(hooks)]
      BY <1>11, <2>1
    <2> QED BY <1>10, <2>1, <2>2
  <1>15. \A h \in fresh : slot'[place(h)] = h
    <2> TAKE h \in fresh
    <2>1. slot'[place(h)] = CHOOSE k \in fresh : place(h) = place(k)
      BY <1>4, <1>7
    <2> QED BY <1>5, <2>1
  <1>16. \A p \in Places : (\A h \in fresh : place(h) # p) => slot'[p] = slot[p]
    BY <1>7
  <1>17. slot' \in [Places -> Function]
    <2>1. fresh \subseteq Ids
      BY <1>1, BoundAssumption DEF Newest, Ids
    <2>2. \A p \in Places : slot'[p] \in Function
      BY <1>7, <1>15, <2>1 DEF TypeOK, Function
    <2> QED BY <1>7, <2>2
  <1>18. Len(hooks') <= MaxHooks /\ Len(hooks) <= Len(hooks')
    BY <1>1, <1>11, BoundAssumption
  <1> HIDE DEF fresh
  <1>19. \A h \in Newest .. Len(hooks') :
            /\ hooks'[h].original = slot[hooks'[h].place]
            /\ slot'[hooks'[h].place] = h
    BY <1>12, <1>14, <1>15
  <1>20. \A h, k \in Newest .. Len(hooks') : hooks'[h].place = hooks'[k].place => h = k
    <2> SUFFICES ASSUME NEW h \in fresh, NEW k \in fresh, hooks'[h].place = hooks'[k].place
                 PROVE  h = k
      BY <1>12
    <2>1. hooks'[h].place = place(h) /\ hooks'[k].place = place(k)
      BY <1>14
    <2>2. place(h) = place(k)
      BY <2>1
    <2> QED BY <1>5, <2>2
  <1>21. \A p \in Places :
            (\A h \in Newest .. Len(hooks') : hooks'[h].place # p) => slot'[p] = slot[p]
    BY <1>12, <1>14, <1>16
  <1> QED BY <1>1, <1>11, <1>17, <1>18, <1>19, <1>20, <1>21 DEF Grows

-----------------------------------------------------------------------------
(* The types.                                                              *)

LEMMA ClassTypes ==
    ASSUME TypeOK, NEW c \in Classes
    PROVE  /\ Allocated(c) => /\ tables' \in 0 .. MaxTables
                              /\ object_handlers' \in [Classes -> 0 .. MaxTables]
                              /\ object_handlers'[c] \in 1 .. MaxTables
           /\ ObjectHandlers(c) => /\ tables' \in 0 .. MaxTables
                                   /\ object_handlers' \in [Classes -> 0 .. MaxTables]
                                   /\ object_handlers'[c] \in 1 .. MaxTables
  <1>1. ASSUME Allocated(c)
        PROVE  /\ tables' \in 0 .. MaxTables
               /\ object_handlers' \in [Classes -> 0 .. MaxTables]
               /\ object_handlers'[c] \in 1 .. MaxTables
    BY <1>1, BoundAssumption DEF TypeOK, Allocated
  <1>2. ASSUME ObjectHandlers(c)
        PROVE  /\ tables' \in 0 .. MaxTables
               /\ object_handlers' \in [Classes -> 0 .. MaxTables]
               /\ object_handlers'[c] \in 1 .. MaxTables
    BY <1>1, <1>2, BoundAssumption DEF TypeOK, ObjectHandlers
  <1> QED BY <1>1, <1>2

\* The steps of Next that install, those of the end of a request, and New.
Installs ==
    \/ \E c \in Classes : \/ CreateObject(c)
                          \/ \E f \in Fields : InstallHandler(c, f)
                          \/ \E F \in Choices : InstallHandlers(c, F)
                          \/ InterfaceGetsImplemented(c)
    \/ ZendAstProcess

\* Every way to install hooks is Grows, in the script, and well typed.
LEMMA InstallsGrow ==
    ASSUME TypeOK, Installs
    PROVE  /\ Grows /\ phase = "script"
           /\ tables' \in 0 .. MaxTables
           /\ object_handlers' \in [Classes -> 0 .. MaxTables]
           /\ UNCHANGED <<first, objects, phase, gone, disorder, fatal>>
  <1> DEFINE Goal == /\ Grows /\ phase = "script"
                     /\ tables' \in 0 .. MaxTables
                     /\ object_handlers' \in [Classes -> 0 .. MaxTables]
                     /\ UNCHANGED <<first, objects, phase, gone, disorder, fatal>>
  <1>1. ASSUME NEW c \in Classes, CreateObject(c) PROVE Goal
    <2>1. Grows
      BY <1>1, InstallGrows, EntriesArePlaces DEF CreateObject
    <2> QED BY <1>1, <2>1, ClassTypes DEF CreateObject
  <1>2. ASSUME NEW c \in Classes, NEW f \in Fields, InstallHandler(c, f) PROVE Goal
    <2>1. object_handlers'[c] \in 1 .. MaxTables
      BY <1>2, ClassTypes DEF InstallHandler
    <2>2. Grows
      BY <1>2, <2>1, InstallGrows, EntriesArePlaces DEF InstallHandler
    <2> QED BY <1>2, <2>2, ClassTypes DEF InstallHandler
  <1>3. ASSUME NEW c \in Classes, NEW F \in Choices, InstallHandlers(c, F) PROVE Goal
    <2>1. Grows
      BY <1>3, HandlersGrow
    <2> QED BY <1>3, <2>1, ClassTypes DEF InstallHandlers
  <1>4. ASSUME NEW c \in Classes, InterfaceGetsImplemented(c) PROVE Goal
    <2>1. Grows
      BY <1>4, InstallGrows, EntriesArePlaces DEF InterfaceGetsImplemented
    <2> QED BY <1>4, <2>1 DEF InterfaceGetsImplemented, TypeOK
  <1>5. ASSUME ZendAstProcess PROVE Goal
    <2>1. Grows
      BY <1>5, InstallGrows, EntriesArePlaces DEF ZendAstProcess
    <2> QED BY <1>5, <2>1 DEF ZendAstProcess, TypeOK
  <1> QED BY <1>1, <1>2, <1>3, <1>4, <1>5 DEF Installs

LEMMA NextCases ==
    ASSUME [Next]_vars
    PROVE  \/ Installs
           \/ \E o \in Objects : New(o)
           \/ \E h \in Ids : Destruct(h)
           \/ EndScript \/ FatalError \/ Release \/ UNCHANGED vars
  BY DEF Next, Installs, Terminated

\* What a destructor writes back is a function that a field may hold.
LEMMA PutBackTyped ==
    ASSUME TypeOK, NEW h \in DOMAIN hooks
    PROVE  /\ hooks[h] \in Hook
           /\ PutBack(h) \in [Places -> Function]
  <1>1. hooks[h] \in Hook
    BY DEF TypeOK
  <1> QED BY <1>1 DEF TypeOK, PutBack, Hook

LEMMA TypeStep ==
    ASSUME TypeOK, [Next]_vars PROVE TypeOK'
  <1>1. CASE Installs
    BY <1>1, InstallsGrow DEF TypeOK, Grows
  <1>2. ASSUME NEW o \in Objects, New(o) PROVE TypeOK'
    <2>1. ClassOf[o] \in Classes
      BY ObjectAssumption
    <2>2. /\ tables' \in 0 .. MaxTables
          /\ object_handlers' \in [Classes -> 0 .. MaxTables]
      BY <1>2, <2>1, ClassTypes DEF New, TypeOK
    <2>3. objects' \in [Objects -> -1 .. MaxTables]
      <3>1. ASSUME ObjectHandlers(ClassOf[o]) PROVE object_handlers'[ClassOf[o]] \in 1 .. MaxTables
        BY <2>1, <3>1, ClassTypes
      <3> QED BY <1>2, <3>1, BoundAssumption DEF New, TypeOK
    <2> QED BY <1>2, <2>2, <2>3 DEF New, TypeOK
  <1>3. ASSUME NEW h \in Ids, Destruct(h) PROVE TypeOK'
    <2>1. slot' \in [Places -> Function]
      BY <1>3, PutBackTyped DEF Destruct
    <2>2. disorder' \in BOOLEAN
      BY <1>3 DEF Destruct, TypeOK
    <2> QED BY <1>3, <2>1, <2>2 DEF Destruct, TypeOK
  <1>4. CASE EndScript
    BY <1>4 DEF EndScript, TypeOK
  <1>5. CASE FatalError
    BY <1>5 DEF FatalError, TypeOK
  <1>6. CASE Release
    BY <1>6 DEF Release, TypeOK
  <1>7. CASE UNCHANGED vars
    BY <1>7 DEF vars, TypeOK
  <1> QED BY <1>1, <1>2, <1>3, <1>4, <1>5, <1>6, <1>7, NextCases

LEMMA TypeInit == Init => TypeOK
  <1> SUFFICES ASSUME Init PROVE TypeOK
    OBVIOUS
  <1>1. slot \in [Places -> Function] /\ first \in [Places -> {Null, Native}]
    BY DEF Init, Function
  <1>2. hooks \in Seq(Hook) /\ Len(hooks) <= MaxHooks
    BY BoundAssumption, EmptySeq DEF Init
  <1>3. tables \in 0 .. MaxTables /\ object_handlers \in [Classes -> 0 .. MaxTables]
    BY BoundAssumption DEF Init
  <1>4. objects \in [Objects -> -1 .. MaxTables]
    BY BoundAssumption DEF Init
  <1> QED BY <1>1, <1>2, <1>3, <1>4 DEF Init, TypeOK

\* Hooks, tables and objects are well typed (ObjectHandler, ZendClassEntry).
THEOREM TypeCorrect == Spec => []TypeOK
  BY TypeInit, TypeStep, PTL DEF Spec

-----------------------------------------------------------------------------
(* The chains.                                                             *)

Chains == SlotHooks /\ Linked /\ NewestInSlot /\ GoneInOrder

LEMMA FirstIsNoHook == ASSUME TypeOK PROVE \A p \in Places : first[p] \notin Ids
  BY NullAssumption DEF TypeOK, Ids

LEMMA HookTypes ==
    ASSUME TypeOK
    PROVE  /\ DOMAIN hooks = 1 .. Len(hooks) /\ DOMAIN hooks \subseteq Ids /\ Len(hooks) \in Nat
           /\ \A h \in DOMAIN hooks : hooks[h].place \in Places /\ h \in Nat
  <1>1. DOMAIN hooks = 1 .. Len(hooks) /\ Len(hooks) \in Nat /\ Len(hooks) <= MaxHooks
    BY LenHooks
  <1>2. DOMAIN hooks \subseteq Ids
    BY <1>1, BoundAssumption DEF Ids
  <1>3. \A h \in DOMAIN hooks : hooks[h] \in Hook
    BY DEF TypeOK
  <1> QED BY <1>1, <1>2, <1>3 DEF Hook

\* In the script a field that was never hooked holds what it held at first,
\* and another one its newest hook.
LEMMA ScriptSlots ==
    ASSUME TypeOK, Chains, phase = "script", NEW p \in Places
    PROVE  IF slot[p] \in Ids
           THEN /\ slot[p] \in DOMAIN hooks /\ hooks[slot[p]].place = p
                /\ \A k \in DOMAIN hooks : hooks[k].place = p => k <= slot[p]
           ELSE /\ slot[p] = first[p]
                /\ \A k \in DOMAIN hooks : hooks[k].place # p
  <1>1. gone = {} /\ ~disorder
    BY DEF Chains, GoneInOrder
  <1>2. Live(p) = {k \in DOMAIN hooks : hooks[k].place = p}
    BY <1>1 DEF Live
  <1>3. IF Live(p) = {} THEN slot[p] = first[p]
        ELSE slot[p] \in Live(p) /\ \A k \in Live(p) : k <= slot[p]
    BY <1>1 DEF Chains, NewestInSlot
  <1> QED BY <1>2, <1>3, FirstIsNoHook, HookTypes

\* Installing adds a link to the end of a chain.
LEMMA InstallStep ==
    ASSUME TypeOK, TypeOK', Chains, Installs PROVE Chains'
  <1>1. /\ Grows /\ phase = "script" /\ phase' = phase /\ first' = first
        /\ gone' = gone /\ disorder' = disorder /\ fatal' = fatal
    BY InstallsGrow
  <1>2. gone = {} /\ ~disorder
    BY <1>1 DEF Chains, GoneInOrder
  <1>3. /\ DOMAIN hooks = 1 .. Len(hooks) /\ DOMAIN hooks' = 1 .. Len(hooks')
        /\ Len(hooks) \in Nat /\ Len(hooks') \in Nat /\ Len(hooks) <= Len(hooks')
        /\ DOMAIN hooks' \subseteq Ids
        /\ \A h \in DOMAIN hooks' : hooks'[h].place \in Places
    <2>1. hooks' \in Seq(Hook) /\ Len(hooks') <= MaxHooks
      BY <1>1 DEF Grows
    <2>2. DOMAIN hooks' = 1 .. Len(hooks') /\ Len(hooks') \in Nat
      BY <2>1, LenProperties
    <2>3. DOMAIN hooks' \subseteq Ids
      BY <2>1, <2>2, BoundAssumption DEF Ids
    <2>4. \A h \in DOMAIN hooks' : hooks'[h] \in Hook
      BY <2>1
    <2> QED BY <1>1, <2>2, <2>3, <2>4, HookTypes DEF Grows, Hook
  <1>4. \A h \in DOMAIN hooks' : h \in DOMAIN hooks \/ h \in Newest .. Len(hooks')
    BY <1>3 DEF Newest
  <1>5. \A h \in Newest .. Len(hooks') : h \in DOMAIN hooks' /\ \A k \in DOMAIN hooks : k < h
    BY <1>3 DEF Newest
  <1>6. DOMAIN hooks \subseteq DOMAIN hooks' /\ \A h \in DOMAIN hooks : hooks'[h] = hooks[h]
    BY <1>1, <1>3 DEF Grows
  <1>7. \A p \in Places :
           \/ \E h \in Newest .. Len(hooks') : hooks'[h].place = p /\ slot'[p] = h
           \/ /\ slot'[p] = slot[p]
              /\ \A h \in Newest .. Len(hooks') : hooks'[h].place # p
    BY <1>1 DEF Grows
  <1>8. SlotHooks'
    <2> SUFFICES ASSUME NEW p \in Places, slot'[p] \in Ids
                 PROVE  slot'[p] \in DOMAIN hooks' /\ hooks'[slot'[p]].place = p
      BY DEF SlotHooks
    <2>1. CASE \E h \in Newest .. Len(hooks') : hooks'[h].place = p /\ slot'[p] = h
      BY <2>1, <1>5
    <2>2. CASE slot'[p] = slot[p]
      BY <2>2, <1>6 DEF Chains, SlotHooks
    <2> QED BY <1>7, <2>1, <2>2
  <1>9. Linked'
    <2> SUFFICES ASSUME NEW h \in DOMAIN hooks'
                 PROVE  LET o == hooks'[h].original
                            p == hooks'[h].place
                        IN
                        /\ \A k \in DOMAIN hooks' :
                              (k < h /\ hooks'[k].place = p) => o \in Ids /\ k <= o
                        /\ IF o \in Ids THEN o < h /\ hooks'[o].place = p ELSE o = first[p]
      BY <1>1 DEF Linked
    <2>1. CASE h \in DOMAIN hooks
      <3> hooks[h] \in Hook
        BY <2>1, HookTypes DEF TypeOK
      <3>1. hooks'[h] = hooks[h] /\ hooks[h].original \in Function
        BY <2>1, <1>6 DEF Hook
      <3>2. \A k \in DOMAIN hooks' : k < h => k \in DOMAIN hooks /\ hooks'[k] = hooks[k]
        BY <2>1, <1>3, <1>6
      <3>3. hooks[h].original \in Ids /\ hooks[h].original < h => hooks[h].original \in DOMAIN hooks
        BY <2>1, <1>3 DEF Ids
      <3> QED BY <2>1, <3>1, <3>2, <3>3, <1>6 DEF Chains, Linked
    <2>2. CASE h \in Newest .. Len(hooks')
      <3> DEFINE p == hooks'[h].place
      <3>1. p \in Places /\ hooks'[h].original = slot[p]
        BY <2>2, <1>1, <1>3 DEF Grows
      <3>2. \A k \in DOMAIN hooks' : (k < h /\ hooks'[k].place = p)
                                         => k \in DOMAIN hooks /\ hooks[k].place = p
        <4>1. \A k \in Newest .. Len(hooks') : hooks'[k].place = p => k = h
          BY <2>2, <1>1 DEF Grows
        <4>2. \A k \in DOMAIN hooks' : k < h => k # h
          BY <1>3
        <4> QED BY <4>1, <4>2, <1>4, <1>6
      <3>3. IF slot[p] \in Ids
            THEN /\ slot[p] \in DOMAIN hooks /\ hooks[slot[p]].place = p
                 /\ \A k \in DOMAIN hooks : hooks[k].place = p => k <= slot[p]
            ELSE slot[p] = first[p] /\ \A k \in DOMAIN hooks : hooks[k].place # p
        BY <3>1, <1>1, ScriptSlots
      <3>4. slot[p] \in DOMAIN hooks => slot[p] < h /\ hooks'[slot[p]] = hooks[slot[p]]
        BY <2>2, <1>5, <1>6
      <3> QED BY <3>1, <3>2, <3>3, <3>4
    <2> QED BY <1>4, <2>1, <2>2
  <1>10. NewestInSlot'
    <2> SUFFICES ASSUME NEW p \in Places
                 PROVE  IF Live(p)' = {} THEN slot'[p] = first[p]
                        ELSE slot'[p] \in Live(p)' /\ \A k \in Live(p)' : k <= slot'[p]
      BY <1>1 DEF NewestInSlot
    <2>1. Live(p)' = {k \in DOMAIN hooks' : hooks'[k].place = p}
      BY <1>1, <1>2 DEF Live
    <2>2. CASE \E h \in Newest .. Len(hooks') : hooks'[h].place = p /\ slot'[p] = h
      <3>1. PICK h \in Newest .. Len(hooks') : hooks'[h].place = p /\ slot'[p] = h
        BY <2>2
      <3>2. \A k \in Newest .. Len(hooks') : hooks'[k].place = p => k = h
        BY <3>1, <1>1 DEF Grows
      <3>3. h \in Live(p)' /\ h \in Nat
        BY <2>1, <3>1, <1>3, <1>5
      <3>4. \A k \in Live(p)' : k <= h
        BY <2>1, <3>2, <3>3, <1>3, <1>4, <1>5
      <3> QED BY <3>1, <3>3, <3>4
    <2>3. CASE slot'[p] = slot[p] /\ \A h \in Newest .. Len(hooks') : hooks'[h].place # p
      <3>1. Live(p)' = {k \in DOMAIN hooks : hooks[k].place = p}
        BY <2>1, <2>3, <1>4, <1>6
      <3>2. IF slot[p] \in Ids
            THEN /\ slot[p] \in DOMAIN hooks /\ hooks[slot[p]].place = p
                 /\ \A k \in DOMAIN hooks : hooks[k].place = p => k <= slot[p]
            ELSE slot[p] = first[p] /\ \A k \in DOMAIN hooks : hooks[k].place # p
        BY <1>1, ScriptSlots
      <3> QED BY <2>3, <3>1, <3>2
    <2> QED BY <1>7, <2>2, <2>3
  <1>11. GoneInOrder'
    BY <1>1, <1>2 DEF GoneInOrder
  <1> QED BY <1>8, <1>9, <1>10, <1>11 DEF Chains

\* A destructor that keeps the order takes the last link away.
LEMMA DestructStep ==
    ASSUME TypeOK, Chains, NEW h \in Ids, Destruct(h) PROVE Chains'
  <1> DEFINE p == hooks[h].place
             o == hooks[h].original
  <1>1. /\ phase = "destructors" /\ phase' = phase /\ h \in DOMAIN hooks /\ h \notin gone
        /\ hooks' = hooks /\ first' = first /\ fatal' = fatal /\ gone' = gone \cup {h}
        /\ disorder' = (disorder \/ Newer(h) # {})
        /\ slot' = PutBack(h)
    BY DEF Destruct
  <1>2. p \in Places /\ h \in Nat
    BY <1>1, HookTypes
  <1>3. /\ \A q \in Places : q # p => slot'[q] = slot[q]
        /\ slot'[p] = IF o = Null THEN slot[p] ELSE o
    BY <1>1, <1>2 DEF PutBack, TypeOK
  <1>4. /\ \A k \in DOMAIN hooks : (k < h /\ hooks[k].place = p) => o \in Ids /\ k <= o
        /\ IF o \in Ids THEN o < h /\ hooks[o].place = p ELSE o = first[p]
    BY <1>1 DEF Chains, Linked
  <1>5. o \in Ids => o \in DOMAIN hooks /\ o # Null
    <2>1. o \in Ids => o \in 1 .. Len(hooks)
      BY <1>1, <1>2, <1>4, HookTypes DEF Ids
    <2> QED BY <2>1, HookTypes, NullAssumption DEF Ids
  <1>6. SlotHooks'
    <2> SUFFICES ASSUME NEW q \in Places, slot'[q] \in Ids
                 PROVE  slot'[q] \in DOMAIN hooks /\ hooks[slot'[q]].place = q
      BY <1>1 DEF SlotHooks
    <2>1. slot'[q] = slot[q] \/ (q = p /\ slot'[q] = o)
      BY <1>3
    <2> QED BY <2>1, <1>4, <1>5 DEF Chains, SlotHooks
  <1>7. Linked'
    BY <1>1 DEF Chains, Linked
  <1>8. GoneInOrder'
    <2>1. ASSUME ~disorder', NEW g \in gone' PROVE Newer(g)' = {}
      <3>1. ~disorder /\ Newer(h) = {}
        BY <1>1, <2>1
      <3>2. Newer(g) = {}
        BY <1>1, <2>1, <3>1 DEF Chains, GoneInOrder
      <3> QED BY <1>1, <3>2 DEF Newer
    <2> QED BY <1>1, <2>1 DEF Chains, GoneInOrder
  <1>9. NewestInSlot'
    <2> SUFFICES ASSUME ~disorder', NEW q \in Places,
                        first[q] # Null \/ \A k \in DOMAIN hooks : hooks[k].place # q
                 PROVE  IF Live(q)' = {} THEN slot'[q] = first[q]
                        ELSE slot'[q] \in Live(q)' /\ \A k \in Live(q)' : k <= slot'[q]
      BY <1>1 DEF NewestInSlot
    <2>1. ~disorder /\ Newer(h) = {}
      BY <1>1
    <2>2. IF Live(q) = {} THEN slot[q] = first[q]
          ELSE slot[q] \in Live(q) /\ \A k \in Live(q) : k <= slot[q]
      BY <2>1 DEF Chains, NewestInSlot
    <2>3. Live(q)' = Live(q) \ {h}
      BY <1>1 DEF Live
    <2>4. CASE q # p
      <3>1. h \notin Live(q)
        BY <2>4 DEF Live
      <3> QED BY <2>2, <2>3, <2>4, <3>1, <1>3
    <2>5. CASE q = p
      <3>1. first[q] # Null
        BY <2>5, <1>1
      <3>2. \A k \in Live(q)' : k < h
        <4>1. \A k \in Live(q) : ~(k > h)
          BY <2>1, <2>5 DEF Newer, Live
        <4>2. \A k \in Live(q) : k \in Nat
          BY HookTypes DEF Live
        <4> QED BY <2>3, <4>1, <4>2, <1>2
      <3>3. \A k \in Live(q)' : o \in Ids /\ k <= o
        <4>1. \A k \in Live(q) : k \in DOMAIN hooks /\ hooks[k].place = p
          BY <2>5 DEF Live
        <4> QED BY <3>2, <2>3, <4>1, <1>4
      <3>4. CASE o \in Ids
        <4>1. o \notin gone
          <5>1. SUFFICES ASSUME o \in gone PROVE FALSE
            OBVIOUS
          <5>2. Newer(o) = {}
            BY <2>1, <5>1 DEF Chains, GoneInOrder
          <5>3. h \in Newer(o)
            BY <1>1, <1>2, <1>4, <3>4 DEF Newer, Ids
          <5> QED BY <5>2, <5>3
        <4>2. o \in Live(q)'
          <5>1. o \in Live(q) /\ o # h
            BY <2>5, <3>4, <4>1, <1>2, <1>4, <1>5 DEF Live, Ids
          <5> QED BY <2>3, <5>1
        <4>3. slot'[q] = o
          BY <2>5, <3>4, <1>3, <1>5
        <4> QED BY <3>3, <4>2, <4>3
      <3>5. CASE o \notin Ids
        <4>1. Live(q)' = {}
          BY <3>3, <3>5
        <4>2. o = first[q]
          BY <2>5, <3>5, <1>4
        <4>3. slot'[q] = first[q]
          BY <2>5, <3>1, <4>2, <1>3
        <4> QED BY <4>1, <4>3
      <3> QED BY <3>4, <3>5
    <2> QED BY <2>4, <2>5
  <1> QED BY <1>6, <1>7, <1>8, <1>9 DEF Chains

\* The steps that leave the hooks and the fields alone.
LEMMA OtherSteps ==
    ASSUME TypeOK, Chains,
           (\E o \in Objects : New(o)) \/ EndScript \/ FatalError \/ Release \/ UNCHANGED vars
    PROVE  Chains'
  <1>1. /\ slot' = slot /\ first' = first /\ hooks' = hooks /\ gone' = gone
        /\ disorder' = disorder
    BY DEF New, EndScript, FatalError, Release, vars
  <1>2. phase' = "script" => phase = "script"
    BY DEF New, EndScript, FatalError, Release, vars
  <1>3. (phase' = "released" /\ ~fatal') => DOMAIN hooks \subseteq gone
    <2>1. CASE \E o \in Objects : New(o)
      BY <2>1 DEF New
    <2>2. CASE EndScript
      BY <2>2 DEF EndScript
    <2>3. CASE FatalError
      BY <2>3 DEF FatalError
    <2>4. CASE Release
      BY <2>4 DEF Release
    <2>5. CASE UNCHANGED vars
      BY <2>5 DEF vars, Chains, GoneInOrder
    <2> QED BY <2>1, <2>2, <2>3, <2>4, <2>5
  <1>4. SlotHooks' /\ Linked'
    BY <1>1 DEF Chains, SlotHooks, Linked
  <1>5. NewestInSlot'
    <2> SUFFICES ASSUME ~disorder, NEW p \in Places,
                        \/ phase' = "script"
                        \/ first[p] # Null
                        \/ \A k \in DOMAIN hooks : hooks[k].place # p
                 PROVE  IF Live(p) = {} THEN slot[p] = first[p]
                        ELSE slot[p] \in Live(p) /\ \A k \in Live(p) : k <= slot[p]
      BY <1>1 DEF NewestInSlot, Live
    <2> QED BY <1>2 DEF Chains, NewestInSlot
  <1>6. GoneInOrder'
    BY <1>1, <1>2, <1>3 DEF Chains, GoneInOrder, Newer
  <1> QED BY <1>4, <1>5, <1>6 DEF Chains

LEMMA ChainsInit == ASSUME Init PROVE Chains
  <1>1. DOMAIN hooks = {}
    BY DEF Init
  <1>2. \A p \in Places : slot[p] \in {Null, Native}
    BY DEF Init
  <1>3. SlotHooks
    BY <1>2, NullAssumption DEF SlotHooks, Ids
  <1>4. Linked
    BY <1>1 DEF Linked
  <1>5. NewestInSlot
    BY <1>1 DEF Init, NewestInSlot, Live
  <1>6. GoneInOrder
    BY <1>1 DEF Init, GoneInOrder
  <1> QED BY <1>3, <1>4, <1>5, <1>6 DEF Chains

LEMMA ChainsStep == ASSUME TypeOK, TypeOK', Chains, [Next]_vars PROVE Chains'
  <1>1. CASE Installs
    BY <1>1, InstallStep
  <1>2. CASE \E h \in Ids : Destruct(h)
    BY <1>2, DestructStep
  <1>3. CASE \/ \E o \in Objects : New(o)
             \/ EndScript \/ FatalError \/ Release \/ UNCHANGED vars
    BY <1>3, OtherSteps
  <1> QED BY <1>1, <1>2, <1>3, NextCases

THEOREM ChainsInvariant == Spec => [](TypeOK /\ Chains)
  <1>1. Init => TypeOK /\ Chains
    BY TypeInit, ChainsInit
  <1>2. TypeOK /\ Chains /\ [Next]_vars => (TypeOK /\ Chains)'
    BY TypeStep, ChainsStep
  <1> QED BY <1>1, <1>2, PTL DEF Spec

\* A call that proceeds from hook to hook comes to an end: every original
\* is an older hook of the same field.
THEOREM CallsEnd == Spec => []ChainsEnd
  <1>1. TypeOK /\ Chains => ChainsEnd
    <2> SUFFICES ASSUME TypeOK, Chains, NEW h \in DOMAIN hooks, hooks[h].original \in DOMAIN hooks
                 PROVE  hooks[h].original < h /\ hooks[hooks[h].original].place = hooks[h].place
      BY DEF ChainsEnd, IsHook
    <2>1. hooks[h].original \in Ids
      BY HookTypes
    <2> QED BY <2>1 DEF Chains, Linked
  <1> QED BY <1>1, ChainsInvariant, PTL

\* Hooks that are destructed newest first, in fields that had a handler,
\* leave every field as they found it.
THEOREM Restored == Spec => []AllRestored
  <1>1. TypeOK /\ Chains => AllRestored
    <2> SUFFICES ASSUME TypeOK, Chains, phase = "released", Restorable
                 PROVE  slot = first
      BY DEF AllRestored
    <2>1. ~disorder /\ DOMAIN hooks \subseteq gone
      BY DEF Restorable, Chains, GoneInOrder
    <2>2. ASSUME NEW p \in Places PROVE slot[p] = first[p]
      <3>1. Live(p) = {}
        BY <2>1 DEF Live
      <3>2. first[p] # Null \/ \A k \in DOMAIN hooks : hooks[k].place # p
        BY DEF Restorable
      <3> QED BY <2>1, <3>1, <3>2 DEF Chains, NewestInSlot
    <2> QED BY <2>2 DEF TypeOK
  <1> QED BY <1>1, ChainsInvariant, PTL

-----------------------------------------------------------------------------
(* The handlers of a class's objects.                                      *)

LEMMA Smallest ==
    ASSUME NEW T \in SUBSET Nat, T # {}
    PROVE  \E m \in T : \A n \in T : m <= n
  <1>1. PICK m \in T : \A n \in T : ~ (<<n, m>> \in OpToRel(<, Nat))
    BY NatLessThanWellFounded, WFMin
  <1>2. m \in Nat /\ \A n \in T : n \in Nat /\ ~ (n < m)
    BY <1>1 DEF OpToRel
  <1>3. \A n \in T : m <= n
    BY <1>2
  <1> QED BY <1>3

\* A use of a field calls every hook that was installed in it.
LEMMA AllCalled ==
    ASSUME TypeOK, Chains, phase = "script", NEW h \in DOMAIN hooks
    PROVE  h \in Called(slot[hooks[h].place])
  <1> DEFINE p == hooks[h].place
             top == slot[p]
  <1>1. p \in Places /\ h \in Nat /\ DOMAIN hooks \subseteq Nat
    BY HookTypes
  <1>2. /\ top \in DOMAIN hooks /\ hooks[top].place = p
        /\ h <= top
    BY <1>1, ScriptSlots
  <1>3. ASSUME NEW S \in SUBSET DOMAIN hooks, top \in S, Continued(S)
        PROVE  h \in S
    <2> SUFFICES ASSUME h \notin S PROVE FALSE
      OBVIOUS
    <2> DEFINE above == {k \in S : hooks[k].place = p /\ h < k}
    <2>1. top \in above
      BY <1>1, <1>2, <1>3
    <2>2. PICK k \in above : \A j \in above : k <= j
      BY <1>1, <2>1, Smallest
    <2> DEFINE o == hooks[k].original
    <2>3. k \in S /\ k \in DOMAIN hooks /\ k \in Nat /\ hooks[k].place = p /\ h < k
      BY <1>1, <2>2
    <2>4. o \in Ids /\ h <= o /\ o < k /\ hooks[o].place = p
      BY <2>3 DEF Chains, Linked
    <2>5. o \in DOMAIN hooks
      BY <2>3, <2>4, HookTypes DEF Ids
    <2>6. o \in S
      BY <1>3, <2>3, <2>5 DEF Continued, IsHook
    <2>7. o \in above
      BY <1>1, <2>4, <2>5, <2>6
    <2> QED BY <1>1, <2>2, <2>3, <2>4, <2>5, <2>7
  <1> QED BY <1>2, <1>3 DEF Called, IsHook

\* What the proof of HandlersApply rests on: create_object of a class is only
\* hooked by the class; as long as the class was hooked in order, its handlers
\* are in its present table, and the objects from its hook have that table.
Tables ==
    /\ \A h \in DOMAIN hooks, c \in Classes :
          hooks[h].place = Create(c) => hooks[h].class = c
    /\ \A h \in DOMAIN hooks, c \in Classes, f \in Fields :
          (CreatedFirst(c) /\ hooks[h].class = c /\ hooks[h].place.field = f)
              => hooks[h].place = In(f, object_handlers[c])
    /\ \A o \in Objects : (objects[o] > 0 /\ CreatedFirst(ClassOf[o])) =>
          /\ objects[o] = object_handlers[ClassOf[o]]
          /\ \E h \in DOMAIN hooks : hooks[h].place = Create(ClassOf[o])

\* What the methods of a class entry install.
Attaches(c) ==
    /\ \A h \in Newest .. Len(hooks') :
          /\ hooks'[h].class = c
          /\ \/ hooks'[h].place \in {Create(c), Gets(c)}
             \/ \E f \in Fields : hooks'[h].place = In(f, object_handlers'[c])
    /\ \A d \in Classes \ {c} : object_handlers'[d] = object_handlers[d]
    /\ \/ object_handlers'[c] = object_handlers[c]
       \/ object_handlers[c] = 0
       \/ Newest <= Len(hooks') /\ hooks'[Newest].place = Create(c)

LEMMA InstallAttaches ==
    ASSUME TypeOK, NEW p \in Places, NEW c \in Classes \cup {Null}, Install(p, c)
    PROVE  /\ Newest .. Len(hooks') = {Newest} /\ Newest <= Len(hooks')
           /\ hooks'[Newest].place = p /\ hooks'[Newest].class = c
  <1> DEFINE new == [place |-> p, class |-> c, original |-> slot[p]]
  <1>1. new \in Hook
    BY DEF TypeOK, Hook
  <1>2. hooks \in Seq(Hook) /\ hooks' = Append(hooks, new)
    BY DEF TypeOK, Install, Captured
  <1>3. new.place = p /\ new.class = c
    OBVIOUS
  <1> HIDE DEF new
  <1>4. /\ Len(hooks') = Len(hooks) + 1 /\ Len(hooks) \in Nat
        /\ hooks'[Len(hooks) + 1] = new
    BY <1>1, <1>2
  <1> QED BY <1>3, <1>4 DEF Newest

LEMMA HandlersAttach ==
    ASSUME TypeOK, NEW c \in Classes, NEW F \in Choices, InstallHandlers(c, F)
    PROVE  Attaches(c)
  <1> DEFINE place(k) == IF k = Newest THEN Create(c) ELSE In(F[k - Newest], tables + 1)
             added == [k \in 1 .. Len(F) + 1 |->
                          [place |-> place(Len(hooks) + k), class |-> c,
                           original |-> slot[place(Len(hooks) + k)]]]
  <1>1. /\ Len(hooks) \in Nat /\ DOMAIN hooks = 1 .. Len(hooks)
        /\ Len(F) \in Nat /\ DOMAIN F = 1 .. Len(F) /\ F \in Seq(Fields)
    BY LenHooks, ChoiceIsSequence
  <1>2. hooks' = hooks \o added
    BY DEF InstallHandlers, Captured
  <1>3. \A k \in 1 .. Len(F) + 1 : added[k].place = place(Len(hooks) + k) /\ added[k].class = c
    OBVIOUS
  <1>4. Len(added) = Len(F) + 1 /\ added \in Seq({added[k] : k \in 1 .. Len(F) + 1})
    <2>1. added \in [1 .. Len(F) + 1 -> {added[k] : k \in 1 .. Len(F) + 1}]
      OBVIOUS
    <2> HIDE DEF added
    <2> QED BY <1>1, <2>1, FunctionIsSequence
  <1> HIDE DEF place, added
  <1>5. /\ Len(hooks') = Len(hooks) + Len(F) + 1
        /\ \A k \in 1 .. Len(F) + 1 : hooks'[Len(hooks) + k] = added[k]
    <2>1. hooks \in Seq(Hook \cup {added[k] : k \in 1 .. Len(F) + 1})
      BY DEF TypeOK
    <2>2. added \in Seq(Hook \cup {added[k] : k \in 1 .. Len(F) + 1})
      BY <1>4
    <2>3. /\ Len(hooks') = Len(hooks) + Len(added)
          /\ \A i \in 1 .. Len(hooks) + Len(added) :
                hooks'[i] = IF i <= Len(hooks) THEN hooks[i] ELSE added[i - Len(hooks)]
      BY <1>2, <2>1, <2>2, ConcatProperties
    <2>4. \A k \in 1 .. Len(F) + 1 : hooks'[Len(hooks) + k] = added[k]
      <3> TAKE k \in 1 .. Len(F) + 1
      <3>1. /\ Len(hooks) + k \in 1 .. Len(hooks) + Len(added)
            /\ ~(Len(hooks) + k <= Len(hooks)) /\ (Len(hooks) + k) - Len(hooks) = k
        BY <1>1, <1>4
      <3> QED BY <2>3, <3>1
    <2> QED BY <1>1, <1>4, <2>3, <2>4
  <1>6. /\ object_handlers'[c] = tables + 1
        /\ \A d \in Classes \ {c} : object_handlers'[d] = object_handlers[d]
    BY DEF InstallHandlers, Allocated, TypeOK
  <1>7. \A h \in Newest .. Len(hooks') : hooks'[h].place = place(h) /\ hooks'[h].class = c
    <2> TAKE h \in Newest .. Len(hooks')
    <2>1. h - Len(hooks) \in 1 .. Len(F) + 1 /\ Len(hooks) + (h - Len(hooks)) = h
      BY <1>1, <1>5 DEF Newest
    <2> QED BY <1>3, <1>5, <2>1
  <1>8. Newest \in Newest .. Len(hooks') /\ place(Newest) = Create(c)
    BY <1>1, <1>5 DEF Newest, place
  <1>9. \A h \in Newest .. Len(hooks') :
           place(h) = Create(c) \/ \E f \in Fields : place(h) = In(f, tables + 1)
    <2> SUFFICES ASSUME NEW h \in Newest .. Len(hooks'), h # Newest
                 PROVE  \E f \in Fields : place(h) = In(f, tables + 1)
      BY DEF place
    <2>1. h - Newest \in DOMAIN F
      BY <1>1, <1>5 DEF Newest
    <2>2. F[h - Newest] \in Fields
      BY <1>1, <2>1
    <2> QED BY <2>2 DEF place
  <1> QED BY <1>6, <1>7, <1>8, <1>9 DEF Attaches

LEMMA InstallsAttach ==
    ASSUME TypeOK, Installs
    PROVE  \/ \E c \in Classes : Attaches(c)
           \/ /\ \A h \in Newest .. Len(hooks') : hooks'[h].place = Ast /\ hooks'[h].class = Null
              /\ object_handlers' = object_handlers
  <1>1. ASSUME NEW c \in Classes, CreateObject(c) PROVE Attaches(c)
    <2>1. /\ Newest .. Len(hooks') = {Newest} /\ Newest <= Len(hooks')
          /\ hooks'[Newest].place = Create(c) /\ hooks'[Newest].class = c
      BY <1>1, InstallAttaches, EntriesArePlaces DEF CreateObject
    <2>2. \A d \in Classes \ {c} : object_handlers'[d] = object_handlers[d]
      BY <1>1 DEF CreateObject, Allocated, TypeOK
    <2> QED BY <2>1, <2>2 DEF Attaches
  <1>2. ASSUME NEW c \in Classes, NEW f \in Fields, InstallHandler(c, f) PROVE Attaches(c)
    <2>1. object_handlers'[c] \in 1 .. MaxTables
      BY <1>2, ClassTypes DEF InstallHandler
    <2>2. /\ Newest .. Len(hooks') = {Newest}
          /\ hooks'[Newest].place = In(f, object_handlers'[c]) /\ hooks'[Newest].class = c
      BY <1>2, <2>1, InstallAttaches, EntriesArePlaces DEF InstallHandler
    <2>3. /\ \A d \in Classes \ {c} : object_handlers'[d] = object_handlers[d]
          /\ object_handlers'[c] = object_handlers[c] \/ object_handlers[c] = 0
      BY <1>2 DEF InstallHandler, ObjectHandlers, Allocated, TypeOK
    <2> QED BY <2>2, <2>3 DEF Attaches
  <1>3. ASSUME NEW c \in Classes, NEW F \in Choices, InstallHandlers(c, F) PROVE Attaches(c)
    BY <1>3, HandlersAttach
  <1>4. ASSUME NEW c \in Classes, InterfaceGetsImplemented(c) PROVE Attaches(c)
    <2>1. /\ Newest .. Len(hooks') = {Newest}
          /\ hooks'[Newest].place = Gets(c) /\ hooks'[Newest].class = c
      BY <1>4, InstallAttaches, EntriesArePlaces DEF InterfaceGetsImplemented
    <2> QED BY <1>4, <2>1 DEF Attaches, InterfaceGetsImplemented
  <1>5. ASSUME ZendAstProcess
        PROVE  /\ \A h \in Newest .. Len(hooks') : hooks'[h].place = Ast /\ hooks'[h].class = Null
               /\ object_handlers' = object_handlers
    <2>1. /\ Newest .. Len(hooks') = {Newest}
          /\ hooks'[Newest].place = Ast /\ hooks'[Newest].class = Null
      BY <1>5, InstallAttaches, EntriesArePlaces DEF ZendAstProcess
    <2> QED BY <1>5, <2>1 DEF ZendAstProcess
  <1> QED BY <1>1, <1>2, <1>3, <1>4, <1>5 DEF Installs

\* Hooks are only added: a class hooked in order was so before.
LEMMA StaysFirst ==
    ASSUME Grows, DOMAIN hooks \subseteq DOMAIN hooks', NEW c, CreatedFirst(c)'
    PROVE  CreatedFirst(c)
  BY DEF Grows, CreatedFirst

LEMMA FieldsDiffer ==
    /\ \A c, d \in Classes : /\ Create(c) # Gets(d) /\ Create(c) # Ast
                             /\ Create(c) = Create(d) => c = d
                             /\ Create(c).field \notin Fields /\ Gets(c).field \notin Fields
    /\ Ast.field \notin Fields
    /\ \A f \in Fields : \A t : In(f, t).field = f /\ \A c : In(f, t) # Create(c)
  <1>1. /\ "create_object" \notin Fields /\ "interface_gets_implemented" \notin Fields
        /\ "zend_ast_process" \notin Fields
    BY FieldAssumption
  <1>2. \A f \in Fields : \A t, c : In(f, t) # Create(c)
    <2> SUFFICES ASSUME NEW f \in Fields, NEW t, NEW c, In(f, t) = Create(c) PROVE FALSE
      OBVIOUS
    <2>1. In(f, t).field = f /\ Create(c).field = "create_object"
      BY DEF In, Create
    <2> QED BY <1>1, <2>1
  <1>3. \A f \in Fields : \A t : In(f, t).field = f
    BY DEF In
  <1>4. \A c, d \in Classes : /\ Create(c) # Gets(d) /\ Create(c) # Ast
                              /\ Create(c) = Create(d) => c = d
    <2> TAKE c, d \in Classes
    <2>1. Create(c).field = "create_object" /\ Create(c).of = c /\ Create(d).of = d
      BY DEF Create
    <2>2. Gets(d).field = "interface_gets_implemented" /\ Ast.field = "zend_ast_process"
      BY DEF Gets, Ast
    <2> QED BY <2>1, <2>2
  <1>5. \A c \in Classes : Create(c).field \notin Fields /\ Gets(c).field \notin Fields
    BY <1>1 DEF Create, Gets
  <1>6. Ast.field \notin Fields
    BY <1>1 DEF Ast
  <1> QED BY <1>2, <1>3, <1>4, <1>5, <1>6

\* A class whose hooks are in order has no hook of create_object behind others.
LEMMA LateCreate ==
    ASSUME NEW c, NEW h \in DOMAIN hooks, NEW k \in DOMAIN hooks, h < k, h \in Nat, k \in Nat,
           hooks[h].class = c, hooks[k].class = c, hooks[k].place = Create(c)
    PROVE  ~CreatedFirst(c)
  BY DEF CreatedFirst

LEMMA TablesInstall ==
    ASSUME TypeOK, TypeOK', Tables, Installs PROVE Tables'
  <1>1. Grows /\ UNCHANGED objects
    BY InstallsGrow
  <1>2. /\ DOMAIN hooks = 1 .. Len(hooks) /\ DOMAIN hooks' = 1 .. Len(hooks')
        /\ Len(hooks) \in Nat /\ Len(hooks') \in Nat /\ Len(hooks) <= Len(hooks')
    <2>1. DOMAIN hooks' = 1 .. Len(hooks') /\ Len(hooks') \in Nat
      BY <1>1 DEF Grows
    <2> QED BY <1>1, <2>1, HookTypes DEF Grows
  <1>3. /\ DOMAIN hooks \subseteq DOMAIN hooks'
        /\ \A h \in DOMAIN hooks : h \in Nat /\ h < Newest /\ hooks'[h] = hooks[h]
        /\ \A h \in DOMAIN hooks' : h \in Nat
        /\ \A h \in DOMAIN hooks' \ DOMAIN hooks : h \in Newest .. Len(hooks')
        /\ Newest \in Nat
        /\ Newest <= Len(hooks') => Newest \in DOMAIN hooks'
    BY <1>1, <1>2 DEF Grows, Newest
  <1>4. \A c : CreatedFirst(c)' => CreatedFirst(c)
    BY <1>1, <1>3, StaysFirst
  <1>5. CASE \E c \in Classes : Attaches(c)
    <2> PICK c \in Classes : Attaches(c)
      BY <1>5
    <2>1. /\ \A h \in Newest .. Len(hooks') :
                /\ hooks'[h].class = c
                /\ \/ hooks'[h].place \in {Create(c), Gets(c)}
                   \/ \E f \in Fields : hooks'[h].place = In(f, object_handlers'[c])
          /\ \A d \in Classes \ {c} : object_handlers'[d] = object_handlers[d]
          /\ \/ object_handlers'[c] = object_handlers[c]
             \/ object_handlers[c] = 0
             \/ Newest <= Len(hooks') /\ hooks'[Newest].place = Create(c)
      BY DEF Attaches
    <2>2. ASSUME Newest <= Len(hooks'), hooks'[Newest].place = Create(c), CreatedFirst(c)'
          PROVE  \A h \in DOMAIN hooks : hooks[h].class # c
      <3> SUFFICES ASSUME NEW h \in DOMAIN hooks, hooks[h].class = c PROVE FALSE
        OBVIOUS
      <3>1. hooks'[h].class = c /\ h \in DOMAIN hooks' /\ h < Newest /\ h \in Nat
        BY <1>3
      <3>2. Newest \in DOMAIN hooks' /\ hooks'[Newest].class = c
        BY <2>1, <2>2, <1>3
      <3> QED BY <2>2, <3>1, <3>2, <1>3 DEF CreatedFirst
    <2>3. ASSUME NEW h \in DOMAIN hooks', NEW d \in Classes, hooks'[h].place = Create(d)
          PROVE  hooks'[h].class = d
      <3>1. CASE h \in DOMAIN hooks
        BY <3>1, <2>3, <1>3 DEF Tables
      <3>2. CASE h \in Newest .. Len(hooks')
        BY <3>2, <2>1, <2>3, FieldsDiffer
      <3> QED BY <3>1, <3>2, <1>3
    <2>4. ASSUME NEW h \in DOMAIN hooks', NEW d \in Classes, NEW f \in Fields,
                 CreatedFirst(d)', hooks'[h].class = d, hooks'[h].place.field = f
          PROVE  hooks'[h].place = In(f, object_handlers'[d])
      <3>1. CASE h \in DOMAIN hooks
        <4>1. hooks[h].place = In(f, object_handlers[d]) /\ hooks[h].class = d
          BY <3>1, <2>4, <1>3, <1>4 DEF Tables
        <4>2. CASE d # c
          BY <4>1, <4>2, <3>1, <1>3, <2>1
        <4>3. CASE d = c
          <5>1. object_handlers[d] # 0
            <6>1. In(f, object_handlers[d]) \in Places
              BY <3>1, <4>1, HookTypes
            <6>2. PICK g \in Fields, t \in 1 .. MaxTables : In(f, object_handlers[d]) = In(g, t)
              BY <6>1, FieldsDiffer DEF Places, Entries
            <6>3. object_handlers[d] = t
              BY <6>2 DEF In
            <6> QED BY <6>3
          <5>2. object_handlers'[c] = object_handlers[c]
            BY <2>1, <2>2, <2>4, <3>1, <4>1, <4>3, <5>1
          <5> QED BY <4>1, <4>3, <5>2, <3>1, <1>3
        <4> QED BY <4>2, <4>3
      <3>2. CASE h \in Newest .. Len(hooks')
        <4>1. d = c
          BY <3>2, <2>1, <2>4
        <4>2. hooks'[h].place \notin {Create(c), Gets(c)}
          BY <2>4, FieldsDiffer
        <4>3. PICK g \in Fields : hooks'[h].place = In(g, object_handlers'[c])
          BY <3>2, <4>2, <2>1
        <4>4. g = f
          BY <4>3, <2>4, FieldsDiffer
        <4> QED BY <4>1, <4>3, <4>4
      <3> QED BY <3>1, <3>2, <1>3
    <2>5. ASSUME NEW o \in Objects, objects'[o] > 0, CreatedFirst(ClassOf[o])'
          PROVE  /\ objects'[o] = object_handlers'[ClassOf[o]]
                 /\ \E h \in DOMAIN hooks' : hooks'[h].place = Create(ClassOf[o])
      <3> DEFINE d == ClassOf[o]
      <3>1. d \in Classes
        BY ObjectAssumption
      <3>2. CreatedFirst(d) /\ objects[o] > 0
        BY <2>5, <1>1, <1>4
      <3>3. /\ objects[o] = object_handlers[d]
            /\ \E h \in DOMAIN hooks : hooks[h].place = Create(d)
        BY <3>2 DEF Tables
      <3>4. PICK h \in DOMAIN hooks : hooks[h].place = Create(d)
        BY <3>3
      <3>5. hooks[h].class = d
        BY <3>1, <3>4 DEF Tables
      <3>6. object_handlers'[d] = object_handlers[d]
        <4>1. CASE d # c
          BY <4>1, <3>1, <2>1
        <4>2. CASE d = c
          <5>1. object_handlers[d] # 0
            BY <3>2, <3>3
          <5> QED BY <4>2, <5>1, <2>1, <2>2, <2>5, <3>5
        <4> QED BY <4>1, <4>2
      <3>7. h \in DOMAIN hooks' /\ hooks'[h].place = Create(d)
        BY <1>3, <3>4
      <3> QED BY <3>3, <3>6, <3>7, <1>1
    <2> QED BY <2>3, <2>4, <2>5 DEF Tables
  <1>6. CASE /\ \A h \in Newest .. Len(hooks') : hooks'[h].place = Ast /\ hooks'[h].class = Null
             /\ object_handlers' = object_handlers
    <2>1. \A h \in DOMAIN hooks', c \in Classes :
             hooks'[h].place = Create(c) => hooks'[h].class = c
      BY <1>3, <1>6, FieldsDiffer DEF Tables
    <2>2. \A h \in DOMAIN hooks', c \in Classes, f \in Fields :
             (CreatedFirst(c)' /\ hooks'[h].class = c /\ hooks'[h].place.field = f)
                 => hooks'[h].place = In(f, object_handlers[c])
      BY <1>3, <1>4, <1>6, FieldsDiffer DEF Tables
    <2>3. \A o \in Objects : (objects[o] > 0 /\ CreatedFirst(ClassOf[o])') =>
             /\ objects[o] = object_handlers[ClassOf[o]]
             /\ \E h \in DOMAIN hooks' : hooks'[h].place = Create(ClassOf[o])
      <3> SUFFICES ASSUME NEW o \in Objects, objects[o] > 0, CreatedFirst(ClassOf[o])'
                   PROVE  /\ objects[o] = object_handlers[ClassOf[o]]
                          /\ \E h \in DOMAIN hooks' : hooks'[h].place = Create(ClassOf[o])
        OBVIOUS
      <3>1. /\ objects[o] = object_handlers[ClassOf[o]]
            /\ \E h \in DOMAIN hooks : hooks[h].place = Create(ClassOf[o])
        BY <1>4 DEF Tables
      <3> QED BY <3>1, <1>3
    <2> QED BY <2>1, <2>2, <2>3, <1>1, <1>6 DEF Tables
  <1> QED BY <1>5, <1>6, InstallsAttach

\* newInstance() gives an object the table that its class has or gets now.
LEMMA TablesNew ==
    ASSUME TypeOK, Chains, Tables, NEW o \in Objects, New(o) PROVE Tables'
  <1> DEFINE c == ClassOf[o]
  <1>1. /\ c \in Classes /\ phase = "script" /\ hooks' = hooks
        /\ \A d : CreatedFirst(d)' <=> CreatedFirst(d)
    BY ObjectAssumption DEF New, CreatedFirst
  <1>2. CASE objects' = [objects EXCEPT ![o] = 0] /\ object_handlers' = object_handlers
    BY <1>1, <1>2 DEF Tables, TypeOK
  <1>3. CASE /\ IsHook(slot[Create(c)]) /\ ObjectHandlers(c)
             /\ objects' = [objects EXCEPT ![o] = object_handlers'[c]]
    <2>1. slot[Create(c)] \in DOMAIN hooks /\ hooks[slot[Create(c)]].place = Create(c)
      <3>1. Create(c) \in Places /\ slot[Create(c)] \in DOMAIN hooks
        BY <1>1, <1>3, EntriesArePlaces DEF IsHook
      <3>2. slot[Create(c)] \in Ids
        BY <3>1, HookTypes
      <3> QED BY <3>1, <3>2 DEF Chains, SlotHooks
    <2>2. \A d \in Classes : object_handlers[d] # 0 => object_handlers'[d] = object_handlers[d]
      BY <1>1, <1>3 DEF ObjectHandlers, Allocated, TypeOK
    <2>3. ASSUME NEW h \in DOMAIN hooks, NEW d \in Classes, NEW f \in Fields,
                 CreatedFirst(d), hooks[h].class = d, hooks[h].place.field = f
          PROVE  hooks[h].place = In(f, object_handlers'[d])
      <3>1. hooks[h].place = In(f, object_handlers[d]) /\ hooks[h].place \in Places
        BY <2>3, HookTypes DEF Tables
      <3>2. PICK g \in Fields, t \in 1 .. MaxTables : In(f, object_handlers[d]) = In(g, t)
        BY <3>1, FieldsDiffer DEF Places, Entries
      <3>3. object_handlers[d] = t
        BY <3>2 DEF In
      <3> QED BY <3>1, <3>3, <2>2
    <2>4. ASSUME NEW b \in Objects, objects'[b] > 0, CreatedFirst(ClassOf[b])
          PROVE  /\ objects'[b] = object_handlers'[ClassOf[b]]
                 /\ \E h \in DOMAIN hooks : hooks[h].place = Create(ClassOf[b])
      <3>1. CASE b = o
        <4>1. objects'[o] = object_handlers'[c]
          BY <1>3 DEF TypeOK
        <4> QED BY <3>1, <4>1, <2>1
      <3>2. CASE b # o
        <4>1. objects'[b] = objects[b] /\ ClassOf[b] \in Classes
          BY <3>2, <1>3, ObjectAssumption DEF TypeOK
        <4>2. /\ objects[b] = object_handlers[ClassOf[b]]
              /\ \E h \in DOMAIN hooks : hooks[h].place = Create(ClassOf[b])
          BY <2>4, <4>1 DEF Tables
        <4>3. object_handlers[ClassOf[b]] # 0
          BY <2>4, <4>1, <4>2
        <4> QED BY <2>2, <4>1, <4>2, <4>3
      <3> QED BY <3>1, <3>2
    <2> QED BY <1>1, <2>3, <2>4 DEF Tables
  <1> QED BY <1>2, <1>3 DEF New

LEMMA TablesStep ==
    ASSUME TypeOK, TypeOK', Chains, Tables, [Next]_vars PROVE Tables'
  <1>1. CASE Installs
    BY <1>1, TablesInstall
  <1>2. CASE \E o \in Objects : New(o)
    BY <1>2, TablesNew
  <1>3. CASE (\E h \in Ids : Destruct(h)) \/ EndScript \/ FatalError \/ Release \/ UNCHANGED vars
    <2>1. UNCHANGED <<hooks, object_handlers, objects>>
      BY <1>3 DEF Destruct, EndScript, FatalError, Release, vars
    <2> QED BY <2>1 DEF Tables, CreatedFirst
  <1> QED BY <1>1, <1>2, <1>3, NextCases

\* The objects of a class that was hooked in the order of install_handlers()
\* have every handler of the class, those installed after them included.
THEOREM HandlersReach == Spec => []HandlersApply
  <1>1. Init => Tables
    <2> SUFFICES ASSUME Init PROVE Tables
      OBVIOUS
    <2>1. DOMAIN hooks = {} /\ \A o \in Objects : ~(objects[o] > 0)
      BY DEF Init
    <2> QED BY <2>1 DEF Tables
  <1>2. TypeOK /\ Chains /\ Tables /\ TypeOK' /\ [Next]_vars => Tables'
    BY TablesStep
  <1>3. TypeOK /\ Chains /\ Tables => HandlersApply
    <2> SUFFICES ASSUME TypeOK, Chains, Tables, phase = "script",
                        NEW o \in Objects, objects[o] > 0, CreatedFirst(ClassOf[o]),
                        NEW h \in DOMAIN hooks, hooks[h].class = ClassOf[o],
                        hooks[h].place.field \in Fields
                 PROVE  h \in Called(slot[In(hooks[h].place.field, objects[o])])
      BY DEF HandlersApply
    <2>1. hooks[h].place = In(hooks[h].place.field, objects[o])
      BY ObjectAssumption DEF Tables
    <2> QED BY <2>1, AllCalled
  <1> QED BY <1>1, <1>2, <1>3, ChainsInvariant, PTL DEF Spec
=============================================================================
