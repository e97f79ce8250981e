----------------------- MODULE ResourceRegistryProofs -----------------------
(***************************************************************************)
(* Theorems about ResourceRegistry: it is well typed, a valid number       *)
(* always leads to an object that knows it, and in programs of SafeUse     *)
(* both tables agree on every pair.                                        *)
(***************************************************************************)
EXTENDS ResourceRegistry, FiniteSetTheorems, TLAPS

LEMMA NewHandleTyped ==
    ASSUME TypeOK, created < MaxHandles PROVE NewHandle \in Handles
  BY HandleAssumption DEF TypeOK, NewHandle, Handles

LEMMA HandleTypes ==
    ASSUME TypeOK
    PROVE  /\ Handles \subseteq Nat /\ Fds \subseteq Nat /\ Keys \subseteq Nat
           /\ NewHandle \in Nat
           /\ None \notin Nat /\ None \notin Fds /\ None \notin Handles /\ None \notin Objs
  <1>1. created \in Nat
    BY HandleAssumption DEF TypeOK
  <1>2. Handles \subseteq Nat /\ NewHandle \in Nat
    BY <1>1, HandleAssumption DEF Handles, NewHandle
  <1>3. Objs \subseteq Nat
    BY HandleAssumption DEF Objs
  <1> QED BY <1>2, <1>3, FdAssumption, NoneAssumption DEF Keys

\* Streams are only closed.
LEMMA FreeStreamsCloses ==
    ASSUME TypeOK, NEW before \in [Handles -> Fds \cup {None}], FreeStreams(before)
    PROVE  /\ stream' \in [Handles -> Fds \cup {None}]
           /\ busy' \subseteq busy
           /\ twice' \in BOOLEAN
           /\ \A h \in Handles : stream'[h] = None \/ stream'[h] = before[h]
  BY DEF FreeStreams, TypeOK

LEMMA AddFdPairTyped ==
    ASSUME TypeOK, NEW p \in Pair, NEW q \in Pair, NEW owner \in Handles \cup {None},
           AddFdPair(p, q, owner)
    PROVE  /\ made' \in 0 .. MaxObjects /\ NewObject \in Objs
           /\ fd' \in [Objs -> [Keys -> Pair \cup {None}]]
           /\ file' \in [Objs -> Fds \cup {None}]
           /\ owns' \in [Objs -> Handles \cup {None}]
           /\ instances' \in [Keys -> Objs \cup {None}]
  <1>1. /\ made' = NewObject /\ made < MaxObjects
        /\ fd' = [fd EXCEPT ![NewObject] = Table(p, q)]
        /\ file' = [file EXCEPT ![NewObject] = p.fd]
        /\ owns' = [owns EXCEPT ![NewObject] = owner]
        /\ instances' = [k \in Keys |-> IF k \in Ends(p) \cup Ends(q) THEN NewObject
                                        ELSE instances[k]]
    BY DEF AddFdPair
  <1>2. NewObject \in Objs /\ NewObject \in 0 .. MaxObjects
    BY <1>1, HandleAssumption DEF TypeOK, Objs, NewObject
  <1>3. Table(p, q) \in [Keys -> Pair \cup {None}]
    BY DEF Table
  <1>4. p.fd \in Fds
    BY DEF Pair
  <1> QED BY <1>1, <1>2, <1>3, <1>4 DEF TypeOK

LEMMA RegisterTyped ==
    ASSUME TypeOK, NEW f \in Fds, NEW owner \in Handles \cup {None}, Register(f, owner)
    PROVE  /\ TypeOK' <=> (plain' \subseteq Handles /\ tidy' \in BOOLEAN)
           /\ NewHandle \in Handles
           /\ [fd |-> f, res |-> NewHandle] \in Pair
           /\ [stream EXCEPT ![NewHandle] = f] \in [Handles -> Fds \cup {None}]
  <1> DEFINE p == [fd |-> f, res |-> NewHandle]
             before == [stream EXCEPT ![NewHandle] = f]
  <1>1. /\ created < MaxHandles /\ created' = created + 1
        /\ AddFdPair(p, p, owner) /\ FreeStreams(before)
        /\ lost' = lost /\ over' = over /\ used' = used
    BY DEF Register
  <1>2. NewHandle \in Handles
    BY <1>1, NewHandleTyped
  <1>3. p \in Pair
    BY <1>2 DEF Pair
  <1>4. before \in [Handles -> Fds \cup {None}]
    BY <1>2 DEF TypeOK
  <1>5. created' \in 0 .. MaxHandles
    BY <1>1, HandleAssumption DEF TypeOK
  <1> HIDE DEF p, before
  <1>6. /\ stream' \in [Handles -> Fds \cup {None}] /\ busy' \subseteq busy /\ twice' \in BOOLEAN
    BY <1>1, <1>4, FreeStreamsCloses
  <1>7. /\ made' \in 0 .. MaxObjects
        /\ fd' \in [Objs -> [Keys -> Pair \cup {None}]]
        /\ file' \in [Objs -> Fds \cup {None}]
        /\ owns' \in [Objs -> Handles \cup {None}]
        /\ instances' \in [Keys -> Objs \cup {None}]
    BY <1>1, <1>3, AddFdPairTyped
  <1>8. TypeOK' <=> (plain' \subseteq Handles /\ tidy' \in BOOLEAN)
    BY <1>1, <1>5, <1>6, <1>7 DEF TypeOK
  <1> QED BY <1>2, <1>3, <1>4, <1>8 DEF p, before

LEMMA RemoveFdPair ==
    ASSUME TypeOK, NEW k \in Keys, RemoveFd(k)
    PROVE  /\ instances[k] \in Objs /\ GetPair(k) \in Pair
           /\ Ends(GetPair(k)) \subseteq Keys
           /\ fd' = [fd EXCEPT ![instances[k]] = ClearedTable(instances[k], k)]
           /\ ClearedTable(instances[k], k) \in [Keys -> Pair \cup {None}]
           /\ instances' = Cleared(GetPair(k))
           /\ lost' \in [Objs -> Nat]
  <1>1. instances[k] \in Objs
    BY DEF RemoveFd, IsValid, TypeOK
  <1>2. GetPair(k) \in Pair
    BY <1>1 DEF RemoveFd, GetPair, TypeOK
  <1>3. Ends(GetPair(k)) \subseteq Keys
    BY <1>2 DEF Ends, Pair, Keys
  <1>4. ClearedTable(instances[k], k) \in [Keys -> Pair \cup {None}]
    BY <1>1 DEF ClearedTable, TypeOK
  <1>5. Released(GetPair(k)) # None => Released(GetPair(k)) \in Objs
    BY <1>3 DEF Released, Ends, TypeOK
  <1>6. lost' \in [Objs -> Nat]
    <2>1. lost' = lost
          \/ (Released(GetPair(k)) \in Objs
              /\ lost' = [lost EXCEPT ![Released(GetPair(k))] = @ + 1])
      BY <1>5 DEF RemoveFd
    <2>2. lost \in [Objs -> Nat]
      BY DEF TypeOK
    <2> QED BY <2>1, <2>2
  <1> QED BY <1>1, <1>2, <1>3, <1>4, <1>6 DEF RemoveFd

LEMMA TypeStep == ASSUME TypeOK, [Next]_vars PROVE TypeOK'
  <1>1. ASSUME NEW f \in Fds, Open(f) PROVE TypeOK'
    <2>1. NewHandle \in Handles /\ created + 1 \in 0 .. MaxHandles
      BY <1>1, NewHandleTyped, HandleAssumption DEF Open, TypeOK
    <2> QED BY <1>1, <2>1 DEF Open, TypeOK, tables
  <1>2. ASSUME NEW f \in Fds, OpenNative(f) PROVE TypeOK'
    BY <1>2 DEF OpenNative, TypeOK, tables
  <1>3. ASSUME NEW h \in Handles, Close(h) PROVE TypeOK'
    BY <1>3 DEF Close, TypeOK, tables, IsValid
  <1>4. ASSUME NEW h \in Handles, ZvalToFd(h) PROVE TypeOK'
    <2> DEFINE p == [fd |-> stream[h], res |-> h]
    <2>1. p \in Pair
      BY <1>4 DEF ZvalToFd, TypeOK, Pair
    <2>2. /\ AddFdPair(p, p, None) /\ FreeStreams(stream) /\ tidy' \in BOOLEAN
          /\ UNCHANGED <<created, plain, lost, over, used>>
      BY <1>4 DEF ZvalToFd, TypeOK, IsValid
    <2>3. stream \in [Handles -> Fds \cup {None}]
      BY DEF TypeOK
    <2> HIDE DEF p
    <2>4. /\ stream' \in [Handles -> Fds \cup {None}] /\ busy' \subseteq busy /\ twice' \in BOOLEAN
      BY <2>2, <2>3, FreeStreamsCloses
    <2>5. /\ made' \in 0 .. MaxObjects
          /\ fd' \in [Objs -> [Keys -> Pair \cup {None}]]
          /\ file' \in [Objs -> Fds \cup {None}]
          /\ owns' \in [Objs -> Handles \cup {None}]
          /\ instances' \in [Keys -> Objs \cup {None}]
      BY <2>1, <2>2, AddFdPairTyped
    <2> QED BY <2>2, <2>4, <2>5 DEF TypeOK
  <1>5. ASSUME NEW f \in Fds, FdToZval(f) PROVE TypeOK'
    <2>1. NewHandle \in Handles
      BY <1>5, NewHandleTyped DEF FdToZval, Register
    <2>2. plain' \subseteq Handles /\ tidy' \in BOOLEAN
      BY <1>5 DEF FdToZval, TypeOK, IsValid
    <2> QED BY <1>5, <2>1, <2>2, RegisterTyped DEF FdToZval
  <1>6. ASSUME NEW f \in Fds, CreateResourceObject(f) PROVE TypeOK'
    <2>1. NewHandle \in Handles
      BY <1>6, NewHandleTyped DEF CreateResourceObject, Register
    <2>2. plain' \subseteq Handles /\ tidy' \in BOOLEAN
      BY <1>6, <2>1 DEF CreateResourceObject, TypeOK, IsValid
    <2> QED BY <1>6, <2>2, RegisterTyped DEF CreateResourceObject
  <1>7. ASSUME NEW g \in Handles, NEW h \in Handles, AddFdPairs(g, h) PROVE TypeOK'
    <2> DEFINE p == [fd |-> stream[g], res |-> g]
               q == [fd |-> stream[h], res |-> h]
    <2>1. p \in Pair /\ q \in Pair
      BY <1>7 DEF AddFdPairs, TypeOK, Pair
    <2>2. /\ AddFdPair(p, q, None) /\ FreeStreams(stream) /\ tidy' \in BOOLEAN
          /\ UNCHANGED <<created, plain, lost, over, used>>
      BY <1>7 DEF AddFdPairs
    <2>3. stream \in [Handles -> Fds \cup {None}]
      BY DEF TypeOK
    <2> HIDE DEF p, q
    <2>4. /\ stream' \in [Handles -> Fds \cup {None}] /\ busy' \subseteq busy /\ twice' \in BOOLEAN
      BY <2>2, <2>3, FreeStreamsCloses
    <2>5. /\ made' \in 0 .. MaxObjects
          /\ fd' \in [Objs -> [Keys -> Pair \cup {None}]]
          /\ file' \in [Objs -> Fds \cup {None}]
          /\ owns' \in [Objs -> Handles \cup {None}]
          /\ instances' \in [Keys -> Objs \cup {None}]
      BY <2>1, <2>2, AddFdPairTyped
    <2> QED BY <2>2, <2>4, <2>5 DEF TypeOK
  <1>8. ASSUME NEW k \in Keys, RemoveFd(k) PROVE TypeOK'
    <2>1. /\ FreeStreams(stream)
          /\ UNCHANGED <<created, plain, made, file, owns, over, used, tidy>>
      BY <1>8 DEF RemoveFd
    <2>2. stream \in [Handles -> Fds \cup {None}]
      BY DEF TypeOK
    <2>3. /\ stream' \in [Handles -> Fds \cup {None}] /\ busy' \subseteq busy /\ twice' \in BOOLEAN
      BY <2>1, <2>2, FreeStreamsCloses
    <2>4. /\ fd' \in [Objs -> [Keys -> Pair \cup {None}]] /\ lost' \in [Objs -> Nat]
      BY <1>8, RemoveFdPair DEF TypeOK
    <2>5. instances' \in [Keys -> Objs \cup {None}]
      BY <1>8, RemoveFdPair DEF Cleared, TypeOK
    <2> QED BY <2>1, <2>3, <2>4, <2>5 DEF TypeOK
  <1>9. ASSUME End PROVE TypeOK'
    <2>1. /\ FreeStreams(stream) /\ over' = TRUE
          /\ UNCHANGED <<created, plain, tables, used, tidy>>
      BY <1>9 DEF End
    <2>2. stream \in [Handles -> Fds \cup {None}]
      BY DEF TypeOK
    <2>3. /\ stream' \in [Handles -> Fds \cup {None}] /\ busy' \subseteq busy /\ twice' \in BOOLEAN
      BY <2>1, <2>2, FreeStreamsCloses
    <2> QED BY <2>1, <2>3 DEF TypeOK, tables
  <1>10. CASE UNCHANGED vars
    BY <1>10 DEF TypeOK, vars, os, tables, history
  <1> QED
    BY <1>1, <1>2, <1>3, <1>4, <1>5, <1>6, <1>7, <1>8, <1>9, <1>10 DEF Next, Terminated

\* The table of descriptors and resources is well typed.
THEOREM TypeCorrect == Spec => []TypeOK
  <1>1. ASSUME Init PROVE TypeOK
    <2>1. created \in 0 .. MaxHandles /\ made \in 0 .. MaxObjects
      BY <1>1, HandleAssumption DEF Init
    <2>2. fd \in [Objs -> [Keys -> Pair \cup {None}]]
      <3>1. [k \in Keys |-> None] \in [Keys -> Pair \cup {None}]
        OBVIOUS
      <3> QED BY <1>1, <3>1 DEF Init
    <2>3. /\ stream \in [Handles -> Fds \cup {None}]
          /\ instances \in [Keys -> Objs \cup {None}]
          /\ file \in [Objs -> Fds \cup {None}]
          /\ owns \in [Objs -> Handles \cup {None}]
          /\ lost \in [Objs -> Nat]
      BY <1>1 DEF Init
    <2>4. busy = {} /\ used = {} /\ plain = {} /\ over = FALSE /\ tidy = TRUE /\ twice = FALSE
      BY <1>1 DEF Init
    <2> QED BY <2>1, <2>2, <2>3, <2>4 DEF TypeOK
  <1> QED BY <1>1, TypeStep, PTL DEF Spec

-----------------------------------------------------------------------------
(* Lookups.                                                                *)

TablesKnown == PairsKnown /\ StreamsKnown /\ LookupsAnswer

\* Numbers are given out in order.
LEMMA HandlesGrow ==
    ASSUME TypeOK, created' \in {created, created + 1}
    PROVE  NewHandle <= NewHandle' /\ NewHandle \in Nat /\ NewHandle' \in Nat
  <1>1. created \in Nat /\ FirstHandle \in Nat
    BY HandleAssumption DEF TypeOK
  <1>2. CASE created' = created
    BY <1>1, <1>2 DEF NewHandle
  <1>3. CASE created' = created + 1
    BY <1>1, <1>3 DEF NewHandle
  <1> QED BY <1>2, <1>3

\* Pairs whose numbers exist are added to an object without pairs.
LEMMA AddKnown ==
    ASSUME TypeOK, TablesKnown, NEW p \in Pair, NEW q \in Pair, NEW owner \in Handles \cup {None},
           AddFdPair(p, q, owner),
           used' = used, created' \in {created, created + 1},
           {p.fd, q.fd} \subseteq used, p.res < NewHandle', q.res < NewHandle'
    PROVE  PairsKnown' /\ LookupsAnswer'
  <1>1. /\ NewObject \in Objs /\ made' = NewObject /\ made \in Nat
        /\ fd' = [fd EXCEPT ![NewObject] = Table(p, q)]
        /\ instances' = [k \in Keys |-> IF k \in Ends(p) \cup Ends(q) THEN NewObject
                                        ELSE instances[k]]
    <2>1. made \in Nat /\ made < MaxObjects /\ MaxObjects \in Nat
      BY HandleAssumption DEF AddFdPair, TypeOK
    <2>2. NewObject \in Objs
      BY <2>1 DEF NewObject, Objs
    <2>3. /\ made' = NewObject
          /\ fd' = [fd EXCEPT ![NewObject] = Table(p, q)]
          /\ instances' = [k \in Keys |-> IF k \in Ends(p) \cup Ends(q) THEN NewObject
                                          ELSE instances[k]]
      BY DEF AddFdPair
    <2> QED BY <2>1, <2>2, <2>3
  <1>2. fd'[NewObject] = Table(p, q) /\ \A o \in Objs : o # NewObject => fd'[o] = fd[o]
    BY <1>1 DEF TypeOK
  <1>3. p # None /\ q # None
    BY NoneAssumption
  <1>4. NewHandle <= NewHandle' /\ NewHandle \in Nat /\ NewHandle' \in Nat
    BY HandlesGrow
  <1>5. PairsKnown'
    <2> SUFFICES ASSUME NEW o \in Objs, NEW k \in Keys, fd'[o][k] # None
                 PROVE  /\ o <= made' /\ k \in Ends(fd'[o][k])
                        /\ fd'[o][k].fd \in used'
                        /\ fd'[o][k].res < NewHandle'
      BY DEF PairsKnown, Ends
    <2>1. CASE o = NewObject
      <3>1. fd'[o][k] = IF k \in Ends(q) THEN q ELSE IF k \in Ends(p) THEN p ELSE None
        BY <1>2, <2>1 DEF Table
      <3> QED BY <2>1, <3>1, <1>1 DEF Objs
    <2>2. CASE o # NewObject
      <3>1. fd'[o] = fd[o]
        BY <1>2, <2>2
      <3>2. /\ o <= made /\ k \in Ends(fd[o][k])
            /\ fd[o][k].fd \in used /\ fd[o][k].res < NewHandle
        BY <3>1 DEF TablesKnown, PairsKnown
      <3>3. fd[o][k] \in Pair /\ fd[o][k].res \in Nat
        BY <3>1, HandleTypes DEF TypeOK, Pair
      <3> QED BY <3>1, <3>2, <3>3, <1>1, <1>4 DEF NewObject, Objs
    <2> QED BY <2>1, <2>2
  <1>6. LookupsAnswer'
    <2> SUFFICES ASSUME NEW k \in Keys, instances'[k] # None
                 PROVE  fd'[instances'[k]][k] # None
      BY DEF LookupsAnswer, IsValid, GetPair
    <2>1. CASE k \in Ends(p) \cup Ends(q)
      <3>1. Table(p, q)[k] # None
        BY <1>3, <2>1 DEF Table
      <3> QED BY <1>1, <1>2, <2>1, <3>1
    <2>2. CASE k \notin Ends(p) \cup Ends(q)
      <3>1. instances'[k] = instances[k] /\ instances[k] \in Objs
        BY <1>1, <2>2 DEF TypeOK
      <3>2. fd[instances[k]][k] # None
        BY <3>1, HandleTypes DEF TablesKnown, LookupsAnswer, IsValid, GetPair
      <3>3. instances[k] # NewObject
        BY <1>1, <3>1, <3>2 DEF TablesKnown, PairsKnown, NewObject, Objs
      <3> QED BY <1>2, <3>1, <3>2, <3>3
    <2> QED BY <2>1, <2>2
  <1> QED BY <1>5, <1>6

\* What clear() leaves was there before, and under the same numbers in both
\* tables.
LEMMA RemoveKnown ==
    ASSUME TypeOK, TablesKnown, NEW k \in Keys, RemoveFd(k)
    PROVE  PairsKnown' /\ LookupsAnswer'
  <1> DEFINE o == instances[k]
             p == GetPair(k)
  <1>1. /\ o \in Objs /\ p \in Pair
        /\ fd' = [fd EXCEPT ![o] = ClearedTable(o, k)]
        /\ instances' = Cleared(p)
        /\ made' = made /\ used' = used /\ created' = created
    BY RemoveFdPair DEF RemoveFd
  <1>2. p = fd[o][k]
    BY DEF GetPair
  <1>3. \A l \in Keys : fd'[o][l] = IF l \in Ends(p) THEN None ELSE fd[o][l]
    BY <1>1, <1>2 DEF ClearedTable, TypeOK
  <1>4. \A b \in Objs : b # o => fd'[b] = fd[b]
    BY <1>1 DEF TypeOK
  <1>5. \A b \in Objs, l \in Keys : fd'[b][l] = None \/ fd'[b][l] = fd[b][l]
    BY <1>3, <1>4
  <1>6. PairsKnown'
    <2> SUFFICES ASSUME NEW b \in Objs, NEW l \in Keys, fd'[b][l] # None
                 PROVE  /\ b <= made' /\ l \in Ends(fd'[b][l])
                        /\ fd'[b][l].fd \in used'
                        /\ fd'[b][l].res < NewHandle'
      BY DEF PairsKnown, Ends
    <2>1. fd'[b][l] = fd[b][l]
      BY <1>5
    <2>2. NewHandle' = NewHandle
      BY <1>1 DEF NewHandle
    <2> QED BY <1>1, <2>1, <2>2 DEF TablesKnown, PairsKnown
  <1>7. LookupsAnswer'
    <2> SUFFICES ASSUME NEW l \in Keys, instances'[l] # None
                 PROVE  fd'[instances'[l]][l] # None
      BY DEF LookupsAnswer, IsValid, GetPair
    <2>1. l \notin Ends(p) /\ instances'[l] = instances[l] /\ instances[l] \in Objs
      BY <1>1 DEF Cleared, TypeOK
    <2>2. fd[instances[l]][l] # None
      BY <2>1, HandleTypes DEF TablesKnown, LookupsAnswer, IsValid, GetPair
    <2> QED BY <1>3, <1>4, <2>1, <2>2
  <1> QED BY <1>6, <1>7

LEMMA KnownStep == ASSUME TypeOK, TablesKnown, [Next]_vars PROVE TablesKnown'
  <1>1. ASSUME UNCHANGED <<instances, fd, made>>, used \subseteq used',
               created' \in {created, created + 1}
        PROVE  PairsKnown' /\ LookupsAnswer'
    <2>1. LookupsAnswer'
      BY <1>1 DEF TablesKnown, LookupsAnswer, IsValid, GetPair
    <2>2. PairsKnown'
      <3> SUFFICES ASSUME NEW o \in Objs, NEW k \in Keys, fd[o][k] # None
                   PROVE  /\ o <= made /\ k \in Ends(fd[o][k])
                          /\ fd[o][k].fd \in used'
                          /\ fd[o][k].res < NewHandle'
        BY <1>1 DEF PairsKnown, Ends
      <3>1. /\ o <= made /\ k \in Ends(fd[o][k])
            /\ fd[o][k].fd \in used /\ fd[o][k].res < NewHandle
        BY DEF TablesKnown, PairsKnown
      <3>2. fd[o][k] \in Pair /\ fd[o][k].res \in Nat
        BY HandleTypes DEF TypeOK, Pair
      <3>3. created \in Nat
        BY HandleAssumption DEF TypeOK
      <3> QED BY <1>1, <3>1, <3>2, <3>3, HandleAssumption DEF NewHandle
    <2> QED BY <2>1, <2>2
  <1>2. ASSUME NEW before \in [Handles -> Fds \cup {None}], FreeStreams(before),
               used' = used, created' \in {created, created + 1},
               \A h \in Handles : before[h] # None => h < NewHandle' /\ before[h] \in used
        PROVE  StreamsKnown'
    <2>1. /\ busy' \subseteq busy
          /\ \A h \in Handles : stream'[h] = None \/ stream'[h] = before[h]
      BY <1>2, FreeStreamsCloses
    <2> QED BY <1>2, <2>1 DEF TablesKnown, StreamsKnown
  <1>3. \A h \in Handles : stream[h] # None => h < NewHandle /\ stream[h] \in used
    BY DEF TablesKnown, StreamsKnown
  <1>4. stream \in [Handles -> Fds \cup {None}] /\ created \in Nat
    BY HandleAssumption DEF TypeOK
  <1>5. ASSUME NEW f \in Fds, Open(f) PROVE TablesKnown'
    <2>1. NewHandle \in Handles
      BY <1>5, NewHandleTyped DEF Open
    <2>2. PairsKnown' /\ LookupsAnswer'
      BY <1>5, <1>1 DEF Open, tables
    <2>3. StreamsKnown'
      BY <1>5, <1>3, <1>4, <2>1, HandleAssumption DEF Open, StreamsKnown, NewHandle, TablesKnown, Handles
    <2> QED BY <2>2, <2>3 DEF TablesKnown
  <1>6. ASSUME NEW f \in Fds, OpenNative(f) PROVE TablesKnown'
    <2>1. PairsKnown' /\ LookupsAnswer'
      BY <1>6, <1>1 DEF OpenNative, tables
    <2>2. StreamsKnown'
      BY <1>6, <1>3 DEF OpenNative, StreamsKnown, NewHandle, TablesKnown
    <2> QED BY <2>1, <2>2 DEF TablesKnown
  <1>7. ASSUME NEW h \in Handles, Close(h) PROVE TablesKnown'
    <2>1. PairsKnown' /\ LookupsAnswer'
      BY <1>7, <1>1 DEF Close, tables
    <2>2. StreamsKnown'
      BY <1>7, <1>3, <1>4 DEF Close, StreamsKnown, NewHandle, TablesKnown
    <2> QED BY <2>1, <2>2 DEF TablesKnown
  <1>8. ASSUME NEW h \in Handles, ZvalToFd(h) PROVE TablesKnown'
    <2> DEFINE p == [fd |-> stream[h], res |-> h]
    <2>1. /\ AddFdPair(p, p, None) /\ FreeStreams(stream)
          /\ used' = used /\ created' = created /\ stream[h] # None
      BY <1>8 DEF ZvalToFd
    <2>2. p \in Pair /\ p.fd \in used /\ p.res < NewHandle
      BY <2>1, <1>3, <1>4 DEF Pair
    <2>3. NewHandle' = NewHandle
      BY <2>1 DEF NewHandle
    <2> HIDE DEF p
    <2>4. PairsKnown' /\ LookupsAnswer'
      BY <2>1, <2>2, <2>3, AddKnown
    <2>5. StreamsKnown'
      BY <2>1, <2>3, <1>2, <1>3, <1>4
    <2> QED BY <2>4, <2>5 DEF TablesKnown
  <1>9. ASSUME NEW f \in Fds, NEW owner \in Handles \cup {None}, Register(f, owner), f \in busy
        PROVE  TablesKnown'
    <2> DEFINE p == [fd |-> f, res |-> NewHandle]
               before == [stream EXCEPT ![NewHandle] = f]
    <2>1. /\ AddFdPair(p, p, owner) /\ FreeStreams(before)
          /\ used' = used /\ created' = created + 1
      BY <1>9 DEF Register
    <2>2. p \in Pair /\ before \in [Handles -> Fds \cup {None}] /\ NewHandle \in Handles
      BY <1>9, RegisterTyped
    <2>3. NewHandle' = NewHandle + 1 /\ NewHandle \in Nat
      BY <2>1, <1>4, HandleAssumption DEF NewHandle
    <2>4. p.fd \in used /\ p.res < NewHandle'
      BY <1>9, <2>3 DEF TablesKnown, StreamsKnown
    <2>5. \A h \in Handles : before[h] # None => h < NewHandle' /\ before[h] \in used
      <3>1. \A h \in Handles : h \in Nat
        BY HandleTypes
      <3> QED BY <1>3, <1>4, <2>2, <2>3, <2>4, <3>1
    <2> HIDE DEF p, before
    <2>6. PairsKnown' /\ LookupsAnswer'
      BY <2>1, <2>2, <2>4, AddKnown
    <2>7. StreamsKnown'
      BY <2>1, <2>2, <2>5, <1>2
    <2> QED BY <2>6, <2>7 DEF TablesKnown
  <1>10. ASSUME NEW f \in Fds, FdToZval(f) PROVE TablesKnown'
    <2>1. NewHandle \in Handles
      BY <1>10, NewHandleTyped DEF FdToZval, Register
    <2> QED BY <1>10, <1>9, <2>1 DEF FdToZval
  <1>11. ASSUME NEW f \in Fds, CreateResourceObject(f) PROVE TablesKnown'
    BY <1>11, <1>9 DEF CreateResourceObject
  <1>12. ASSUME NEW g \in Handles, NEW h \in Handles, AddFdPairs(g, h) PROVE TablesKnown'
    <2> DEFINE p == [fd |-> stream[g], res |-> g]
               q == [fd |-> stream[h], res |-> h]
    <2>1. /\ AddFdPair(p, q, None) /\ FreeStreams(stream)
          /\ used' = used /\ created' = created /\ stream[g] # None /\ stream[h] # None
      BY <1>12 DEF AddFdPairs
    <2>2. /\ p \in Pair /\ p.fd \in used /\ p.res < NewHandle
          /\ q \in Pair /\ q.fd \in used /\ q.res < NewHandle
      BY <2>1, <1>3, <1>4 DEF Pair
    <2>3. NewHandle' = NewHandle
      BY <2>1 DEF NewHandle
    <2> HIDE DEF p, q
    <2>4. PairsKnown' /\ LookupsAnswer'
      BY <2>1, <2>2, <2>3, AddKnown
    <2>5. StreamsKnown'
      BY <2>1, <2>3, <1>2, <1>3, <1>4
    <2> QED BY <2>4, <2>5 DEF TablesKnown
  <1>13. ASSUME NEW k \in Keys, RemoveFd(k) PROVE TablesKnown'
    <2>1. FreeStreams(stream) /\ used' = used /\ created' = created
      BY <1>13 DEF RemoveFd
    <2>2. NewHandle' = NewHandle
      BY <2>1 DEF NewHandle
    <2>3. StreamsKnown'
      BY <2>1, <2>2, <1>2, <1>3, <1>4
    <2> QED BY <1>13, <2>3, RemoveKnown DEF TablesKnown
  <1>14. ASSUME End PROVE TablesKnown'
    <2>1. FreeStreams(stream) /\ used' = used /\ created' = created /\ UNCHANGED tables
      BY <1>14 DEF End
    <2>2. NewHandle' = NewHandle
      BY <2>1 DEF NewHandle
    <2>3. StreamsKnown'
      BY <2>1, <2>2, <1>2, <1>3, <1>4
    <2>4. PairsKnown' /\ LookupsAnswer'
      BY <2>1, <1>1 DEF tables
    <2> QED BY <2>3, <2>4 DEF TablesKnown
  <1>15. CASE UNCHANGED vars
    <2>1. PairsKnown' /\ LookupsAnswer'
      BY <1>15, <1>1 DEF vars, tables, os, history
    <2>2. StreamsKnown'
      BY <1>15, <1>3 DEF vars, os, history, StreamsKnown, NewHandle, TablesKnown
    <2> QED BY <2>1, <2>2 DEF TablesKnown
  <1> QED
    BY <1>5, <1>6, <1>7, <1>8, <1>10, <1>11, <1>12, <1>13, <1>14, <1>15 DEF Next, Terminated

LEMMA KnownInit == ASSUME Init PROVE TablesKnown
  <1>1. PairsKnown
    BY DEF Init, PairsKnown
  <1>2. StreamsKnown
    BY DEF Init, StreamsKnown
  <1>3. LookupsAnswer
    BY DEF Init, LookupsAnswer, IsValid
  <1> QED BY <1>1, <1>2, <1>3 DEF TablesKnown

LEMMA KnownInvariant == Spec => [](TypeOK /\ TablesKnown)
  <1>1. Init => TablesKnown
    BY KnownInit
  <1>2. TypeOK /\ TablesKnown /\ [Next]_vars => TablesKnown'
    BY KnownStep
  <1> QED BY <1>1, <1>2, TypeCorrect, PTL DEF Spec

\* A number that is valid leads to an object that knows it, whatever the
\* program adds, removes and closes: get_fd() never answers a pair with null.
THEOREM LookupsAnswered == Spec => []LookupsAnswer
  <1>1. TablesKnown => LookupsAnswer
    BY DEF TablesKnown
  <1> QED BY <1>1, KnownInvariant, PTL

-----------------------------------------------------------------------------
(* Both tables.                                                            *)

\* What no step takes back.
LEMMA StepGrows ==
    ASSUME TypeOK, [Next]_vars
    PROVE  used \subseteq used' /\ created' \in {created, created + 1} /\ (tidy' => tidy)
  <1>1. CASE \E f \in Fds : Open(f) \/ OpenNative(f)
    BY <1>1 DEF Open, OpenNative
  <1>2. CASE \E f \in Fds : FdToZval(f) \/ CreateResourceObject(f)
    BY <1>2 DEF FdToZval, CreateResourceObject, Register
  <1>3. CASE \E h \in Handles : Close(h) \/ ZvalToFd(h) \/ \E g \in Handles : AddFdPairs(g, h)
    BY <1>3 DEF Close, ZvalToFd, AddFdPairs
  <1>4. CASE \E k \in Keys : RemoveFd(k)
    BY <1>4 DEF RemoveFd
  <1>5. CASE End
    BY <1>5 DEF End
  <1>6. CASE UNCHANGED vars
    BY <1>6 DEF vars, os, history
  <1> QED BY <1>1, <1>2, <1>3, <1>4, <1>5, <1>6 DEF Next, Terminated

LEMMA SafeBefore == ASSUME TypeOK, [Next]_vars, SafeUse' PROVE SafeUse
  <1>1. used \subseteq used' /\ created' \in {created, created + 1} /\ tidy
    BY StepGrows DEF SafeUse
  <1>2. created \in Nat /\ FirstHandle \in Nat
    BY HandleAssumption DEF TypeOK
  <1>3. FirstHandle .. FirstHandle + created - 1 \subseteq FirstHandle .. FirstHandle + created' - 1
    <2>1. CASE created' = created
      BY <2>1
    <2>2. CASE created' = created + 1
      BY <1>2, <2>2
    <2> QED BY <1>1, <2>1, <2>2
  <1> QED BY <1>1, <1>3 DEF SafeUse

\* A resource that is new has a number that nobody knows.
LEMMA NewIsUnknown ==
    ASSUME TypeOK, TablesKnown, NewHandle \in Handles, NewHandle \notin used
    PROVE  ~IsValid(NewHandle)
  <1> SUFFICES ASSUME IsValid(NewHandle) PROVE FALSE
    OBVIOUS
  <1> DEFINE o == instances[NewHandle]
  <1>1. NewHandle \in Keys
    BY DEF Keys
  <1>2. o \in Objs
    BY <1>1 DEF IsValid, TypeOK
  <1>3. fd[o][NewHandle] # None
    BY <1>1 DEF TablesKnown, LookupsAnswer, GetPair
  <1>4. /\ NewHandle \in Ends(fd[o][NewHandle])
        /\ fd[o][NewHandle].fd \in used /\ fd[o][NewHandle].res < NewHandle
    BY <1>1, <1>2, <1>3 DEF TablesKnown, PairsKnown
  <1>5. NewHandle = fd[o][NewHandle].res
    BY <1>4 DEF Ends
  <1> QED BY <1>4, <1>5, HandleTypes

\* A pair whose numbers are not valid is added.
LEMMA AddAgrees ==
    ASSUME TypeOK, TablesKnown, BothEnds, SafeUse, NEW p \in Pair, NEW owner \in Handles \cup {None},
           AddFdPair(p, p, owner), ~IsValid(p.fd), ~IsValid(p.res)
    PROVE  BothEnds'
  <1>1. /\ NewObject \in Objs
        /\ fd' = [fd EXCEPT ![NewObject] = Table(p, p)]
        /\ instances' = [k \in Keys |-> IF k \in Ends(p) THEN NewObject ELSE instances[k]]
    BY AddFdPairTyped DEF AddFdPair
  <1>2. Ends(p) \subseteq Keys /\ p # None
    BY NoneAssumption DEF Ends, Pair, Keys
  <1>3. \A k \in Keys : fd'[NewObject][k] = IF k \in Ends(p) THEN p ELSE None
    BY <1>1 DEF Table, TypeOK
  <1> SUFFICES ASSUME NEW o \in Objs, NEW k \in Keys, fd'[o][k] # None, NEW e \in Ends(fd'[o][k])
               PROVE  instances'[e] = o /\ fd'[o][e] = fd'[o][k]
    BY DEF BothEnds, Ends
  <1>4. CASE o = NewObject
    BY <1>1, <1>2, <1>3, <1>4
  <1>5. CASE o # NewObject
    <2>1. fd'[o] = fd[o]
      BY <1>1, <1>5 DEF TypeOK
    <2>2. instances[e] = o /\ fd[o][e] = fd[o][k]
      BY <2>1 DEF BothEnds
    <2>3. e \notin Ends(p) /\ e \in Keys
      <3>1. fd[o][k] \in Pair
        BY <2>1 DEF TypeOK
      <3>2. e \in Keys
        BY <2>1, <3>1 DEF Ends, Pair, Keys
      <3>3. IsValid(e)
        BY <2>2, HandleTypes DEF IsValid
      <3> QED BY <3>2, <3>3 DEF Ends
    <2> QED BY <1>1, <2>1, <2>2, <2>3
  <1> QED BY <1>4, <1>5

\* A pair is taken out.
LEMMA RemoveAgrees ==
    ASSUME TypeOK, TablesKnown, BothEnds, SafeUse, NEW k \in Keys, RemoveFd(k)
    PROVE  BothEnds'
  <1> DEFINE o == instances[k]
             p == GetPair(k)
  <1>1. /\ o \in Objs /\ p \in Pair /\ p = fd[o][k] /\ p # None
        /\ fd' = [fd EXCEPT ![o] = ClearedTable(o, k)]
        /\ instances' = Cleared(p)
    BY RemoveFdPair, NoneAssumption DEF GetPair
  <1>2. \A l \in Keys : fd'[o][l] = IF l \in Ends(p) THEN None ELSE fd[o][l]
    BY <1>1 DEF ClearedTable, TypeOK
  <1>3. \A b \in Objs : b # o => fd'[b] = fd[b]
    BY <1>1 DEF TypeOK
  <1> SUFFICES ASSUME NEW b \in Objs, NEW l \in Keys, fd'[b][l] # None, NEW e \in Ends(fd'[b][l])
               PROVE  instances'[e] = b /\ fd'[b][e] = fd'[b][l]
    BY DEF BothEnds, Ends
  <1>4. fd'[b][l] = fd[b][l] /\ (b = o => l \notin Ends(p))
    BY <1>2, <1>3
  <1>5. /\ instances[e] = b /\ fd[b][e] = fd[b][l]
        /\ l \in Ends(fd[b][l])
    BY <1>4 DEF BothEnds, TablesKnown, PairsKnown
  <1>6. \A c \in Ends(p) : instances[c] = o /\ fd[o][c] = p
    BY <1>1 DEF BothEnds
  <1>7. e \notin Ends(p)
    BY <1>4, <1>5, <1>6
  <1>8. e \in Keys
    <2>1. fd[b][l] \in Pair
      BY <1>4 DEF TypeOK
    <2> QED BY <1>4, <2>1 DEF Ends, Pair, Keys
  <1> QED BY <1>1, <1>2, <1>3, <1>4, <1>5, <1>7, <1>8 DEF Cleared

LEMMA BothStep == ASSUME TypeOK, TablesKnown, BothEnds, [Next]_vars PROVE BothEnds'
  <1> SUFFICES ASSUME SafeUse' PROVE BothEnds'
    BY DEF BothEnds
  <1>1. SafeUse
    BY SafeBefore
  <1>2. ASSUME UNCHANGED <<instances, fd>> PROVE BothEnds'
    BY <1>1, <1>2 DEF BothEnds, Ends
  <1>3. ASSUME NEW h \in Handles, ZvalToFd(h) PROVE BothEnds'
    <2> DEFINE p == [fd |-> stream[h], res |-> h]
    <2>1. /\ AddFdPair(p, p, None)
          /\ ~IsValid(stream[h]) /\ ~IsValid(h) /\ stream[h] # None
      BY <1>3 DEF ZvalToFd, SafeUse
    <2>2. p \in Pair /\ p.fd = stream[h] /\ p.res = h
      BY <2>1 DEF Pair, TypeOK
    <2> HIDE DEF p
    <2> QED BY <1>1, <2>1, <2>2, AddAgrees
  <1>4. ASSUME NEW f \in Fds, NEW owner \in Handles \cup {None}, Register(f, owner), ~IsValid(f)
        PROVE  BothEnds'
    <2> DEFINE p == [fd |-> f, res |-> NewHandle]
    <2>1. /\ AddFdPair(p, p, owner) /\ created' = created + 1 /\ used' = used
      BY <1>4 DEF Register
    <2>2. p \in Pair /\ NewHandle \in Handles
      BY <1>4, RegisterTyped
    <2>3. NewHandle \notin used
      <3>1. created \in Nat /\ FirstHandle \in Nat
        BY HandleAssumption DEF TypeOK
      <3>2. NewHandle \in FirstHandle .. FirstHandle + created' - 1
        BY <2>1, <3>1 DEF NewHandle
      <3> QED BY <2>1, <3>2 DEF SafeUse
    <2>4. ~IsValid(NewHandle)
      BY <2>2, <2>3, NewIsUnknown
    <2>5. p.fd = f /\ p.res = NewHandle
      OBVIOUS
    <2> HIDE DEF p
    <2> QED BY <1>1, <1>4, <2>1, <2>2, <2>4, <2>5, AddAgrees
  <1>5. ASSUME NEW f \in Fds, FdToZval(f) PROVE BothEnds'
    <2>1. NewHandle \in Handles
      BY <1>5, NewHandleTyped DEF FdToZval, Register
    <2>2. f \in Keys /\ ~IsValid(f)
      BY <1>5 DEF FdToZval, Known, TablesKnown, LookupsAnswer, Keys
    <2> QED BY <1>4, <1>5, <2>1, <2>2 DEF FdToZval
  <1>6. ASSUME NEW f \in Fds, CreateResourceObject(f) PROVE BothEnds'
    BY <1>4, <1>6 DEF CreateResourceObject, SafeUse
  <1>7. ASSUME NEW k \in Keys, RemoveFd(k) PROVE BothEnds'
    BY <1>1, <1>7, RemoveAgrees
  <1>8. CASE \E f \in Fds : Open(f) \/ OpenNative(f)
    BY <1>2, <1>8 DEF Open, OpenNative, tables
  <1>9. CASE End \/ \E h \in Handles : Close(h)
    BY <1>2, <1>9 DEF End, Close, tables
  <1>10. CASE \E g, h \in Handles : AddFdPairs(g, h)
    BY <1>10 DEF AddFdPairs, SafeUse
  <1>11. CASE UNCHANGED vars
    BY <1>2, <1>11 DEF vars, tables
  <1> QED
    BY <1>3, <1>5, <1>6, <1>7, <1>8, <1>9, <1>10, <1>11 DEF Next, Terminated

\* In programs of SafeUse the two tables agree: a pair is found by both of its
\* numbers, through the object that has it, or by neither.
THEOREM BothEndsFound == Spec => []BothEnds
  <1>1. Init => BothEnds
    BY DEF Init, BothEnds
  <1>2. TypeOK /\ TablesKnown /\ BothEnds /\ [Next]_vars => BothEnds'
    BY BothStep
  <1> QED BY <1>1, <1>2, KnownInvariant, PTL DEF Spec

-----------------------------------------------------------------------------
(* Owners.                                                                 *)

LEMMA PairsCount ==
    ASSUME NEW a, NEW b
    PROVE  IsFiniteSet({a, b}) /\ Cardinality({a, b}) \in Nat /\ Cardinality({a, b}) > 0
  <1> DEFINE S == {a}
  <1>1. IsFiniteSet(S) /\ Cardinality(S) = 1
    BY FS_Singleton
  <1> HIDE DEF S
  <1>2. /\ IsFiniteSet(S \cup {b})
        /\ Cardinality(S \cup {b}) = IF b \in S THEN Cardinality(S) ELSE Cardinality(S) + 1
    BY <1>1, FS_AddElement
  <1>3. Cardinality(S \cup {b}) \in Nat /\ Cardinality(S \cup {b}) > 0
    BY <1>1, <1>2
  <1>4. {a, b} = S \cup {b}
    BY DEF S
  <1> QED BY <1>2, <1>3, <1>4

LEMMA OwnersStep == ASSUME TypeOK, TablesKnown, OwnersKnown, [Next]_vars PROVE OwnersKnown'
  <1>1. NewHandle <= NewHandle' /\ NewHandle \in Nat /\ NewHandle' \in Nat
    BY StepGrows, HandlesGrow
  <1>2. \A h \in Handles : h \in Nat
    BY HandleTypes
  <1>3. plain \subseteq Handles /\ (\A o \in Objs : owns[o] \in Handles \cup {None})
    BY DEF TypeOK
  <1>4. ASSUME UNCHANGED <<plain, owns, made, lost>> PROVE OwnersKnown'
    BY <1>1, <1>2, <1>3, <1>4 DEF OwnersKnown
  <1>5. ASSUME NEW p \in Pair, NEW q \in Pair, NEW owner \in Handles \cup {None},
               AddFdPair(p, q, owner), lost' = lost,
               owner # None => owner < NewHandle' /\ owner \notin plain',
               plain' \subseteq plain \cup {NewHandle}, \A h \in plain' : h < NewHandle'
        PROVE  OwnersKnown'
    <2>1. /\ NewObject \in Objs /\ made' = NewObject /\ made \in Nat
          /\ owns' = [owns EXCEPT ![NewObject] = owner]
      <3>1. made \in Nat
        BY HandleAssumption DEF TypeOK
      <3> QED BY <1>5, <3>1, AddFdPairTyped DEF AddFdPair
    <2>2. \A o \in Objs : owns'[o] = IF o = NewObject THEN owner ELSE owns[o]
      BY <2>1 DEF TypeOK
    <2>3. \A o \in Objs : owns[o] # None =>
              owns[o] < NewHandle /\ owns[o] \notin plain /\ owns[o] \in Nat
      BY <1>2, <1>3 DEF OwnersKnown
    <2>4. \A o \in Objs : owns'[o] # None => owns'[o] < NewHandle' /\ owns'[o] \notin plain'
      BY <1>1, <1>5, <2>2, <2>3
    <2>5. ASSUME NEW o \in Objs, o > made' PROVE owns'[o] = None /\ lost'[o] = 0
      <3>1. o > made /\ o # NewObject
        BY <2>1, <2>5 DEF NewObject, Objs
      <3> QED BY <1>5, <2>2, <3>1 DEF OwnersKnown
    <2> QED BY <1>5, <2>4, <2>5 DEF OwnersKnown
  <1>6. ASSUME NEW h \in Handles, ZvalToFd(h) PROVE OwnersKnown'
    <2> DEFINE p == [fd |-> stream[h], res |-> h]
    <2>1. /\ AddFdPair(p, p, None) /\ stream[h] # None
          /\ lost' = lost /\ plain' = plain /\ created' = created
      BY <1>6 DEF ZvalToFd
    <2>2. p \in Pair
      BY <2>1 DEF Pair, TypeOK
    <2>3. \A g \in plain' : g < NewHandle'
      BY <2>1 DEF OwnersKnown, NewHandle
    <2> HIDE DEF p
    <2> QED BY <1>5, <2>1, <2>2, <2>3
  <1>7. ASSUME NEW f \in Fds, NEW owner \in Handles \cup {None}, Register(f, owner),
               owner # None => owner = NewHandle /\ owner \notin plain',
               plain' \subseteq plain \cup {NewHandle}
        PROVE  OwnersKnown'
    <2> DEFINE p == [fd |-> f, res |-> NewHandle]
    <2>1. AddFdPair(p, p, owner) /\ lost' = lost /\ created' = created + 1
      BY <1>7 DEF Register
    <2>2. p \in Pair
      BY <1>7, RegisterTyped
    <2>3. NewHandle < NewHandle'
      <3>1. created \in Nat /\ FirstHandle \in Nat
        BY HandleAssumption DEF TypeOK
      <3> QED BY <2>1, <3>1 DEF NewHandle
    <2>4. \A h \in plain' : h < NewHandle'
      BY <1>1, <1>2, <1>3, <1>7, <2>3 DEF OwnersKnown
    <2> HIDE DEF p
    <2> QED BY <1>5, <1>7, <2>1, <2>2, <2>3, <2>4
  <1>8. ASSUME NEW f \in Fds, FdToZval(f) PROVE OwnersKnown'
    <2>1. NewHandle \in Handles
      BY <1>8, NewHandleTyped DEF FdToZval, Register
    <2>2. NewHandle \notin plain
      BY <1>1 DEF OwnersKnown
    <2> QED BY <1>7, <1>8, <2>1, <2>2 DEF FdToZval
  <1>9. ASSUME NEW f \in Fds, CreateResourceObject(f) PROVE OwnersKnown'
    BY <1>7, <1>9 DEF CreateResourceObject
  <1>10. ASSUME NEW g \in Handles, NEW h \in Handles, AddFdPairs(g, h) PROVE OwnersKnown'
    <2> DEFINE p == [fd |-> stream[g], res |-> g]
               q == [fd |-> stream[h], res |-> h]
    <2>1. /\ AddFdPair(p, q, None) /\ stream[g] # None /\ stream[h] # None
          /\ lost' = lost /\ plain' = plain /\ created' = created
      BY <1>10 DEF AddFdPairs
    <2>2. p \in Pair /\ q \in Pair
      BY <2>1 DEF Pair, TypeOK
    <2>3. \A k \in plain' : k < NewHandle'
      BY <2>1 DEF OwnersKnown, NewHandle
    <2> HIDE DEF p, q
    <2> QED BY <1>5, <2>1, <2>2, <2>3
  <1>11. ASSUME NEW k \in Keys, RemoveFd(k) PROVE OwnersKnown'
    <2> DEFINE p == GetPair(k)
               r == Released(p)
    <2>1. plain' = plain /\ owns' = owns /\ made' = made /\ created' = created
      BY <1>11 DEF RemoveFd
    <2>4. lost' = lost \/ (r # None /\ lost' = [lost EXCEPT ![r] = @ + 1])
      <3>1. CASE fd'[instances[k]] = [l \in Keys |-> None] /\ r # None
        BY <1>11, <3>1 DEF RemoveFd
      <3>2. CASE ~(fd'[instances[k]] = [l \in Keys |-> None] /\ r # None)
        BY <1>11, <3>2 DEF RemoveFd
      <3> QED BY <3>1, <3>2
    <2>2. r # None => r \in Objs /\ r <= made
      <3>1. p \in Pair /\ p.res \in Keys
        BY <1>11, RemoveFdPair DEF Pair, Keys
      <3>2. r # None => r = instances[p.res] /\ r \in Objs
        BY <3>1 DEF Released, TypeOK
      <3>3. r # None => fd[r][p.res] # None
        BY <3>1, <3>2 DEF TablesKnown, LookupsAnswer, IsValid, GetPair
      <3> QED BY <3>1, <3>2, <3>3 DEF TablesKnown, PairsKnown
    <2>3. \A o \in Objs : o > made => lost'[o] = lost[o]
      <3>1. ASSUME NEW o \in Objs, o > made PROVE o # r
        <4>1. o \in Nat /\ made \in Nat /\ o # None
          BY HandleAssumption, HandleTypes DEF Objs, TypeOK
        <4> HIDE DEF r
        <4> QED BY <2>2, <3>1, <4>1
      <3> QED BY <2>4, <3>1 DEF TypeOK
    <2> QED BY <2>1, <2>3 DEF OwnersKnown, NewHandle
  <1>12. CASE \E f \in Fds : Open(f) \/ OpenNative(f)
    BY <1>4, <1>12 DEF Open, OpenNative, tables
  <1>13. CASE End \/ \E h \in Handles : Close(h)
    BY <1>4, <1>13 DEF End, Close, tables
  <1>14. CASE UNCHANGED vars
    BY <1>4, <1>14 DEF vars, tables, os
  <1> QED
    BY <1>6, <1>8, <1>9, <1>10, <1>11, <1>12, <1>13, <1>14 DEF Next, Terminated

Alive == OwnersKnown /\ StreamsApart /\ OnePair /\ (SafeUse => ~twice)

\* Two pairs of one object are the same one.
LEMMA PairIsOne ==
    ASSUME TypeOK, BothEnds, OnePair, SafeUse, ~over,
           NEW o \in Objs, NEW k \in Keys, NEW l \in Keys, fd[o][k] # None, fd[o][l] # None
    PROVE  fd[o][k] = fd[o][l]
  <1>1. file[o] = fd[o][k].fd /\ file[o] = fd[o][l].fd
    BY DEF OnePair
  <1>2. fd[o][fd[o][k].fd] = fd[o][k] /\ fd[o][fd[o][l].fd] = fd[o][l]
    BY DEF BothEnds, Ends
  <1> QED BY <1>1, <1>2

\* What an object is found under: the ends of its pair.
LEMMA EntriesAreEnds ==
    ASSUME TypeOK, TablesKnown, BothEnds, OnePair, SafeUse, ~over,
           NEW o \in Objs, NEW k \in Keys, fd[o][k] # None
    PROVE  Entries(o) = Ends(fd[o][k])
  <1>1. fd[o][k] \in Pair
    BY DEF TypeOK
  <1>2. Ends(fd[o][k]) \subseteq Entries(o)
    BY <1>1 DEF BothEnds, Entries, Ends, Pair, Keys
  <1>3. ASSUME NEW l \in Keys, instances[l] = o PROVE l \in Ends(fd[o][k])
    <2>1. fd[o][l] # None
      BY <1>3, HandleTypes DEF TablesKnown, LookupsAnswer, IsValid, GetPair
    <2>2. fd[o][l] = fd[o][k]
      BY <2>1, PairIsOne
    <2> QED BY <2>1, <2>2 DEF TablesKnown, PairsKnown
  <1> QED BY <1>2, <1>3 DEF Entries

\* An object that has a pair is alive.
LEMMA PairedIsAlive ==
    ASSUME TypeOK, TablesKnown, BothEnds, OnePair, SafeUse, ~over,
           NEW o \in Objs, NEW k \in Keys, fd[o][k] # None
    PROVE  ~Freed(o)
  <1>1. lost[o] = 0
    BY DEF OnePair
  <1>2. Entries(o) = {fd[o][k].fd, fd[o][k].res}
    BY EntriesAreEnds DEF Ends
  <1>3. Cardinality(Entries(o)) \in Nat /\ Cardinality(Entries(o)) > 0
    BY <1>2, PairsCount
  <1> QED BY <1>1, <1>3 DEF Freed

\* One that has none is freed.
LEMMA UnpairedIsFreed ==
    ASSUME TypeOK, TablesKnown, NEW o \in Objs, o <= made, \A k \in Keys : fd[o][k] = None
    PROVE  Freed(o)
  <1>1. Entries(o) = {}
    BY HandleTypes DEF Entries, TablesKnown, LookupsAnswer, IsValid, GetPair
  <1>2. Cardinality(Entries(o)) = 0 /\ lost[o] \in Nat
    BY <1>1, FS_EmptySet DEF TypeOK
  <1> QED BY <1>2 DEF Freed

\* Nothing is destructed when a pair with new ends is added.
LEMMA AddDestructsNone ==
    ASSUME TypeOK, TablesKnown, OwnersKnown, ~over,
           NEW p \in Pair, NEW owner \in Handles \cup {None}, AddFdPair(p, p, owner), lost' = lost, over' = over,
           ~IsValid(p.fd), ~IsValid(p.res)
    PROVE  Destructed = {}
  <1>1. /\ NewObject \in Objs /\ made' = NewObject
        /\ instances' = [k \in Keys |-> IF k \in Ends(p) THEN NewObject ELSE instances[k]]
    BY AddFdPairTyped DEF AddFdPair
  <1>2. made \in Nat
    BY HandleAssumption DEF TypeOK
  <1>3. Ends(p) \subseteq Keys
    BY DEF Ends, Pair, Keys
  <1> SUFFICES ASSUME NEW o \in Objs, Freed(o)' PROVE Freed(o)
    BY DEF Destructed
  <1>4. o <= made' /\ Cardinality(Entries(o)') <= lost[o]
    BY DEF Freed
  <1>5. o # NewObject
    <2> SUFFICES ASSUME o = NewObject PROVE FALSE
      OBVIOUS
    <2>1. ~(NewObject <= made) /\ NewObject > made
      BY <1>2 DEF NewObject
    <2>2. \A k \in Keys : instances[k] # NewObject
      <3> SUFFICES ASSUME NEW k \in Keys, instances[k] = NewObject PROVE FALSE
        OBVIOUS
      <3>1. fd[NewObject][k] # None
        BY <1>1, HandleTypes DEF TablesKnown, LookupsAnswer, IsValid, GetPair
      <3> QED BY <1>1, <2>1, <3>1 DEF TablesKnown, PairsKnown
    <2>3. Entries(o)' = {p.fd, p.res}
      BY <1>1, <1>3, <2>2 DEF Entries, Ends
    <2>4. lost[o] = 0
      BY <1>1, <2>1 DEF OwnersKnown
    <2>5. Cardinality({p.fd, p.res}) \in Nat /\ Cardinality({p.fd, p.res}) > 0
      BY PairsCount
    <2>6. Cardinality({p.fd, p.res}) <= 0
      BY <1>4, <2>3, <2>4
    <2> QED BY <2>5, <2>6
  <1>6. Entries(o)' = Entries(o)
    BY <1>1, <1>3, <1>5, HandleTypes DEF Entries, IsValid, Ends
  <1>7. o <= made
    BY <1>1, <1>2, <1>4, <1>5, HandleAssumption DEF NewObject, Objs
  <1> QED BY <1>4, <1>6, <1>7 DEF Freed

\* A pair with new ends is added for a stream that is open.
LEMMA AddAlive ==
    ASSUME TypeOK, TablesKnown, BothEnds, OwnersKnown, OnePair, SafeUse, ~over,
           NEW p \in Pair, NEW owner \in {None, p.res}, AddFdPair(p, p, owner),
           lost' = lost, over' = over, ~IsValid(p.fd), ~IsValid(p.res),
           NEW before \in [Handles -> Fds \cup {None}], FreeStreams(before),
           before[p.res] = p.fd, p.fd \in busy,
           \A h \in Handles : h < NewHandle => before[h] = stream[h]
    PROVE  OnePair' /\ stream' = before /\ busy' = busy /\ twice' = twice
  <1>1. owner \in Handles \cup {None}
    BY DEF Pair
  <1>2. Destructed = {}
    BY <1>1, AddDestructsNone
  <1>3. stream' = before /\ busy' = busy /\ twice' = twice
    <2>1. Owned = {}
      BY <1>2 DEF Owned
    <2>2. stream' = [h \in Handles |-> before[h]] /\ busy' = busy /\ twice' = twice
      BY <2>1 DEF FreeStreams, TypeOK
    <2> QED BY <2>2
  <1>4. /\ NewObject \in Objs
        /\ fd' = [fd EXCEPT ![NewObject] = Table(p, p)]
        /\ file' = [file EXCEPT ![NewObject] = p.fd]
        /\ owns' = [owns EXCEPT ![NewObject] = owner]
    BY <1>1, AddFdPairTyped DEF AddFdPair
  <1>5. lost[NewObject] = 0
    <2>1. NewObject > made
      BY HandleAssumption DEF NewObject, TypeOK
    <2> QED BY <1>4, <2>1 DEF OwnersKnown
  <1>6. OnePair'
    <2> SUFFICES ASSUME NEW o \in Objs, NEW k \in Keys, fd'[o][k] # None
                 PROVE  /\ lost[o] = 0
                        /\ file'[o] = fd'[o][k].fd
                        /\ owns'[o] \in {None, fd'[o][k].res}
                        /\ before[fd'[o][k].res] = fd'[o][k].fd
                        /\ fd'[o][k].fd \in busy
      BY <1>3 DEF OnePair
    <2>1. CASE o = NewObject
      <3>1. fd'[o][k] = p
        BY <1>4, <2>1 DEF Table, TypeOK
      <3>2. file'[o] = p.fd /\ owns'[o] = owner
        BY <1>4, <2>1 DEF TypeOK
      <3> QED BY <1>5, <2>1, <3>1, <3>2
    <2>2. CASE o # NewObject
      <3>1. fd'[o] = fd[o] /\ file'[o] = file[o] /\ owns'[o] = owns[o]
        BY <1>4, <2>2 DEF TypeOK
      <3>2. fd[o][k] \in Pair /\ fd[o][k].res \in Handles /\ fd[o][k].res < NewHandle
        BY <3>1 DEF TypeOK, Pair, TablesKnown, PairsKnown
      <3> QED BY <3>1, <3>2 DEF OnePair
    <2> QED BY <2>1, <2>2
  <1> QED BY <1>3, <1>6

\* A pair is taken out of the tables: its object is destructed, and no other,
\* and a stream that it owned is closed for the first time.
LEMMA RemoveAlive ==
    ASSUME TypeOK, TablesKnown, BothEnds, Alive, SafeUse, ~over,
           NEW k \in Keys, RemoveFd(k)
    PROVE  OnePair' /\ StreamsApart' /\ twice' = twice
  <1>1. PICK o \in Objs, p \in Pair :
            /\ o = instances[k] /\ p = GetPair(k) /\ p = fd[o][k]
            /\ fd' = [fd EXCEPT ![o] = ClearedTable(o, k)]
            /\ instances' = [l \in Keys |-> IF l \in Ends(p) THEN None ELSE instances[l]]
    BY RemoveFdPair DEF GetPair, Cleared
  <1>0. p # None /\ p.res \in Handles /\ p.res \in Keys
    BY NoneAssumption DEF Pair, Keys
  <1>2. /\ made' = made /\ file' = file /\ owns' = owns /\ over' = over /\ plain' = plain
        /\ FreeStreams(stream)
    BY DEF RemoveFd
  <1>3. /\ p.fd \in busy /\ stream[p.res] = p.fd /\ owns[o] \in {None, p.res}
    BY <1>1, <1>0 DEF Alive, OnePair
  <1>4. \A c \in Ends(p) : instances[c] = o
    BY <1>1, <1>0 DEF BothEnds
  <1>5. \A b \in Objs : b # o => fd'[b] = fd[b] /\ lost'[b] = lost[b] /\ Entries(b)' = Entries(b)
    <2>1. \A b \in Objs : b # o => fd'[b] = fd[b]
      BY <1>1 DEF TypeOK
    <2>2. \A b \in Objs : b # o => Entries(b)' = Entries(b)
      BY <1>1, <1>4, HandleTypes DEF Entries
    <2>3. Released(p) \in {None, o}
      BY <1>4 DEF Released, Ends
    <2>4. \A b \in Objs : b # o => lost'[b] = lost[b]
      <3>1. CASE lost' = lost
        BY <3>1
      <3>2. CASE lost' = [lost EXCEPT ![Released(p)] = @ + 1] /\ Released(p) # None
        BY <2>3, <3>2 DEF TypeOK
      <3>3. lost' = lost \/ (lost' = [lost EXCEPT ![Released(p)] = @ + 1] /\ Released(p) # None)
        <4>1. CASE fd'[o] = [l \in Keys |-> None] /\ Released(p) # None
          BY <1>1, <4>1 DEF RemoveFd
        <4>2. CASE ~(fd'[o] = [l \in Keys |-> None] /\ Released(p) # None)
          BY <1>1, <4>2 DEF RemoveFd
        <4> QED BY <4>1, <4>2
      <3> QED BY <3>1, <3>2, <3>3
    <2> QED BY <2>1, <2>2, <2>4
  <1>6. Destructed \subseteq {o}
    BY <1>2, <1>5 DEF Destructed, Freed
  <1>7. o \in Destructed
    <2>1. ~Freed(o)
      BY <1>1, <1>0, PairedIsAlive DEF Alive
    <2>2. Entries(o)' = {}
      <3>1. Entries(o) = Ends(p)
        BY <1>1, <1>0, EntriesAreEnds DEF Alive
      <3> QED BY <1>1, <3>1, HandleTypes DEF Entries
    <2>3. lost'[o] \in Nat
      BY <1>1, RemoveFdPair
    <2>4. Cardinality(Entries(o)') = 0
      BY <2>2, FS_EmptySet
    <2>5. o <= made
      BY <1>1, <1>0 DEF TablesKnown, PairsKnown
    <2> QED BY <1>2, <2>1, <2>3, <2>4, <2>5 DEF Destructed, Freed
  <1>8. Owned \subseteq {p.res} /\ (\A h \in Owned : h \notin plain)
    BY <1>1, <1>2, <1>3, <1>6 DEF Owned, Alive, OwnersKnown
  <1>9. twice' = twice
    <2>1. \A h \in Owned : stream[h] # None
      BY <1>3, <1>8, HandleTypes DEF Pair
    <2> QED BY <1>2, <2>1 DEF FreeStreams, TypeOK
  <1>10. \A h \in Handles : stream'[h] = IF h \in Owned THEN None ELSE stream[h]
    BY <1>2 DEF FreeStreams
  <1>11. busy' = busy \ {stream[h] : h \in Owned}
    BY <1>2 DEF FreeStreams
  <1>12. OnePair'
    <2> SUFFICES ASSUME NEW b \in Objs, NEW l \in Keys, fd'[b][l] # None
                 PROVE  /\ lost'[b] = 0
                        /\ file[b] = fd'[b][l].fd
                        /\ owns[b] \in {None, fd'[b][l].res}
                        /\ stream'[fd'[b][l].res] = fd'[b][l].fd
                        /\ fd'[b][l].fd \in busy'
      BY <1>2 DEF OnePair
    <2>1. b # o
      <3> SUFFICES ASSUME b = o PROVE FALSE
        OBVIOUS
      <3>1. fd'[o][l] = IF l \in Ends(p) THEN None ELSE fd[o][l]
        BY <1>1 DEF ClearedTable, TypeOK
      <3>2. fd[o][l] # None /\ l \notin Ends(p)
        BY <3>1
      <3>3. fd[o][l] = p
        BY <1>1, <1>0, <3>2, PairIsOne DEF Alive
      <3> QED BY <1>1, <3>2, <3>3 DEF TablesKnown, PairsKnown
    <2> DEFINE r == fd[b][l]
    <2>2. fd'[b][l] = r /\ r # None /\ r \in Pair
      BY <1>5, <2>1 DEF TypeOK
    <2>3. r.res # p.res /\ r.fd # p.fd
      <3>1. instances[r.res] = b /\ instances[r.fd] = b
        BY <2>2 DEF BothEnds, Ends
      <3> QED BY <1>4, <2>1, <3>1 DEF Ends
    <2>4. /\ lost[b] = 0 /\ file[b] = r.fd /\ owns[b] \in {None, r.res}
          /\ stream[r.res] = r.fd /\ r.fd \in busy
      BY <2>2 DEF Alive, OnePair
    <2>5. r.res \in Handles
      BY <2>2 DEF Pair
    <2> HIDE DEF r
    <2> QED BY <1>3, <1>5, <1>8, <1>10, <1>11, <2>1, <2>2, <2>3, <2>4, <2>5
  <1>13. StreamsApart'
    <2> SUFFICES ASSUME NEW h \in Handles \ plain, stream'[h] # None
                 PROVE  /\ stream'[h] \in busy'
                        /\ \A g \in Handles \ plain : stream'[g] = stream'[h] => g = h
      BY <1>2 DEF StreamsApart
    <2>1. h \notin Owned /\ stream'[h] = stream[h] /\ stream[h] # None
      BY <1>10
    <2>2. /\ stream[h] \in busy
          /\ \A g \in Handles \ plain : stream[g] = stream[h] => g = h
      BY <2>1 DEF Alive, StreamsApart
    <2>3. Owned \subseteq Handles \ plain
      BY <1>0, <1>8
    <2> QED BY <1>10, <1>11, <2>1, <2>2, <2>3
  <1> QED BY <1>9, <1>12, <1>13

LEMMA AliveStep == ASSUME TypeOK, TablesKnown, BothEnds, Alive, [Next]_vars PROVE Alive'
  <1>1. OwnersKnown'
    BY OwnersStep DEF Alive
  <1> SUFFICES ASSUME SafeUse' PROVE StreamsApart' /\ OnePair' /\ ~twice'
    BY <1>1 DEF Alive, StreamsApart, OnePair
  <1>2. SafeUse /\ ~twice
    BY SafeBefore DEF Alive
  <1>3. /\ stream \in [Handles -> Fds \cup {None}]
        /\ \A o \in Objs, k \in Keys : fd[o][k] # None =>
               fd[o][k] \in Pair /\ fd[o][k].fd \in Fds /\ fd[o][k].res \in Handles
    BY DEF TypeOK, Pair
  <1>4. \A o \in Objs, k \in Keys : fd[o][k] # None =>
            fd[o][k].res < NewHandle /\ IsValid(fd[o][k].fd) /\ IsValid(fd[o][k].res)
    <2> SUFFICES ASSUME NEW o \in Objs, NEW k \in Keys, fd[o][k] # None
                 PROVE  /\ fd[o][k].res < NewHandle
                        /\ IsValid(fd[o][k].fd) /\ IsValid(fd[o][k].res)
      OBVIOUS
    <2>1. fd[o][k].res < NewHandle
      BY DEF TablesKnown, PairsKnown
    <2>2. instances[fd[o][k].fd] = o /\ instances[fd[o][k].res] = o
      BY <1>2 DEF BothEnds, Ends
    <2> QED BY <2>1, <2>2, HandleTypes DEF IsValid
  <1>5. ~(NewHandle < NewHandle) /\ \A h \in Handles : h \in Nat
    BY HandleTypes
  <1>6. \A h \in Handles : stream[h] # None => h < NewHandle
    BY DEF TablesKnown, StreamsKnown
  <1>7. CASE UNCHANGED vars
    BY <1>2, <1>7 DEF vars, os, tables, history, Alive, StreamsApart, OnePair
  <1>8. ASSUME ~over, NEW f \in Fds, Open(f) PROVE StreamsApart' /\ OnePair' /\ ~twice'
    <2>1. /\ f \notin busy /\ stream' = [stream EXCEPT ![NewHandle] = f] /\ busy' = busy \cup {f}
          /\ UNCHANGED <<plain, tables, over, twice>> /\ NewHandle \in Handles
      BY <1>8, NewHandleTyped DEF Open
    <2>2. StreamsApart'
      BY <1>2, <1>3, <1>8, <2>1, HandleTypes DEF Alive, StreamsApart
    <2>3. OnePair'
      BY <1>2, <1>3, <1>4, <1>5, <1>8, <2>1 DEF Alive, OnePair, tables
    <2> QED BY <1>2, <2>1, <2>2, <2>3
  <1>9. ASSUME ~over, NEW f \in Fds, OpenNative(f) PROVE StreamsApart' /\ OnePair' /\ ~twice'
    BY <1>2, <1>9 DEF OpenNative, Alive, StreamsApart, OnePair, tables
  <1>10. ASSUME ~over, NEW h \in Handles, Close(h) PROVE StreamsApart' /\ OnePair' /\ ~twice'
    <2>1. /\ stream' = [stream EXCEPT ![h] = None] /\ busy' = busy \ {stream[h]}
          /\ ~IsValid(h) /\ ~IsValid(stream[h]) /\ stream[h] # None /\ h \notin plain
          /\ UNCHANGED <<plain, tables, over, twice>>
      BY <1>10 DEF Close, SafeUse
    <2>2. StreamsApart'
      BY <1>2, <1>3, <1>10, <2>1, HandleTypes DEF Alive, StreamsApart
    <2>3. OnePair'
      BY <1>2, <1>3, <1>4, <1>10, <2>1 DEF Alive, OnePair, tables
    <2> QED BY <1>2, <2>1, <2>2, <2>3
  <1>11. ASSUME ~over, NEW h \in Handles, ZvalToFd(h) PROVE StreamsApart' /\ OnePair' /\ ~twice'
    <2> DEFINE p == [fd |-> stream[h], res |-> h]
    <2>1. /\ AddFdPair(p, p, None) /\ FreeStreams(stream) /\ h \notin plain /\ stream[h] # None
          /\ ~IsValid(stream[h]) /\ ~IsValid(h)
          /\ lost' = lost /\ over' = over /\ plain' = plain
      BY <1>11 DEF ZvalToFd, SafeUse
    <2>2. p \in Pair /\ p.fd = stream[h] /\ p.res = h
      BY <1>3, <2>1 DEF Pair
    <2>3. stream[h] \in busy
      BY <1>2, <1>11, <2>1 DEF Alive, StreamsApart
    <2> HIDE DEF p
    <2>4. OnePair' /\ stream' = stream /\ busy' = busy /\ twice' = twice
      BY <1>2, <1>3, <1>11, <2>1, <2>2, <2>3, AddAlive DEF Alive
    <2>5. StreamsApart'
      BY <1>2, <1>11, <2>1, <2>4 DEF Alive, StreamsApart
    <2> QED BY <1>2, <2>4, <2>5
  <1>12. ASSUME ~over, NEW f \in busy, f \in Fds, NEW owner \in {None, NewHandle},
                Register(f, owner), ~IsValid(f)
         PROVE  /\ OnePair' /\ twice' = twice /\ busy' = busy /\ over' = over
                /\ NewHandle \in Handles /\ stream' = [stream EXCEPT ![NewHandle] = f]
    <2> DEFINE p == [fd |-> f, res |-> NewHandle]
               before == [stream EXCEPT ![NewHandle] = f]
    <2>1. /\ AddFdPair(p, p, owner) /\ FreeStreams(before)
          /\ lost' = lost /\ over' = over /\ created' = created + 1 /\ used' = used
      BY <1>12 DEF Register
    <2>2. NewHandle \in Handles
      BY <1>12, NewHandleTyped DEF Register
    <2>3. /\ p \in Pair /\ p.fd = f /\ p.res = NewHandle
          /\ before \in [Handles -> Fds \cup {None}] /\ before[NewHandle] = f
          /\ \A h \in Handles : h < NewHandle => before[h] = stream[h]
      BY <1>3, <1>5, <1>12, <2>2 DEF Pair
    <2>4. NewHandle \notin used
      <3>1. created \in Nat /\ FirstHandle \in Nat
        BY HandleAssumption DEF TypeOK
      <3>2. NewHandle \in FirstHandle .. FirstHandle + created' - 1
        BY <2>1, <3>1 DEF NewHandle
      <3> QED BY <2>1, <3>2 DEF SafeUse
    <2>5. ~IsValid(NewHandle)
      BY <2>2, <2>4, NewIsUnknown
    <2>6. stream' = before => stream' = [stream EXCEPT ![NewHandle] = f]
      OBVIOUS
    <2> HIDE DEF p, before
    <2>7. OnePair' /\ stream' = before /\ busy' = busy /\ twice' = twice
      BY <1>2, <1>12, <2>1, <2>3, <2>5, AddAlive DEF Alive
    <2> QED BY <2>1, <2>2, <2>6, <2>7
  <1>13. ASSUME ~over, NEW f \in Fds, FdToZval(f) PROVE StreamsApart' /\ OnePair' /\ ~twice'
    <2>1. /\ Register(f, NewHandle) /\ f \in busy /\ ~IsValid(f) /\ plain' = plain
          /\ \A h \in Handles \ plain : stream[h] # f
      BY <1>13 DEF FdToZval, Known, SafeUse, TablesKnown, LookupsAnswer, Keys
    <2>2. /\ OnePair' /\ twice' = twice /\ busy' = busy /\ over' = over
          /\ NewHandle \in Handles /\ stream' = [stream EXCEPT ![NewHandle] = f]
      BY <1>12, <1>13, <2>1
    <2>3. StreamsApart'
      BY <1>2, <1>3, <1>13, <2>1, <2>2, HandleTypes DEF Alive, StreamsApart
    <2> QED BY <1>2, <2>2, <2>3
  <1>14. ASSUME ~over, NEW f \in Fds, CreateResourceObject(f)
         PROVE  StreamsApart' /\ OnePair' /\ ~twice'
    <2>1. /\ Register(f, None) /\ f \in busy /\ ~IsValid(f) /\ plain' = plain \cup {NewHandle}
      BY <1>14 DEF CreateResourceObject, SafeUse
    <2>2. /\ OnePair' /\ twice' = twice /\ busy' = busy /\ over' = over
          /\ NewHandle \in Handles /\ stream' = [stream EXCEPT ![NewHandle] = f]
      BY <1>12, <1>14, <2>1
    <2>3. StreamsApart'
      BY <1>2, <1>3, <1>14, <2>1, <2>2, HandleTypes DEF Alive, StreamsApart
    <2> QED BY <1>2, <2>2, <2>3
  <1>15. ASSUME ~over, NEW k \in Keys, RemoveFd(k) PROVE StreamsApart' /\ OnePair' /\ ~twice'
    BY <1>2, <1>15, RemoveAlive
  <1>16. CASE End
    <2>1. over' /\ ~over /\ FreeStreams(stream) /\ UNCHANGED <<plain, tables>>
      BY <1>16 DEF End
    <2>2. StreamsApart' /\ OnePair'
      BY <2>1 DEF StreamsApart, OnePair
    <2>3. \A h \in Owned : stream[h] # None
      <3> SUFFICES ASSUME NEW o \in Destructed, owns[o] # None PROVE stream[owns[o]] # None
        BY <2>1 DEF Owned, tables
      <3>1. o \in Objs /\ o <= made /\ ~Freed(o)
        BY <2>1 DEF Destructed, Freed, tables
      <3>2. PICK k \in Keys : fd[o][k] # None
        BY <3>1, UnpairedIsFreed
      <3>3. owns[o] = fd[o][k].res /\ stream[fd[o][k].res] = fd[o][k].fd
        BY <1>2, <2>1, <3>1, <3>2 DEF Alive, OnePair
      <3> QED BY <1>3, <3>1, <3>2, <3>3, HandleTypes
    <2> QED BY <1>2, <2>1, <2>2, <2>3 DEF FreeStreams
  <1>17. CASE over /\ Next
    BY <1>7, <1>17
    DEF Next, Open, OpenNative, FdToZval, CreateResourceObject, Close, ZvalToFd, AddFdPairs,
        RemoveFd, End, Terminated
  <1>18. ASSUME NEW g \in Handles, NEW h \in Handles, AddFdPairs(g, h) PROVE FALSE
    BY <1>18 DEF AddFdPairs, SafeUse
  <1> QED
    BY <1>7, <1>8, <1>9, <1>10, <1>11, <1>13, <1>14, <1>15, <1>16, <1>17, <1>18
    DEF Next, Terminated

LEMMA AliveInvariant == Spec => [](TypeOK /\ TablesKnown /\ BothEnds /\ Alive)
  <1>1. Init => Alive
    BY DEF Init, Alive, OwnersKnown, StreamsApart, OnePair
  <1>2. TypeOK /\ TablesKnown /\ BothEnds /\ Alive /\ [Next]_vars => Alive'
    BY AliveStep
  <1> QED BY <1>1, <1>2, KnownInvariant, BothEndsFound, PTL DEF Spec

\* In programs of SafeUse a registered resource is answered with the open
\* descriptor of its stream, by get_fd() and by fd() alike.
THEOREM AnswersRight == Spec => []RightAnswers
  <1>1. TypeOK /\ TablesKnown /\ BothEnds /\ Alive => RightAnswers
    <2> SUFFICES ASSUME TypeOK, TablesKnown, BothEnds, Alive, SafeUse, ~over,
                        NEW k \in Keys, IsValid(k)
                 PROVE  /\ k \in Ends(GetPair(k))
                        /\ Fd(k) = GetPair(k)
                        /\ stream[GetPair(k).res] = GetPair(k).fd
                        /\ GetPair(k).fd \in busy
      BY DEF RightAnswers
    <2>1. PICK o \in Objs : o = instances[k] /\ fd[o][k] # None /\ GetPair(k) = fd[o][k]
      BY DEF IsValid, TypeOK, TablesKnown, LookupsAnswer, GetPair
    <2>2. file[o] = fd[o][k].fd /\ stream[fd[o][k].res] = fd[o][k].fd /\ fd[o][k].fd \in busy
      BY <2>1 DEF Alive, OnePair
    <2>3. fd[o][fd[o][k].fd] = fd[o][k]
      BY <2>1 DEF BothEnds, Ends
    <2>4. k \in Ends(fd[o][k])
      BY <2>1 DEF TablesKnown, PairsKnown
    <2> QED BY <2>1, <2>2, <2>3, <2>4 DEF Fd
  <1> QED BY <1>1, AliveInvariant, PTL

\* In programs of SafeUse no stream is freed twice, or after the program has
\* closed it, and no object is destructed that can still be found.
THEOREM FreedOnce == Spec => []NothingFreedTwice
  <1>1. TypeOK /\ TablesKnown /\ BothEnds /\ Alive => NothingFreedTwice
    <2> SUFFICES ASSUME TypeOK, TablesKnown, BothEnds, Alive, SafeUse
                 PROVE  ~twice /\ (~over => \A k \in Keys : IsValid(k) => ~Freed(instances[k]))
      BY DEF NothingFreedTwice
    <2>1. ASSUME ~over, NEW k \in Keys, IsValid(k) PROVE ~Freed(instances[k])
      <3>1. PICK o \in Objs : o = instances[k] /\ fd[o][k] # None
        BY <2>1 DEF IsValid, TypeOK, TablesKnown, LookupsAnswer, GetPair
      <3>2. ~Freed(o)
        BY <2>1, <3>1, PairedIsAlive DEF Alive
      <3> QED BY <3>1, <3>2
    <2> QED BY <2>1 DEF Alive
  <1> QED BY <1>1, AliveInvariant, PTL
=============================================================================
