-------------------------- MODULE ResourceRegistry --------------------------
(***************************************************************************)
(* Descriptors and PHP resources: the static table of zend/Types/          *)
(* Resource.php, the conversions of zend/Types/PhpStream.php and the       *)
(* functions of zend/Functions.php on top of them.                         *)
(*                                                                         *)
(* A Resource object pairs a file descriptor with a PHP resource.  Its own *)
(* table and the static $instances find it by both numbers, which share    *)
(* one range of keys.  What a conversion made is held until                *)
(* remove_fd_resource() takes it out; an object that made a stream for a   *)
(* descriptor frees that stream, and so closes it, in its destructor.      *)
(***************************************************************************)
EXTENDS Integers, FiniteSets

CONSTANTS
    Fds,            \* file descriptors
    FirstHandle,    \* the number of the program's first resource
    MaxHandles,     \* bound: resources created
    MaxObjects,     \* bound: Resource objects that are given a pair
    None            \* null

Handles == FirstHandle .. FirstHandle + MaxHandles - 1
Keys    == Fds \cup Handles
Objs    == 1 .. MaxObjects
Pair    == [fd : Fds, res : Handles]

ASSUME FdAssumption     == Fds \subseteq Nat
ASSUME HandleAssumption == FirstHandle \in Nat \ {0} /\ MaxHandles \in Nat /\ MaxObjects \in Nat
ASSUME NoneAssumption   == None \notin Nat /\ None \notin Pair

VARIABLES
    busy,           \* descriptors that are open
    created,        \* resources created so far
    stream,         \* the descriptor behind each open resource
    plain,          \* resources that are no streams
    instances,      \* Resource::$instances
    made,           \* Resource objects with a pair so far
    fd, file,       \* their properties
    owns,           \* the resource of the stream in $ze_other_ptr
    lost,           \* references that clear() took from each of them
    over,           \* the request is over
    used,           \* descriptors ever opened
    tidy,           \* what the program has not done, see SafeUse
    twice           \* a stream was freed that had been closed before

os      == <<busy, created, stream, plain>>
tables  == <<instances, made, fd, file, owns, lost>>
history == <<used, tidy, twice>>
vars    == <<os, tables, over, history>>

TypeOK ==
    /\ busy \subseteq Fds /\ used \subseteq Fds
    /\ created \in 0 .. MaxHandles /\ made \in 0 .. MaxObjects
    /\ stream \in [Handles -> Fds \cup {None}]
    /\ plain \subseteq Handles
    /\ instances \in [Keys -> Objs \cup {None}]
    /\ fd \in [Objs -> [Keys -> Pair \cup {None}]]
    /\ file \in [Objs -> Fds \cup {None}]
    /\ owns \in [Objs -> Handles \cup {None}]
    /\ lost \in [Objs -> Nat]
    /\ over \in BOOLEAN /\ tidy \in BOOLEAN /\ twice \in BOOLEAN

Init ==
    /\ busy = {} /\ created = 0 /\ made = 0 /\ plain = {}
    /\ stream = [h \in Handles |-> None]
    /\ instances = [k \in Keys |-> None]
    /\ fd = [o \in Objs |-> [k \in Keys |-> None]]
    /\ file = [o \in Objs |-> None] /\ owns = [o \in Objs |-> None]
    /\ lost = [o \in Objs |-> 0]
    /\ over = FALSE /\ used = {} /\ tidy = TRUE /\ twice = FALSE

-----------------------------------------------------------------------------
(* The tables.                                                             *)

\* is_valid(): only Resource objects are ever registered.
IsValid(k) == instances[k] # None

\* fd(), get_pair() of the object found under k.
GetPair(k) == fd[instances[k]][k]
Fd(k)      == fd[instances[k]][file[instances[k]]]

NewHandle == FirstHandle + created
NewObject == made + 1
Ends(p)   == {p.fd, p.res}

\* Mutant of Table: a key for the descriptor only.
TableOfFd(p, q) == [k \in Keys |-> IF k = q.fd THEN q ELSE IF k = p.fd THEN p ELSE None]

\* The object's table with one pair, p = q, or two.
Table(p, q) == [k \in Keys |-> IF k \in Ends(q) THEN q ELSE IF k \in Ends(p) THEN p ELSE None]

\* add_fd_pair() of a new object.  owner: the resource whose stream it holds.
AddFdPair(p, q, owner) ==
    /\ made < MaxObjects
    /\ made' = NewObject
    /\ fd' = [fd EXCEPT ![NewObject] = Table(p, q)]
    /\ file' = [file EXCEPT ![NewObject] = p.fd]
    /\ owns' = [owns EXCEPT ![NewObject] = owner]
    /\ instances' = [k \in Keys |-> IF k \in Ends(p) \cup Ends(q) THEN NewObject
                                    ELSE instances[k]]

\* What keeps an object alive: its entries in $instances, less the
\* references that clear() took away.
Entries(o) == {k \in Keys : instances[k] = o}
Freed(o)   == o <= made /\ (over \/ Cardinality(Entries(o)) <= lost[o])

\* Objects that the step destructs, and the streams they free.
Destructed == {o \in Objs : Freed(o)' /\ ~Freed(o)}
Owned      == {owns'[o] : o \in {d \in Destructed : owns'[d] # None}}

\* free() of the destructed objects; before: stream as the step leaves it else.
FreeStreams(before) ==
    /\ stream' = [h \in Handles |-> IF h \in Owned THEN None ELSE before[h]]
    /\ busy' = busy \ {before[h] : h \in Owned}
    /\ twice' = (twice \/ \E h \in Owned : before[h] = None)

-----------------------------------------------------------------------------
(* The program and the system.                                             *)

\* fopen() and the like: any descriptor that is not in use.
Open(f) ==
    /\ ~over /\ created < MaxHandles /\ f \notin busy
    /\ created' = created + 1
    /\ stream' = [stream EXCEPT ![NewHandle] = f]
    /\ busy' = busy \cup {f} /\ used' = used \cup {f}
    /\ UNCHANGED <<plain, tables, over, tidy, twice>>

\* A C library opens a descriptor.
OpenNative(f) ==
    /\ ~over /\ f \notin busy
    /\ busy' = busy \cup {f} /\ used' = used \cup {f}
    /\ UNCHANGED <<created, stream, plain, tables, over, tidy, twice>>

\* fclose().  The number of a closed resource stays what it was.
Close(h) ==
    /\ ~over /\ stream[h] # None /\ h \notin plain
    /\ stream' = [stream EXCEPT ![h] = None]
    /\ busy' = busy \ {stream[h]}
    /\ tidy' = (tidy /\ ~IsValid(h) /\ ~IsValid(stream[h]))
    /\ UNCHANGED <<created, plain, tables, over, used, twice>>

-----------------------------------------------------------------------------
(* The functions of the library.                                           *)

\* get_fd_resource(), get_socket_fd() and zval_to_fd_pair() of a resource: it
\* is registered with its stream's descriptor, unless its number is valid.
ZvalToFd(h) ==
    LET p == [fd |-> stream[h], res |-> h] IN
    /\ ~over /\ stream[h] # None /\ h \notin plain /\ ~IsValid(h)
    /\ AddFdPair(p, p, None)
    /\ tidy' = (tidy /\ ~IsValid(stream[h]))
    /\ UNCHANGED <<created, plain, lost, over, used>>
    /\ FreeStreams(stream)

\* A new resource h is registered under f.
Register(f, owner) ==
    LET p == [fd |-> f, res |-> NewHandle] IN
    /\ created < MaxHandles
    /\ created' = created + 1
    /\ AddFdPair(p, p, owner)
    /\ UNCHANGED <<lost, over, used>>
    /\ FreeStreams([stream EXCEPT ![NewHandle] = f])

\* Mutant of Known: a stream is made at every call.
KnownNever(f) == FALSE

\* fd_to_zval() answers with the resource it has.
Known(f) == IsValid(f) /\ GetPair(f) # None

\* get_resource_fd(), create_resource_fd(): or else makes a stream on f.
FdToZval(f) ==
    /\ ~over /\ f \in busy /\ ~Known(f)
    /\ Register(f, NewHandle)
    /\ plain' = plain
    /\ tidy' = (tidy /\ (IsValid(f) \/ \A h \in Handles \ plain : stream[h] # f))

\* create_resource_object() does not ask.
CreateResourceObject(f) ==
    /\ ~over /\ f \in busy
    /\ Register(f, None)
    /\ plain' = plain \cup {NewHandle}
    /\ tidy' = (tidy /\ ~IsValid(f))

\* The program pairs two streams in one object itself.
AddFdPairs(g, h) ==
    /\ ~over /\ g # h /\ \A k \in {g, h} : stream[k] # None /\ k \notin plain
    /\ AddFdPair([fd |-> stream[g], res |-> g], [fd |-> stream[h], res |-> h], None)
    /\ tidy' = FALSE
    /\ UNCHANGED <<created, plain, lost, over, used>>
    /\ FreeStreams(stream)

\* Mutant of Cleared: the static table keeps the descriptor.
ClearedRes(p) == [instances EXCEPT ![p.res] = None]

\* clear(), the static table.
Cleared(p) == [k \in Keys |-> IF k \in Ends(p) THEN None ELSE instances[k]]

\* Mutant of ClearedTable: only the number given is forgotten.
ClearedTableKey(o, k) == [fd[o] EXCEPT ![k] = None]

\* clear(), the object's own table.
ClearedTable(o, k) == [l \in Keys |-> IF l \in Ends(fd[o][k]) THEN None ELSE fd[o][l]]

\* The object that clear() takes a reference from when the table is empty:
\* what the static table has for the resource, after the descriptor's entry
\* was set to null.
Released(p) == IF p.fd = p.res THEN None ELSE instances[p.res]

\* remove_fd_resource() of a descriptor or of a resource's number.  The object of
\* add_object(), from which clear() takes a reference as well, is left out, and
\* so are the local variables of clear(): what goes, goes at the end of it.
RemoveFd(k) ==
    LET o == instances[k]
        p == GetPair(k)
    IN
    /\ ~over /\ k > 0 /\ IsValid(k) /\ p # None
    /\ fd' = [fd EXCEPT ![o] = ClearedTable(o, k)]
    /\ instances' = Cleared(p)
    /\ lost' = IF fd'[o] = [l \in Keys |-> None] /\ Released(p) # None
               THEN [lost EXCEPT ![Released(p)] = @ + 1] ELSE lost
    /\ UNCHANGED <<created, plain, made, file, owns, over, used, tidy>>
    /\ FreeStreams(stream)

\* The request ends: the destructors of all objects are called.
End ==
    /\ ~over /\ over' = TRUE
    /\ UNCHANGED <<created, plain, tables, used, tidy>>
    /\ FreeStreams(stream)

Terminated == over /\ UNCHANGED vars

Next ==
    \/ \E f \in Fds : Open(f) \/ OpenNative(f) \/ FdToZval(f) \/ CreateResourceObject(f)
    \/ \E h \in Handles : Close(h) \/ ZvalToFd(h) \/ \E g \in Handles : AddFdPairs(g, h)
    \/ \E k \in Keys : RemoveFd(k)
    \/ End \/ Terminated

Spec == Init /\ [][Next]_vars

-----------------------------------------------------------------------------
(* Properties.                                                             *)

\* Whatever the program does, a number that is valid leads to an object that
\* knows it: get_fd() never answers a pair with null.
LookupsAnswer == \A k \in Keys : IsValid(k) => GetPair(k) # None

\* Programs that use one object for each pair, add no second resource for a
\* descriptor that is registered or is that of a stream they have, take a pair
\* out before they close either end of it, and whose descriptors do not have
\* the numbers of resources.
SafeUse == tidy /\ used \cap FirstHandle .. FirstHandle + created - 1 = {}

\* Both tables then agree: a pair is found by both of its numbers or by
\* neither, and no object knows a number that leads elsewhere.
BothEnds ==
    SafeUse =>
        \A o \in Objs, k \in Keys :
            fd[o][k] # None => \A e \in Ends(fd[o][k]) : instances[e] = o /\ fd[o][e] = fd[o][k]

\* And the answers are right: the descriptor of a registered resource is that
\* of its stream, fd() gives the same, and it is open.
RightAnswers ==
    (SafeUse /\ ~over) =>
        \A k \in Keys : IsValid(k) =>
            /\ k \in Ends(GetPair(k))
            /\ Fd(k) = GetPair(k)
            /\ stream[GetPair(k).res] = GetPair(k).fd
            /\ GetPair(k).fd \in busy

\* An object that can be found is alive, and no stream is freed that was
\* closed before.
NothingFreedTwice ==
    SafeUse => ~twice /\ (~over => \A k \in Keys : IsValid(k) => ~Freed(instances[k]))

-----------------------------------------------------------------------------
(* What makes these properties invariant.                                  *)

\* An object knows a pair by the numbers of the pair, which the program has
\* opened and the engine has given out.
PairsKnown ==
    \A o \in Objs, k \in Keys : fd[o][k] # None =>
        /\ o <= made /\ k \in Ends(fd[o][k])
        /\ fd[o][k].fd \in used
        /\ fd[o][k].res < NewHandle

\* Streams are behind resources and on descriptors that exist.
StreamsKnown ==
    /\ busy \subseteq used
    /\ \A h \in Handles : stream[h] # None => h < NewHandle /\ stream[h] \in used

\* Objects without a pair yet hold nothing, the others own streams at most.
OwnersKnown ==
    /\ \A h \in plain : h < NewHandle
    /\ \A o \in Objs : owns[o] # None => owns[o] < NewHandle /\ owns[o] \notin plain
    /\ \A o \in Objs : o > made => owns[o] = None /\ lost[o] = 0

\* Every open stream has a descriptor to itself.
StreamsApart ==
    (SafeUse /\ ~over) =>
        \A h \in Handles \ plain : stream[h] # None =>
            /\ stream[h] \in busy
            /\ \A g \in Handles \ plain : stream[g] = stream[h] => g = h

\* An object has one pair, that of its file, whose stream is open and is the
\* only one that it may own.
OnePair ==
    (SafeUse /\ ~over) =>
        \A o \in Objs, k \in Keys : fd[o][k] # None =>
            /\ lost[o] = 0
            /\ file[o] = fd[o][k].fd
            /\ owns[o] \in {None, fd[o][k].res}
            /\ stream[fd[o][k].res] = fd[o][k].fd
            /\ fd[o][k].fd \in busy

-----------------------------------------------------------------------------
(* What the documentation says and the code does not do.                   *)

\* get_fd_resource(): "Return int of file descriptor from a resource".
FdOfResource ==
    (\A o \in Objs : Cardinality({fd[o][k] : k \in Keys} \ {None}) <= 1) =>
        \A h \in Handles \ plain :
            (stream[h] # None /\ IsValid(h)) => Fd(h).fd = stream[h]
=============================================================================
