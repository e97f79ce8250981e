---------------------------- MODULE ClassParts ----------------------------
(* What the operations of ZendClassEntry that take a class apart promise,  *)
(* without arrays, counts, buckets and memory: a class has a parent, sets  *)
(* of interfaces and traits, and for each method name the class that       *)
(* declares the method.                                                    *)
EXTENDS Functions

CONSTANTS Class,          \* the class itself
          Null,
          Interfaces,     \* those the engine knows
          Parents,        \* classes it may extend
          Ancestors,      \* the ancestors of each
          InterfacesOf,   \* the interfaces of each
          MethodsOf       \* the methods of each, with the classes declaring them

VARIABLES parent, interfaces, traits, methods

\* Adding takes names that are there already; it fails, and changes nothing,
\* if the engine does not know one of them.
addInterfaces(S) ==
    /\ interfaces' = IF S \subseteq Interfaces THEN interfaces \cup S ELSE interfaces
    /\ UNCHANGED <<parent, traits, methods>>

addTraits(S) ==
    /\ traits' = traits \cup S
    /\ UNCHANGED <<parent, interfaces, methods>>

\* Removing fails, and changes nothing, if one of the names is not there.
removeInterfaces(S) ==
    /\ interfaces' = IF S \subseteq interfaces THEN interfaces \ S ELSE interfaces
    /\ UNCHANGED <<parent, traits, methods>>

removeTraits(S) ==
    /\ traits' = IF S \subseteq traits THEN traits \ S ELSE traits
    /\ UNCHANGED <<parent, interfaces, methods>>

addMethod(m) ==
    /\ methods' = [k \in DOMAIN methods \cup {m} |-> IF k = m THEN Class ELSE methods[k]]
    /\ UNCHANGED <<parent, interfaces, traits>>

\* Methods are removed one by one: an unknown name ends it half-way.
removeMethods(S) ==
    /\ \E R \in SUBSET (S \cap DOMAIN methods) :
          /\ S \subseteq DOMAIN methods => R = S
          /\ methods' = Restrict(methods, DOMAIN methods \ R)
    /\ UNCHANGED <<parent, interfaces, traits>>

\* What is left of the class without its parent: its interfaces but those
\* that the parent has, too, and the methods the parent does not give it.
Remaining == IF parent = Null THEN interfaces ELSE interfaces \ InterfacesOf[parent]
Own ==
    IF parent = Null THEN methods
    ELSE Restrict(methods, {m \in DOMAIN methods :
                                methods[m] \notin {parent} \cup Ancestors[parent]})

\* All of the parent goes, or nothing: its interfaces must still be there.
removeParent ==
    /\ IF parent # Null /\ InterfacesOf[parent] \subseteq interfaces
       THEN parent' = Null /\ interfaces' = Remaining /\ methods' = Own
       ELSE UNCHANGED <<parent, interfaces, methods>>
    /\ UNCHANGED traits

\* A new parent takes the place of the old one; a class that does not exist
\* is found out when the old one is gone.
SetParent(p) ==
    /\ IF parent # Null /\ ~(InterfacesOf[parent] \subseteq interfaces)
       THEN UNCHANGED <<parent, interfaces, methods>>
       ELSE IF p \in Parents
       THEN /\ parent' = p /\ interfaces' = Remaining \cup InterfacesOf[p]
            /\ methods' = [m \in DOMAIN Own \cup DOMAIN MethodsOf[p] |->
                               IF m \in DOMAIN Own THEN Own[m] ELSE MethodsOf[p][m]]
       ELSE parent' = Null /\ interfaces' = Remaining /\ methods' = Own
    /\ UNCHANGED traits
=============================================================================
