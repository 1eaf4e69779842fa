----------------------------- MODULE ObjectTree -----------------------------
(***************************************************************************)
(* A tree of accessible objects as the application shows it, and where a   *)
(* cell is in it: what a description of the cell should name.              *)
(***************************************************************************)
EXTENDS Naturals, FiniteSets

CONSTANTS
    Objects,            \* the accessible objects
    NoObject,           \* none, NULL or an empty path
    Parent,             \* each object's parent, or NoObject
    Role,               \* each object's role
    Name,               \* each object's name, or Empty
    Description,        \* each object's description, or Empty
    Caption             \* a table's caption, or Empty

\* A string without characters, for what there is none of.
Empty == ""

ASSUME TreeAssumption ==
    /\ NoObject \notin Objects
    /\ Parent \in [Objects -> Objects \cup {NoObject}]

\* The parents of an object come to an end: no set of objects goes round.
ASSUME ParentsEnd ==
    \A S \in SUBSET Objects : S # {} => \E o \in S : Parent[o] \notin S

\* The objects above o.
Ancestors[o \in Objects] ==
    IF Parent[o] = NoObject THEN {} ELSE {Parent[o]} \cup Ancestors[Parent[o]]

\* The nearest table above o, if any.
IsTableOf(t, o) ==
    /\ t \in Ancestors[o]
    /\ Role[t] = "table"
    /\ \A u \in Ancestors[o] : Role[u] = "table" => u = t \/ u \in Ancestors[t]

\* The outermost row above o and within that table.
IsRowOf(r, o) ==
    LET within(x) == /\ Role[x] = "row"
                     /\ \A t \in Ancestors[o] : IsTableOf(t, o) => t \in Ancestors[x]
    IN  /\ r \in Ancestors[o]
        /\ within(r)
        /\ \A x \in Ancestors[r] : ~within(x)

TableOf ==
    [o \in Objects |-> IF \E t \in Objects : IsTableOf(t, o)
                     THEN CHOOSE t \in Objects : IsTableOf(t, o)
                     ELSE NoObject]

RowOf ==
    [o \in Objects |-> IF \E r \in Objects : IsRowOf(r, o)
                     THEN CHOOSE r \in Objects : IsRowOf(r, o)
                     ELSE NoObject]
=============================================================================
