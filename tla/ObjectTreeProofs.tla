-------------------------- MODULE ObjectTreeProofs --------------------------
(***************************************************************************)
(* What holds of the table and the row of a cell in every tree: how those  *)
(* of an object follow from its parent's.  A walk up the parents takes     *)
(* just these steps.                                                       *)
(*                                                                         *)
(* There is no induction here: an object for which a claim fails has a     *)
(* parent for which it holds, if the failing ones are taken together and   *)
(* ParentsEnd is asked for one whose parent is not among them.             *)
(***************************************************************************)
EXTENDS ObjectTree, TLAPS

----------------------------------------------------------------------------
(* The objects above an object.                                            *)

\* The recursive definition defines something: the least set that has an
\* object's parent and the parent of each of its objects meets it.
LEMMA AncestorsEquation ==
    Ancestors = [o \in Objects |-> IF Parent[o] = NoObject THEN {}
                                   ELSE {Parent[o]} \cup Ancestors[Parent[o]]]
<1> DEFINE Closed(S) == \A x \in S : Parent[x] \in S \cup {NoObject}
           Sets(o) == {S \in SUBSET Objects : Closed(S) /\ Parent[o] \in S \cup {NoObject}}
           Above(o) == {a \in Objects : \A S \in Sets(o) : a \in S}
           f == [o \in Objects |-> Above(o)]
<1>1. ASSUME NEW o \in Objects, Parent[o] = NoObject
      PROVE  Above(o) = {}
  <2>1. {} \in Sets(o)
    BY <1>1
  <2> QED
    BY <2>1
<1>2. ASSUME NEW o \in Objects, Parent[o] # NoObject
      PROVE  Above(o) = {Parent[o]} \cup Above(Parent[o])
  <2> DEFINE p == Parent[o]
  <2>1. p \in Objects
    BY <1>2, TreeAssumption
  <2>2. {p} \cup Above(p) \subseteq Above(o)
    <3>1. \A S \in Sets(o) : p \in S /\ S \in Sets(p)
      BY <1>2, <2>1
    <3> QED
      BY <2>1, <3>1
  <2>3. {p} \cup Above(p) \in Sets(o)
    <3>1. Parent[p] # NoObject => Parent[p] \in Above(p)
      BY <2>1, TreeAssumption
    <3>2. ASSUME NEW x \in Above(p), Parent[x] # NoObject
          PROVE  Parent[x] \in Above(p)
      <4>1. \A S \in Sets(p) : Parent[x] \in S
        BY <3>2
      <4> QED
        BY <3>2, <4>1, TreeAssumption
    <3>3. Closed({p} \cup Above(p))
      BY <3>1, <3>2
    <3> QED
      BY <2>1, <3>3
  <2>4. Above(o) \subseteq {p} \cup Above(p)
    BY <2>3
  <2> QED
    BY <2>2, <2>4
<1>3. f = [o \in Objects |-> IF Parent[o] = NoObject THEN {} ELSE {Parent[o]} \cup f[Parent[o]]]
  <2> HIDE DEF Above
  <2>1. ASSUME NEW o \in Objects
        PROVE  Above(o) = IF Parent[o] = NoObject THEN {} ELSE {Parent[o]} \cup f[Parent[o]]
    BY <1>1, <1>2, TreeAssumption
  <2> QED
    BY <2>1
<1> HIDE DEF f
<1>4. \E g : g = [o \in Objects |-> IF Parent[o] = NoObject THEN {}
                                    ELSE {Parent[o]} \cup g[Parent[o]]]
  BY <1>3
<1>5. Ancestors = CHOOSE g : g = [o \in Objects |-> IF Parent[o] = NoObject THEN {}
                                                    ELSE {Parent[o]} \cup g[Parent[o]]]
  BY Zenon DEF Ancestors
<1> QED
  BY <1>4, <1>5, Zenon

\* The same for one object.
LEMMA AncestorsStep ==
    ASSUME NEW o \in Objects
    PROVE  Ancestors[o] = IF Parent[o] = NoObject THEN {}
                          ELSE {Parent[o]} \cup Ancestors[Parent[o]]
BY AncestorsEquation, Zenon

LEMMA ParentType ==
    ASSUME NEW o \in Objects, Parent[o] # NoObject
    PROVE  Parent[o] \in Objects
BY TreeAssumption

\* Only objects are above one.
LEMMA AncestorsType ==
    \A o \in Objects : Ancestors[o] \subseteq Objects
<1> DEFINE S == {o \in Objects : ~(Ancestors[o] \subseteq Objects)}
<1> SUFFICES ASSUME S # {}
             PROVE  FALSE
  OBVIOUS
<1>1. PICK o \in S : Parent[o] \notin S
  BY ParentsEnd
<1>2. CASE Parent[o] = NoObject
  BY <1>1, <1>2, AncestorsStep
<1>3. CASE Parent[o] # NoObject
  <2>1. Parent[o] \in Objects /\ Ancestors[o] = {Parent[o]} \cup Ancestors[Parent[o]]
    BY <1>1, <1>3, AncestorsStep, ParentType
  <2>2. Ancestors[Parent[o]] \subseteq Objects
    BY <1>1, <2>1
  <2> QED
    BY <1>1, <2>1, <2>2
<1> QED
  BY <1>2, <1>3

\* What is above an object above o is above o.
LEMMA AncestorsTransitive ==
    \A o \in Objects : \A a \in Ancestors[o] : Ancestors[a] \subseteq Ancestors[o]
<1> DEFINE S == {o \in Objects : \E a \in Ancestors[o] : ~(Ancestors[a] \subseteq Ancestors[o])}
<1> SUFFICES ASSUME S # {}
             PROVE  FALSE
  OBVIOUS
<1>1. PICK o \in S : Parent[o] \notin S
  BY ParentsEnd
<1>2. PICK a \in Ancestors[o] : ~(Ancestors[a] \subseteq Ancestors[o])
  BY <1>1
<1>3. Parent[o] # NoObject /\ Ancestors[o] = {Parent[o]} \cup Ancestors[Parent[o]]
  BY <1>2, AncestorsStep
<1>4. a \in Ancestors[Parent[o]] => Ancestors[a] \subseteq Ancestors[Parent[o]]
  BY <1>1, <1>3, ParentType
<1> QED
  BY <1>2, <1>3, <1>4

\* No object is above itself.
LEMMA NotOwnAncestor ==
    \A o \in Objects : o \notin Ancestors[o]
<1> DEFINE S == {o \in Objects : o \in Ancestors[o]}
<1> SUFFICES ASSUME S # {}
             PROVE  FALSE
  OBVIOUS
<1>1. PICK o \in S : Parent[o] \notin S
  BY ParentsEnd
<1>2. Parent[o] \in Objects /\ Ancestors[o] = {Parent[o]} \cup Ancestors[Parent[o]]
  BY <1>1, AncestorsStep, ParentType
<1>3. o = Parent[o] \/ o \in Ancestors[Parent[o]]
  BY <1>1, <1>2
<1>4. Parent[o] \in Ancestors[Parent[o]]
  BY <1>1, <1>2, <1>3, AncestorsTransitive
<1> QED
  BY <1>1, <1>2, <1>4

\* Those above an object are above one another.
LEMMA AncestorsChain ==
    \A o \in Objects : \A a, b \in Ancestors[o] :
        a = b \/ a \in Ancestors[b] \/ b \in Ancestors[a]
<1> DEFINE Linear(o) == \A a, b \in Ancestors[o] :
                           a = b \/ a \in Ancestors[b] \/ b \in Ancestors[a]
           S == {o \in Objects : ~Linear(o)}
<1> SUFFICES ASSUME S # {}
             PROVE  FALSE
  OBVIOUS
<1>1. PICK o \in S : Parent[o] \notin S
  BY ParentsEnd
<1>2. CASE Parent[o] = NoObject
  BY <1>1, <1>2, AncestorsStep
<1>3. CASE Parent[o] # NoObject
  <2>1. Parent[o] \in Objects /\ Ancestors[o] = {Parent[o]} \cup Ancestors[Parent[o]]
    BY <1>1, <1>3, AncestorsStep, ParentType
  <2>2. Linear(Parent[o])
    BY <1>1, <2>1
  <2>3. Linear(o)
    BY <2>1, <2>2
  <2> QED
    BY <1>1, <2>3
<1> QED
  BY <1>2, <1>3

\* Of the objects of a set one is outermost.
LEMMA OutermostExists ==
    ASSUME NEW S \in SUBSET Objects, S # {}
    PROVE  \E o \in S : Ancestors[o] \cap S = {}
<1> DEFINE T == {o \in Objects : o \in S \/ Ancestors[o] \cap S # {}}
<1>1. PICK o \in T : Parent[o] \notin T
  BY ParentsEnd
<1>2. Ancestors[o] \cap S = {}
  BY <1>1, AncestorsStep, ParentType
<1> QED
  BY <1>1, <1>2

----------------------------------------------------------------------------
(* The table.                                                              *)

\* The nearest table is one, if there is any.
LEMMA TableIsUnique ==
    ASSUME NEW o \in Objects, NEW t, IsTableOf(t, o)
    PROVE  t \in Objects /\ TableOf[o] = t
<1>1. t \in Objects
  BY AncestorsType DEF IsTableOf
<1>2. ASSUME NEW u \in Objects, IsTableOf(u, o)
      PROVE  u = t
  <2>1. /\ t \in Ancestors[o] /\ u \in Ancestors[o]
        /\ u = t \/ u \in Ancestors[t]
        /\ u = t \/ t \in Ancestors[u]
    BY <1>2 DEF IsTableOf
  <2> QED
    BY <1>1, <2>1, AncestorsTransitive, NotOwnAncestor
<1>3. (CHOOSE u \in Objects : IsTableOf(u, o)) = t
  BY <1>1, <1>2
<1> QED
  BY <1>1, <1>3 DEF TableOf

\* What is the table of an object is the nearest one above it.
LEMMA TableIsNearest ==
    ASSUME NEW o \in Objects, TableOf[o] # NoObject
    PROVE  IsTableOf(TableOf[o], o)
<1>1. PICK t \in Objects : IsTableOf(t, o)
  BY DEF TableOf
<1> QED
  BY <1>1, TableIsUnique

\* A parent that is no table passes its own table on.
LEMMA TableFromParent ==
    ASSUME NEW o \in Objects, Parent[o] # NoObject, Role[Parent[o]] # "table", NEW t
    PROVE  IsTableOf(t, o) <=> IsTableOf(t, Parent[o])
<1>1. Ancestors[o] = {Parent[o]} \cup Ancestors[Parent[o]]
  BY AncestorsStep
<1> QED
  BY <1>1 DEF IsTableOf

LEMMA TableStep ==
    ASSUME NEW o \in Objects
    PROVE  TableOf[o] = IF Parent[o] = NoObject THEN NoObject
                        ELSE IF Role[Parent[o]] = "table" THEN Parent[o]
                        ELSE TableOf[Parent[o]]
<1>1. CASE Parent[o] = NoObject
  <2>1. \A t \in Objects : ~IsTableOf(t, o)
    BY <1>1, AncestorsStep DEF IsTableOf
  <2> QED
    BY <1>1, <2>1 DEF TableOf
<1>2. CASE Parent[o] # NoObject /\ Role[Parent[o]] = "table"
  <2>1. Ancestors[o] = {Parent[o]} \cup Ancestors[Parent[o]]
    BY <1>2, AncestorsStep
  <2>2. IsTableOf(Parent[o], o)
    BY <1>2, <2>1 DEF IsTableOf
  <2> QED
    BY <1>2, <2>2, TableIsUnique
<1>3. CASE Parent[o] # NoObject /\ Role[Parent[o]] # "table"
  <2>1. \A t : IsTableOf(t, o) <=> IsTableOf(t, Parent[o])
    BY <1>3, TableFromParent
  <2>2. Parent[o] \in Objects
    BY <1>3, ParentType
  <2>3. CASE \E t \in Objects : IsTableOf(t, o)
    BY <1>3, <2>1, <2>2, <2>3, TableIsUnique
  <2>4. CASE ~ \E t \in Objects : IsTableOf(t, o)
    BY <1>3, <2>1, <2>2, <2>4 DEF TableOf
  <2> QED
    BY <2>3, <2>4
<1> QED
  BY <1>1, <1>2, <1>3

LEMMA TableType ==
    ASSUME NEW o \in Objects
    PROVE  TableOf[o] \in Objects \cup {NoObject}
BY TableIsNearest, TableIsUnique

----------------------------------------------------------------------------
(* The row.                                                                *)

\* A row of o's table.
IsRowWithin(x, o) ==
    /\ Role[x] = "row"
    /\ \A t \in Ancestors[o] : IsTableOf(t, o) => t \in Ancestors[x]

LEMMA RowIsOutermost ==
    ASSUME NEW r, NEW o
    PROVE  IsRowOf(r, o) <=> /\ r \in Ancestors[o]
                             /\ IsRowWithin(r, o)
                             /\ \A x \in Ancestors[r] : ~IsRowWithin(x, o)
BY DEF IsRowOf, IsRowWithin

LEMMA RowIsUnique ==
    ASSUME NEW o \in Objects, NEW r, IsRowOf(r, o)
    PROVE  r \in Objects /\ RowOf[o] = r
<1>1. r \in Objects
  BY AncestorsType, RowIsOutermost
<1>2. ASSUME NEW u \in Objects, IsRowOf(u, o)
      PROVE  u = r
  BY <1>2, AncestorsChain, RowIsOutermost
<1>3. (CHOOSE u \in Objects : IsRowOf(u, o)) = r
  BY <1>1, <1>2
<1> QED
  BY <1>1, <1>3 DEF RowOf

LEMMA RowIsRow ==
    ASSUME NEW o \in Objects, RowOf[o] # NoObject
    PROVE  IsRowOf(RowOf[o], o)
<1>1. PICK r \in Objects : IsRowOf(r, o)
  BY DEF RowOf
<1> QED
  BY <1>1, RowIsUnique

\* A parent that is a table has no row of its own above it.
LEMMA NoRowOfTable ==
    ASSUME NEW o \in Objects, Parent[o] # NoObject, Role[Parent[o]] = "table"
    PROVE  RowOf[o] = NoObject
<1> DEFINE p == Parent[o]
<1>1. p \in Objects /\ Ancestors[o] = {p} \cup Ancestors[p]
  BY AncestorsStep, ParentType
<1>2. IsTableOf(p, o)
  BY <1>1 DEF IsTableOf
<1>3. ASSUME NEW r \in Ancestors[o]
      PROVE  p \notin Ancestors[r]
  BY <1>1, AncestorsTransitive, NotOwnAncestor
<1>4. \A r \in Objects : ~IsRowOf(r, o)
  BY <1>1, <1>2, <1>3, RowIsOutermost DEF IsRowWithin
<1> QED
  BY <1>4 DEF RowOf

\* A parent that is no table passes its row on, or is the row.
LEMMA RowFromParent ==
    ASSUME NEW o \in Objects, Parent[o] # NoObject, Role[Parent[o]] # "table"
    PROVE  RowOf[o] = IF RowOf[Parent[o]] # NoObject THEN RowOf[Parent[o]]
                      ELSE IF Role[Parent[o]] = "row" THEN Parent[o] ELSE NoObject
<1> DEFINE p == Parent[o]
<1>1. p \in Objects /\ Ancestors[o] = {p} \cup Ancestors[p]
  BY AncestorsStep, ParentType
<1>2. \A x : IsRowWithin(x, o) <=> IsRowWithin(x, p)
  <2>1. \A t : IsTableOf(t, o) <=> IsTableOf(t, p)
    BY TableFromParent
  <2> QED
    BY <1>1, <2>1 DEF IsRowWithin, IsTableOf
<1>3. CASE RowOf[p] # NoObject
  <2>1. IsRowOf(RowOf[p], p)
    BY <1>1, <1>3, RowIsRow
  <2>2. IsRowOf(RowOf[p], o)
    BY <1>1, <1>2, <2>1, RowIsOutermost
  <2> QED
    BY <1>3, <2>2, RowIsUnique
<1>4. CASE RowOf[p] = NoObject
  <2> DEFINE S == {x \in Ancestors[p] : IsRowWithin(x, p)}
  <2>1. S = {}
    <3> SUFFICES ASSUME S # {}
                 PROVE  FALSE
      OBVIOUS
    <3>1. S \subseteq Objects
      BY <1>1, AncestorsType
    <3>2. PICK r \in S : Ancestors[r] \cap S = {}
      BY <3>1, OutermostExists
    <3>3. Ancestors[r] \subseteq Ancestors[p]
      BY <1>1, <3>2, AncestorsTransitive
    <3>4. IsRowOf(r, p)
      BY <3>2, <3>3, RowIsOutermost
    <3> QED
      BY <1>1, <1>4, <3>4, RowIsUnique, TreeAssumption
  <2>2. ASSUME NEW r, IsRowOf(r, o)
        PROVE  r = p /\ Role[p] = "row"
    BY <1>1, <1>2, <2>1, <2>2, RowIsOutermost DEF IsRowWithin
  <2>3. CASE Role[p] = "row"
    <3>1. IsRowWithin(p, o)
      BY <1>1, <2>3 DEF IsRowWithin, IsTableOf
    <3>2. IsRowOf(p, o)
      BY <1>1, <1>2, <2>1, <3>1, RowIsOutermost
    <3> QED
      BY <1>4, <2>3, <3>2, RowIsUnique
  <2>4. CASE Role[p] # "row"
    <3>1. \A r \in Objects : ~IsRowOf(r, o)
      BY <2>2, <2>4
    <3> QED
      BY <1>4, <2>4, <3>1 DEF RowOf
  <2> QED
    BY <2>3, <2>4
<1> QED
  BY <1>3, <1>4

LEMMA RowStep ==
    ASSUME NEW o \in Objects
    PROVE  RowOf[o] = IF Parent[o] = NoObject \/ Role[Parent[o]] = "table" THEN NoObject
                      ELSE IF RowOf[Parent[o]] # NoObject THEN RowOf[Parent[o]]
                      ELSE IF Role[Parent[o]] = "row" THEN Parent[o] ELSE NoObject
<1>1. CASE Parent[o] = NoObject
  <2>1. \A r \in Objects : ~IsRowOf(r, o)
    BY <1>1, AncestorsStep DEF IsRowOf
  <2> QED
    BY <1>1, <2>1 DEF RowOf
<1> QED
  BY <1>1, NoRowOfTable, RowFromParent

LEMMA RowType ==
    ASSUME NEW o \in Objects
    PROVE  RowOf[o] \in Objects \cup {NoObject}
BY RowIsRow, RowIsUnique
=============================================================================
