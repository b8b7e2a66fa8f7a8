--------------------------- MODULE QanStyles_proofs ---------------------------
(***************************************************************************)
(* Proofs about module QanStyles, for any primitives, classes of nodes and *)
(* edges, styles and kinds of items.                                       *)
(*                                                                         *)
(* IInv is the inductive invariant.  Beside StylesListed and DelegatesLive *)
(* it says that the signals that reach an item are those of its style      *)
(* (Followed), and that two kinds of items have one delegate only if it    *)
(* was set when the graph had it already (Owned): the setters do not look, *)
(* and replacing the delegate of one kind then destroys that of the other. *)
(***************************************************************************)
EXTENDS QanStyles, TLAPS

Typed ==
  /\ items \subseteq Item
  /\ class \in [Item -> Style \cup {None}]
  /\ style \in [Item -> Style \cup {None}]
  /\ connected \in [Item -> SUBSET Style]
  /\ components \subseteq Component
  /\ delegate = [k \in Kind |-> delegate[k]]
  /\ \A k \in Kind : delegate[k] \in Component \/ (k = "port" /\ delegate[k] = None)

(* A delegate of two kinds of items was set when the graph had it already. *)
Owned == \A j, k \in Kind : j # k /\ delegate[j] = delegate[k] => delegate[j] \in reused

(* An item follows the style it has and no other. *)
Followed == \A i \in items : connected[i] = {style[i]} \ {None}

IInv == Typed /\ Followed /\ Owned /\ StylesListed /\ DelegatesLive

------------------------------------------------------------------------------
(* What the actions on items do to delegates: they doom items only, and an   *)
(* item is no delegate.                                                      *)
LEMMA ItemsAreNoDelegates ==
  ASSUME Typed, DelegatesLive, doomed' \subseteq doomed \cup Item, UNCHANGED delegateVars
  PROVE  DelegatesLive'
<1>1. SUFFICES ASSUME NEW k \in Kind, delegate[k] \in components \ doomed
               PROVE  delegate[k] \notin doomed'
  BY DEF DelegatesLive, delegateVars
<1> QED BY <1>1, DistinctAssumption DEF Typed

(* An item of class c is created with the style s, and c is listed unless   *)
(* the item is a port, which has no class.                                  *)
LEMMA CreatedStep ==
  ASSUME IInv,
         NEW i \in Item \ items, NEW c \in Style \cup {None}, NEW s \in Style,
         Created(i, c, s),
         i \in Port \/ c \in listed',
         listed \subseteq listed', listed' \subseteq known',
         UNCHANGED <<doomed, delegateVars>>
  PROVE  IInv'
<1>1. Typed'
  BY DEF IInv, Typed, Created, delegateVars
<1>2. Followed'
  BY DistinctAssumption DEF IInv, Typed, Followed, Created
<1>3. StylesListed'
  BY DEF IInv, Typed, StylesListed, Created
<1>4. DelegatesLive'
  BY ItemsAreNoDelegates DEF IInv
<1>5. Owned'
  BY DEF IInv, Owned, delegateVars
<1> QED BY <1>1, <1>2, <1>3, <1>4, <1>5 DEF IInv

(* The item i has the style s from now on. *)
LEMMA RestyleStep ==
  ASSUME IInv, NEW i \in Item, NEW s \in Style \cup {None}, Restyled(i, s)
  PROVE  IInv'
<1> USE DEF IInv, Restyled, Restyle
<1>1. Typed'
  BY DEF Typed, delegateVars
<1>2. Followed'
  BY DEF Typed, Followed
<1>3. StylesListed'
  BY DEF StylesListed, managerVars
<1>4. DelegatesLive'
  BY ItemsAreNoDelegates
<1>5. Owned'
  BY DEF Owned, delegateVars
<1> QED BY <1>1, <1>2, <1>3, <1>4, <1>5

(* The delegate of a kind becomes another one. *)
LEMMA ReplacedStep ==
  ASSUME IInv, NEW k \in Kind, NEW c \in Settable(k),
         k = "edge" \/ c # delegate[k],
         Replaced(k, c)
  PROVE  IInv'
<1> USE DEF IInv
<1>0. /\ delegate' = [delegate EXCEPT ![k] = c]
      /\ delegate'[k] = c
      /\ \A j \in Kind \ {k} : delegate'[j] = delegate[j]
  BY DEF Typed, Replaced
<1>1. Typed'
  <2>1. c \in Component \/ (k = "port" /\ c = None)
    BY DEF Typed, Settable
  <2> QED BY <1>0, <2>1 DEF Typed, Replaced, itemVars
<1>2. Followed'
  BY DEF Followed, Replaced, itemVars
<1>3. StylesListed'
  <2>1. /\ doomed \subseteq doomed'
        /\ UNCHANGED <<items, class, listed, known>>
    BY DEF Replaced, itemVars, managerVars
  <2> QED BY <2>1 DEF StylesListed
<1>4. Owned'
  <2>1. SUFFICES ASSUME NEW j \in Kind, NEW i \in Kind, j # i, delegate'[j] = delegate'[i]
                 PROVE  delegate'[j] \in reused'
    BY DEF Owned
  <2>2. CASE j # k /\ i # k
    BY <1>0, <2>1, <2>2 DEF Owned, Replaced
  <2>3. CASE j = k \/ i = k
    <3>1. \E l \in Kind \ {k} : c = delegate[l]
      BY <1>0, <2>1, <2>3
    <3>2. c \in reused'
      BY <3>1 DEF Replaced
    <3> QED BY <1>0, <2>1, <2>3, <3>2
  <2> QED BY <2>2, <2>3
<1>5. DelegatesLive'
  <2>1. SUFFICES ASSUME NEW j \in Kind, j # "edge", ~(j = "port" /\ delegate'[j] = None),
                        delegate'[j] \notin reused'
                 PROVE  delegate'[j] \in components \ doomed'
    BY DEF DelegatesLive, Replaced
  <2>2. CASE j = k
    <3>1. c \in components /\ c \notin doomed
      BY <1>0, <2>1, <2>2 DEF Replaced, Settable
    <3> QED BY <1>0, <2>1, <2>2, <3>1 DEF Replaced
  <2>3. CASE j # k
    <3>1. delegate'[j] = delegate[j] /\ delegate[j] \notin reused
      BY <1>0, <2>1, <2>3 DEF Replaced
    <3>2. delegate[j] \in components \ doomed
      BY <2>1, <3>1 DEF DelegatesLive
    <3>3. delegate[j] # delegate[k]
      BY <2>3, <3>1 DEF Owned
    <3> QED BY <3>1, <3>2, <3>3 DEF Replaced
  <2> QED BY <2>2, <2>3
<1> QED BY <1>1, <1>2, <1>3, <1>4, <1>5

(* No item loses its style because of one it does not have. *)
LEMMA NoneStripped ==
  ASSUME Followed, NEW s
  PROVE  Stripped(s) = {}
BY DEF Followed, Stripped

------------------------------------------------------------------------------
LEMMA InitIInv == Init => IInv
<1> SUFFICES ASSUME Init PROVE IInv
  OBVIOUS
<1> USE DEF Init
<1>1. Typed
  BY DEF Typed, Component
<1>2. Followed
  BY DEF Followed
<1>3. StylesListed
  BY DEF StylesListed
<1>4. DelegatesLive
  BY DEF DelegatesLive, Component
<1>5. Owned
  BY DEF Owned, Library
<1> QED BY <1>1, <1>2, <1>3, <1>4, <1>5 DEF IInv

LEMMA NextIInv == IInv /\ [Next]_vars => IInv'
<1> SUFFICES ASSUME IInv, [Next]_vars PROVE IInv'
  OBVIOUS
<1>1. ASSUME NEW n \in Node, NEW s \in {NodeDefault} \cup NodeClassStyle, NEW b \in BOOLEAN,
             InsertNode(n, s, b)
      PROVE  IInv'
  <2>1. s \in Style /\ n \in Item
    BY DEF Style, NodeStyle, Item
  <2>2. s \in listed' /\ listed \subseteq listed' /\ listed' \subseteq known'
    BY <1>1 DEF InsertNode, Register, IInv, StylesListed
  <2>3. CASE b
    BY <1>1, <2>1, <2>2, <2>3, CreatedStep DEF InsertNode
  <2>4. CASE ~b
    <3>1. UNCHANGED <<itemVars, doomed, delegateVars>>
      BY <1>1, <2>4 DEF InsertNode
    <3> QED BY <2>2, <3>1 DEF IInv, Typed, Followed, Owned, StylesListed, DelegatesLive, itemVars, delegateVars
  <2> QED BY <2>3, <2>4
<1>2. ASSUME NEW e \in Edge, NEW s \in {EdgeDefault} \cup EdgeClassStyle, NEW b \in BOOLEAN,
             InsertEdge(e, s, b)
      PROVE  IInv'
  <2>1. s \in Style /\ EdgeDefault \in Style /\ e \in Item
    BY DEF Style, EdgeStyle, Item
  <2>2. s \in listed' /\ listed \subseteq listed' /\ listed' \subseteq known'
    BY <1>2 DEF InsertEdge, Register, IInv, StylesListed
  <2>3. CASE b
    BY <1>2, <2>1, <2>2, <2>3, CreatedStep DEF InsertEdge
  <2>4. CASE ~b
    <3>1. UNCHANGED <<itemVars, doomed, delegateVars>>
      BY <1>2, <2>4 DEF InsertEdge
    <3> QED BY <2>2, <3>1 DEF IInv, Typed, Followed, Owned, StylesListed, DelegatesLive, itemVars, delegateVars
  <2> QED BY <2>3, <2>4
<1>3. ASSUME NEW g \in Group, InsertGroup(g)
      PROVE  IInv'
  <2>1. GroupDefault \in Style /\ g \in Item
    BY DEF Style, NodeStyle, Item
  <2>2. GroupDefault \in listed' /\ listed \subseteq listed' /\ listed' \subseteq known'
    BY <1>3 DEF InsertGroup, Register, IInv, StylesListed
  <2> QED BY <1>3, <2>1, <2>2, CreatedStep DEF InsertGroup
<1>4. ASSUME NEW p \in Port, NEW n \in Node, InsertPort(p, n)
      PROVE  IInv'
  <2>1. p \in Item /\ style[n] \in Style
    BY <1>4 DEF InsertPort, IInv, Typed, Item
  <2>2. listed' \subseteq known'
    BY <1>4 DEF InsertPort, IInv, StylesListed, managerVars
  <2> QED BY <1>4, <2>1, <2>2, CreatedStep DEF InsertPort, managerVars
<1>5. ASSUME NEW i \in Item, Remove(i)
      PROVE  IInv'
  <2>1. DelegatesLive'
    BY <1>5, ItemsAreNoDelegates DEF IInv, Remove
  <2> QED BY <1>5, <2>1 DEF IInv, Typed, Followed, Owned, StylesListed, Remove, itemVars, managerVars, delegateVars
<1>6. ASSUME NEW i \in Item, DeleteLater(i)
      PROVE  IInv'
  <2>1. DelegatesLive'
    BY <1>6, ItemsAreNoDelegates DEF IInv, DeleteLater
  <2>2. Typed'
    BY <1>6 DEF IInv, Typed, DeleteLater, delegateVars
  <2>3. Followed' /\ Owned' /\ StylesListed'
    BY <1>6 DEF IInv, Typed, Followed, Owned, StylesListed, DeleteLater, managerVars, delegateVars
  <2> QED BY <2>1, <2>2, <2>3 DEF IInv
<1>7. CASE Clear
  <2>1. DelegatesLive'
    BY <1>7, ItemsAreNoDelegates DEF IInv, Typed, Clear
  <2>2. Typed' /\ Followed' /\ Owned' /\ StylesListed'
    BY <1>7 DEF IInv, Typed, Followed, Owned, StylesListed, Clear, itemVars, delegateVars
  <2> QED BY <2>1, <2>2 DEF IInv
<1>8. ASSUME NEW i \in Item, NEW s \in Style \cup {None}, Restyled(i, s)
      PROVE  IInv'
  BY <1>8, RestyleStep
<1>9. ASSUME NEW s \in ClientNodeStyle \cup ClientEdgeStyle, DestroyStyle(s)
      PROVE  IInv'
  <2>1. Stripped(s) = {}
    BY NoneStripped DEF IInv
  <2>2. DelegatesLive'
    BY <1>9, ItemsAreNoDelegates DEF IInv, DestroyStyle
  <2>3. Typed'
    BY <1>9, <2>1 DEF IInv, Typed, DestroyStyle, delegateVars
  <2>4. Followed'
    BY <1>9, <2>1 DEF IInv, Typed, Followed, DestroyStyle
  <2>5. StylesListed'
    BY <1>9 DEF IInv, StylesListed, DestroyStyle, managerVars
  <2>6. Owned'
    BY <1>9 DEF IInv, Owned, DestroyStyle, delegateVars
  <2> QED BY <2>2, <2>3, <2>4, <2>5, <2>6 DEF IInv
<1>10. ASSUME NEW k \in Kind, NEW c, SetDelegate(k, c)
       PROVE  IInv'
  BY <1>10, ReplacedStep DEF SetDelegate
<1>11. ASSUME NEW c, SetEdgeDelegate(c)
       PROVE  IInv'
  BY <1>11, ReplacedStep, StylesAssumption DEF SetEdgeDelegate
<1>12. ASSUME NEW c \in components, DeleteDelegate(c)
       PROVE  IInv'
  <2>1. DelegatesLive'
    BY <1>12 DEF IInv, DelegatesLive, DeleteDelegate
  <2>2. Typed'
    BY <1>12 DEF IInv, Typed, DeleteDelegate, itemVars
  <2>3. Followed'
    BY <1>12 DEF IInv, Followed, DeleteDelegate, itemVars
  <2>4. StylesListed'
    BY <1>12, DistinctAssumption DEF IInv, Typed, StylesListed, DeleteDelegate, itemVars, managerVars
  <2>5. Owned'
    BY <1>12 DEF IInv, Owned, DeleteDelegate
  <2> QED BY <2>1, <2>2, <2>3, <2>4, <2>5 DEF IInv
<1>13. CASE UNCHANGED vars
  BY <1>13 DEF IInv, Typed, Followed, Owned, StylesListed, DelegatesLive, vars, itemVars, managerVars, delegateVars
<1>14. ASSUME NEW i \in Item, NEW s,
              SetStyle(i, s) \/ DropNodeStyle(i, s) \/ SetEdgeStyle(i, s) \/ DropStyle(i, s)
       PROVE  s \in Style \cup {None} /\ Restyled(i, s)
  BY <1>14 DEF SetStyle, DropNodeStyle, SetEdgeStyle, DropStyle, Style
<1>15. Node \subseteq Item /\ Port \subseteq Item /\ Edge \subseteq Item /\ Group \subseteq Item
  BY DEF Item
<1>16. ASSUME NEW i \in Node \cup Port, NEW s \in NodeStyle \cup {None}, SetStyle(i, s) \/ DropNodeStyle(i, s)
       PROVE  IInv'
  BY <1>8, <1>14, <1>15, <1>16
<1>17. ASSUME NEW e \in Edge, NEW s, SetEdgeStyle(e, s) \/ DropStyle(e, s)
       PROVE  IInv'
  BY <1>8, <1>14, <1>15, <1>17
<1>18. ASSUME NEW g \in Group, NEW s \in Style \cup {None}, SetGroupStyle(g, s) \/ DropGroupStyle(g, s)
       PROVE  IInv'
  BY <1>8, <1>15, <1>18 DEF SetGroupStyle, DropGroupStyle
<1> QED BY <1>1, <1>2, <1>3, <1>4, <1>5, <1>6, <1>7, <1>9, <1>10, <1>11, <1>12, <1>13,
           <1>16, <1>17, <1>18 DEF Next

------------------------------------------------------------------------------
LEMMA Invariance == Spec => []IInv
BY InitIInv, NextIInv, PTL DEF Spec

(* The style of the class of each node, edge and group of the graph is listed *)
(* with a component, however often the graph was cleared (insertNode(),       *)
(* configureEdge(), StyleManager::setStyleComponent()).                       *)
THEOREM ClassStylesListed == Spec => []StylesListed
<1>1. IInv => StylesListed
  BY DEF IInv
<1> QED BY Invariance, <1>1, PTL

(* A delegate is destroyed while the graph makes items with it only if it is  *)
(* that of edges, or was set while the graph had it already or had just given *)
(* it up, for any kinds of items and any number of changes of delegates       *)
(* (setNodeDelegate(), qmlSetPortDelegate()...).                              *)
THEOREM DelegatesSurvive == Spec => []DelegatesLive
<1>1. IInv => DelegatesLive
  BY DEF IInv
<1> QED BY Invariance, <1>1, PTL

(* A style that is destroyed disappears from the items that have it and from  *)
(* no other, whatever styles those had before (setStyle(), styleDestroyed()). *)
THEOREM DestructionLocal == Spec => DestructionIsLocal
<1>1. ASSUME IInv, [Next]_vars, NEW s \in alive \ alive', NEW i \in items
      PROVE  style'[i] = IF style[i] = s THEN None ELSE style[i]
  <2>1. PICK t \in ClientNodeStyle \cup ClientEdgeStyle : DestroyStyle(t)
    BY <1>1 DEF Next, vars, InsertNode, InsertEdge, InsertGroup, InsertPort, Remove, DeleteLater,
                Clear, SetStyle, SetEdgeStyle, DropStyle, SetGroupStyle, DropNodeStyle,
                DropGroupStyle, Restyled, SetDelegate, SetEdgeDelegate, Replaced, DeleteDelegate
  <2>2. s = t
    BY <1>1, <2>1 DEF DestroyStyle
  <2>3. Stripped(t) = {}
    BY <1>1, NoneStripped DEF IInv
  <2>4. i \in Item
    BY <1>1 DEF IInv, Typed
  <2> QED BY <2>1, <2>2, <2>3, <2>4 DEF DestroyStyle
<1>2. IInv /\ [Next]_vars =>
        [\A s \in alive \ alive' : \A i \in items :
           style'[i] = IF style[i] = s THEN None ELSE style[i]]_vars
  BY <1>1
<1> QED BY Invariance, <1>2, PTL DEF Spec, DestructionIsLocal
===============================================================================
