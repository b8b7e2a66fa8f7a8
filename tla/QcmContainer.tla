----------------------------- MODULE QcmContainer -----------------------------
(***************************************************************************)
(* qcm::Container<QVector, T> of QuickContainers, and the item model QML   *)
(* views and scripts see it through.                                       *)
(*                                                                         *)
(* The model is created the first time it is asked for, by a view.  From   *)
(* then on each change of the container is announced row by row between    *)
(* begin..() and end..(), which is all the view knows: shown is the list   *)
(* it has built from these announcements.  The view reads a row it is told *)
(* of, which connects the model to the label of the object there.  The     *)
(* model also keeps a map from object addresses to items, through which    *)
(* scripts find and remove objects held by a smart pointer.                *)
(*                                                                         *)
(* T is a pointer, a shared_ptr or a weak_ptr to an object.  An address is *)
(* not given to a new object.                                              *)
(***************************************************************************)
EXTENDS Vectors

CONSTANTS
  Object,      \* addresses of objects
  Null,        \* no object
  MaxLength    \* bound on the number of rows

ASSUME ContainerAssumption == MaxLength \in Nat /\ Null \notin Object

VARIABLES
  kind,        \* ItemDispatcher<T>::type, never changed
  content,     \* Container::_container
  alive,       \* objects that are not destroyed
  hasModel,    \* Container::_model
  mapped,      \* keys of ContainerModelImpl::_qObjectItemMap
  monitored,   \* objects whose label is connected to the model
  shown        \* the rows of a view on the model

container_vars == <<kind, content, alive, hasModel, mapped, monitored, shown>>

Kind == {"pointer", "shared_ptr", "weak_ptr"}

Held == ToSet(content)

ContainerInit ==
  /\ kind \in Kind
  /\ content = <<>>
  /\ alive = Object
  /\ hasModel = FALSE
  /\ mapped = {} /\ monitored = {}
  /\ shown = <<>>

------------------------------------------------------------------------------
(* ContainerModelImpl::indexOf(): a smart pointer is found by the map.      *)
IndexOf(o) ==
  IF kind = "pointer" \/ o \in mapped
  THEN SelectInSeq(content, LAMBDA x : x = o) - 1
  ELSE -1

(* Container::at(), with rows counted from zero: there is nothing out of its *)
(* bounds.                                                                   *)
At(i) == IF i \in 0 .. Len(content) - 1 THEN content[i + 1] ELSE Null

(* ContainerModel::at(), called by a script: an expired item has no object.  *)
ModelAt(i) == IF kind = "weak_ptr" /\ At(i) \notin alive THEN Null ELSE At(i)

(* data() of a row for ItemDataRole, whatever rows the view believes in.     *)
ItemData(row) ==
  IF row >= Len(content) \/ (kind = "weak_ptr" /\ content[row + 1] \notin alive)
  THEN Null ELSE content[row + 1]

(* data() for the label: the row of an expired item connects nothing. *)
Read(objects) == monitored \cup (objects \cap alive)

(* getModel(), createModel(): nothing of what is there already is mapped.   *)
CreateModel ==
  /\ ~hasModel
  /\ hasModel' = TRUE
  /\ shown' = content
  /\ monitored' = Read(Held)
  /\ UNCHANGED <<kind, content, alive, mapped>>

(* insert(), and append() when i is the length: before row i, counted from  *)
(* zero.  Null and expired items are refused.                               *)
InsertItem(o, i) ==
  /\ o \in alive
  /\ Len(content) < MaxLength /\ Len(shown) < MaxLength
  /\ i \in 0..Len(content)
  /\ content' = InsertAt(content, i + 1, o)
  /\ IF hasModel
     THEN /\ mapped' = mapped \cup {o}
          /\ monitored' = Read({o})
          /\ shown' = InsertAt(shown, i + 1, o)
     ELSE UNCHANGED <<mapped, monitored, shown>>
  /\ UNCHANGED <<kind, alive, hasModel>>

(* ContainerModel::append(), called by a script: a smart pointer cannot be  *)
(* made of an object.                                                       *)
ModelAppend(o) == hasModel /\ kind = "pointer" /\ InsertItem(o, Len(content))

(* Mutant of FirstRow: the row after it. *)
RowAfter(o) == 1 + SelectInSeq(content, LAMBDA x : x = o)

(* The row removal announced by removeAll(): the first one with the item.   *)
FirstRow(o) == SelectInSeq(content, LAMBDA x : x = o)

(* removeAll(): every occurrence leaves, one row is announced.  An expired  *)
(* item is refused.                                                         *)
RemoveAll(o) ==
  /\ o \in Held \cap alive
  /\ content' = Erased(content, o)
  /\ IF hasModel
     THEN /\ mapped' = mapped \ {o}
          /\ monitored' = monitored \ {o}
          /\ shown' = RemoveAt(shown, FirstRow(o))
     ELSE UNCHANGED <<mapped, monitored, shown>>
  /\ UNCHANGED <<kind, alive, hasModel>>

(* ContainerModel::remove(), called by a script. *)
ModelRemove(o) ==
  /\ hasModel
  /\ kind = "pointer" \/ o \in mapped
  /\ RemoveAll(o)

(* Mutant of Emptied: the map is kept. *)
EmptiedButMap ==
  /\ content' = <<>>
  /\ IF hasModel THEN shown' = <<>> ELSE UNCHANGED shown
  /\ UNCHANGED mapped

(* Every row goes in a reset of the model; the objects stay connected. *)
Emptied ==
  /\ content' = <<>>
  /\ IF hasModel THEN mapped' = {} /\ shown' = <<>> ELSE UNCHANGED <<mapped, shown>>

(* clear(), from C++ or by a script. *)
ClearContainer ==
  /\ Emptied
  /\ UNCHANGED <<kind, alive, hasModel, monitored>>

(* clear(true): the objects are deleted, which an object that is held twice *)
(* does not survive.                                                        *)
ClearContent ==
  /\ kind = "pointer" /\ IsInjective(content)
  /\ Emptied
  /\ alive' = alive \ Held
  /\ monitored' = monitored \ Held
  /\ UNCHANGED <<kind, hasModel>>

(* An object goes with its last owner: the items of a weak_ptr expire where *)
(* they are, a shared_ptr is an owner, and who deletes an object takes      *)
(* pointers to it out of the container first.                               *)
Destroy(o) ==
  /\ o \in alive
  /\ kind # "weak_ptr" => o \notin Held \cup mapped
  /\ alive' = alive \ {o}
  /\ monitored' = monitored \ {o}
  /\ UNCHANGED <<kind, content, hasModel, mapped, shown>>

(* itemDisplayPropertyChanged(): the view reads the row again; an object    *)
(* that has none, as the model sees it, is disconnected.                    *)
LabelChanged(o) ==
  /\ o \in monitored
  /\ monitored' = IF IndexOf(o) >= 0 THEN Read({o}) ELSE monitored \ {o}
  /\ UNCHANGED <<kind, content, alive, hasModel, mapped, shown>>

ContainerNext ==
  \/ CreateModel
  \/ \E o \in Object, i \in 0..MaxLength : InsertItem(o, i)
  \/ \E o \in Object : ModelAppend(o)
  \/ \E o \in Object : RemoveAll(o)
  \/ \E o \in Object : ModelRemove(o)
  \/ ClearContainer
  \/ ClearContent
  \/ \E o \in Object : Destroy(o)
  \/ \E o \in Object : LabelChanged(o)

ContainerSpec == ContainerInit /\ [][ContainerNext]_container_vars

------------------------------------------------------------------------------
(* The model can tell of what the container holds and of nothing else: its  *)
(* map has no address of an object that left the container, whichever side  *)
(* removed it and however often it had been inserted, and views are told    *)
(* when the label of an object the model can find changes, as long as it    *)
(* lives: always for a pointer, but for smart pointers only if it was       *)
(* inserted since the model exists.  Scripts and views, also a view with    *)
(* more rows than the container, are never handed a destroyed object, and   *)
(* one the model can find is at the index it gives.                         *)
ModelFollows ==
  /\ mapped \subseteq Held
  /\ hasModel =>
       /\ \A o \in Held \cap alive : kind = "pointer" \/ o \in mapped => o \in monitored
       /\ \A i \in 0 .. MaxLength : ModelAt(i) \in alive \cup {Null}
       /\ \A row \in 1 .. Len(shown) : ItemData(row - 1) \in alive \cup {Null}
       /\ \A o \in alive : IndexOf(o) >= 0 => ModelAt(IndexOf(o)) = o

(* Every operation keeps a view that mirrors the container mirroring it, as *)
(* long as no item is held twice; removing one that is loses the view (the  *)
(* FIXME at qcmContainer.h:335).                                            *)
StaysMirrored ==
  [][hasModel /\ shown = content /\ IsInjective(content) => shown' = content']_container_vars
==============================================================================
