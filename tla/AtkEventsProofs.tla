-------------------------- MODULE AtkEventsProofs --------------------------
(***************************************************************************)
(* What the user of the ATK build has heard, for any tree of objects: the  *)
(* inductive invariant of AtkEvents and what follows from it; and what the *)
(* walk up the parents finds, which the invariant does not depend on.      *)
(***************************************************************************)
EXTENDS AtkEvents, ObjectTreeProofs

\* The static variables of getCellDescription are those of the last focus.
Remembered ==
    /\ pCell = NoObject => pTableObj = NoObject /\ pRowObj = NoObject
    /\ pCell # NoObject => /\ pTableObj = Location(pCell).table
                           /\ pRowObj = Location(pCell).row

\* What is skipped as a duplicate names what was heard last.
OldLocation ==
    /\ ~unsaid /\ oldText.caption # Empty => heard.table = Location(oldObj).table
    /\ ~unsaid /\ oldText.row # Empty => heard.row = Location(oldObj).row

\* The same for the status of a check box, and what has no name has none.
OldStatus ==
    /\ said \in [CheckBoxes -> {"none", "checked", "unchecked"}]
    /\ \A k \in CheckBoxes : Name[k] = Empty => said[k] = "none"
    /\ ~unsaid /\ oldText.status \in {"checked", "unchecked"} =>
          oldObj \in CheckBoxes /\ said[oldObj] = oldText.status

\* Only check boxes owe a signal.
OwedByCheckBoxes == owed \subseteq CheckBoxes

IInv ==
    /\ Remembered
    /\ OldLocation
    /\ OldStatus
    /\ OwedByCheckBoxes
    /\ LocationIsHeard
    /\ StatusIsHeard

----------------------------------------------------------------------------
(* The texts of the events.                                                *)

\* A listener that HandleEvent does not know passes on nothing to say.
LEMMA OtherEventsSayNothing ==
    ASSUME NEW e \in OtherEvents, NEW o
    PROVE  ~IsFocus(e) /\ Text(o, e) = NoText
<1>1. e.major \notin {"state-changed", "load-complete"}
  BY DEF OtherEvents, Event, FocusTracker, PropertyEventListener, WindowEventListener,
         DocumentEventListener, BoundsEventListener, ActiveDescendantEventListener,
         LinkSelectedEventListener, TextChangedEventListener, TextInsertEventListener,
         TextRemoveEventListener, ChildrenChangedEventListener, GenericEventListener
<1> QED
  BY <1>1 DEF IsFocus, Text

\* Only a focus names a table or a row, and these are where the object is.
LEMMA TextsNameTheLocation ==
    ASSUME NEW o, NEW e
    PROVE  /\ ~IsFocus(e) \/ Role[o] # "cell" =>
                 Text(o, e).caption = Empty /\ Text(o, e).row = Empty
           /\ IsFocus(e) /\ Role[o] = "cell" =>
                 /\ Text(o, e).caption = CellDescription(o).caption
                 /\ Text(o, e).row = CellDescription(o).row
<1>1. CASE IsFocus(e)
  <2>1. Text(o, e) = FocusText(o)
    BY <1>1, SMT DEF Text, IsFocus
  <2>2. CASE Role[o] = "cell"
    <3>1. /\ FocusText(o).caption = CellDescription(o).caption
          /\ FocusText(o).row = CellDescription(o).row
      BY <2>2 DEF FocusText
    <3> QED
      BY <1>1, <2>1, <2>2, <3>1
  <2>3. CASE Role[o] # "cell"
    <3>1. FocusText(o).caption = Empty /\ FocusText(o).row = Empty
      BY <2>3 DEF FocusText
    <3> QED
      BY <1>1, <2>1, <2>3, <3>1
  <2> QED
    BY <2>2, <2>3
<1>2. CASE ~IsFocus(e)
  <2>1. Text(o, e) \in {CheckedText(o, e.d1), LoadText(o), NoText}
    BY <1>2, SMT DEF Text, IsFocus
  <2>2. /\ CheckedText(o, e.d1).caption = Empty /\ CheckedText(o, e.d1).row = Empty
        /\ LoadText(o).caption = Empty /\ LoadText(o).row = Empty
        /\ NoText.caption = Empty /\ NoText.row = Empty
    BY DEF CheckedText, LoadText, NoText
  <2> QED
    BY <1>2, <2>1, <2>2
<1> QED
  BY <1>1, <1>2

\* What is to be named is the location, unless it is what was named before.
LEMMA AnnouncedIsNew ==
    ASSUME NEW o
    PROVE  /\ CellDescription(o).caption # Empty =>
                 /\ Announced(o).table = Location(o).table
                 /\ Announced(o).table # NoObject
           /\ CellDescription(o).row # Empty =>
                 /\ Announced(o).row = Location(o).row
                 /\ Announced(o).row # NoObject
           /\ Location(o).table # NoObject /\ Caption[Location(o).table] # Empty =>
                 \/ CellDescription(o).caption # Empty
                 \/ o # pCell /\ Location(o).table = pTableObj
           /\ Location(o).row # NoObject /\ Name[Location(o).row] # Empty =>
                 \/ CellDescription(o).row # Empty
                 \/ o # pCell /\ Location(o).row = pRowObj
BY DEF CellDescription, Announced

----------------------------------------------------------------------------
(* The cell.                                                               *)

\* A focus that says nothing of the table leaves the user with the right one,
\* and so with the row.
LEMMA UnsaidIsKnown ==
    ASSUME NEW o \in Objects, Remembered, LocationIsHeard, ~silent
    PROVE  /\ /\ Location(o).table # NoObject /\ Caption[Location(o).table] # Empty
              /\ CellDescription(o).caption = Empty
              => heard.table = Location(o).table
           /\ /\ Location(o).row # NoObject /\ Name[Location(o).row] # Empty
              /\ CellDescription(o).row = Empty
              => heard.row = Location(o).row
<1>1. /\ Location(o).table # NoObject /\ Caption[Location(o).table] # Empty
      /\ CellDescription(o).caption = Empty
      => heard.table = Location(o).table
  <2> SUFFICES ASSUME Location(o).table # NoObject, Caption[Location(o).table] # Empty,
                      CellDescription(o).caption = Empty
               PROVE  heard.table = Location(o).table
    OBVIOUS
  <2>1. Location(o).table = pTableObj
    BY AnnouncedIsNew
  <2>2. pCell # NoObject /\ Location(pCell).table = pTableObj
    BY <2>1 DEF Remembered
  <2> QED
    BY <2>1, <2>2 DEF LocationIsHeard
<1>2. /\ Location(o).row # NoObject /\ Name[Location(o).row] # Empty
      /\ CellDescription(o).row = Empty
      => heard.row = Location(o).row
  <2> SUFFICES ASSUME Location(o).row # NoObject, Name[Location(o).row] # Empty,
                      CellDescription(o).row = Empty
               PROVE  heard.row = Location(o).row
    OBVIOUS
  <2>1. Location(o).row = pRowObj
    BY AnnouncedIsNew
  <2>2. pCell # NoObject /\ Location(pCell).row = pRowObj
    BY <2>1 DEF Remembered
  <2> QED
    BY <2>1, <2>2 DEF LocationIsHeard
<1> QED
  BY <1>1, <1>2

\* The cell has the focus: what is said of it, or was just before, with what is
\* known already, is where it is.
LEMMA CellStep ==
    ASSUME NEW o \in Objects, NEW e, IsFocus(e), Role[o] = "cell",
           Remembered, OldLocation, LocationIsHeard,
           IF Text(o, e) # NoText
           THEN Speak(o, e, Text(o, e))
           ELSE /\ UNCHANGED <<oldText, oldObj, heard, said, missed, unsaid>>
                /\ Locate(o, e, TRUE)
    PROVE  /\ OldLocation'
           /\ silent'
              \/ /\ Location(o).table # NoObject /\ Caption[Location(o).table] # Empty
                    => heard'.table = Location(o).table
                 /\ Location(o).row # NoObject /\ Name[Location(o).row] # Empty
                    => heard'.row = Location(o).row
<1> DEFINE text == Text(o, e)
<1>1. /\ text.caption = CellDescription(o).caption
      /\ text.row = CellDescription(o).row
  BY TextsNameTheLocation
<1>2. CASE text = NoText
  <2>1. UNCHANGED <<oldText, oldObj, heard, unsaid>> /\ (silent => silent')
    BY <1>2 DEF Locate
  <2>2. text.caption = Empty /\ text.row = Empty
    BY <1>2 DEF NoText
  <2>3. OldLocation'
    BY <2>1 DEF OldLocation, Location
  <2> QED
    BY <1>1, <2>1, <2>2, <2>3, UnsaidIsKnown
<1>3. CASE text # NoText /\ IsDuplicate(o, text)
  <2>1. /\ oldText' = text /\ oldObj' = o /\ text = oldText /\ o = oldObj
        /\ UNCHANGED <<heard, unsaid>>
        /\ silent \/ unsaid => silent'
    BY <1>3 DEF Speak, Miss, Locate, IsDuplicate
  <2>2. OldLocation'
    BY <2>1 DEF OldLocation, Location
  <2>3. CASE silent \/ unsaid
    BY <2>1, <2>2, <2>3
  <2>4. CASE ~silent /\ ~unsaid
    <3>1. /\ text.caption # Empty => heard.table = Location(o).table
          /\ text.row # Empty => heard.row = Location(o).row
      BY <2>1, <2>4 DEF OldLocation
    <3> QED
      BY <1>1, <2>1, <2>2, <2>4, <3>1, UnsaidIsKnown
  <2> QED
    BY <2>3, <2>4
<1>4. CASE text # NoText /\ ~IsDuplicate(o, text) /\ session' = "active"
  <2>1. /\ oldText' = text /\ oldObj' = o
        /\ heard' = [table |-> IF text.caption = Empty THEN heard.table ELSE Announced(o).table,
                     row |-> IF text.row = Empty THEN heard.row ELSE Announced(o).row]
        /\ silent => silent'
    BY <1>4 DEF Speak, Hear, Locate
  <2>2. /\ text.caption # Empty => heard'.table = Location(o).table
        /\ text.caption = Empty => heard'.table = heard.table
        /\ text.row # Empty => heard'.row = Location(o).row
        /\ text.row = Empty => heard'.row = heard.row
    BY <1>1, <2>1, AnnouncedIsNew
  <2>3. OldLocation'
    BY <2>1, <2>2 DEF OldLocation, Location
  <2> QED
    BY <1>1, <2>1, <2>2, <2>3, UnsaidIsKnown
<1>5. CASE text # NoText /\ ~IsDuplicate(o, text) /\ session' # "active"
  <2>1. unsaid' /\ silent'
    BY <1>5 DEF Speak, Locate
  <2> QED
    BY <2>1 DEF OldLocation
<1> QED
  BY <1>2, <1>3, <1>4, <1>5

\* Any other event: the table and the row are not named, and either a cell keeps
\* the focus or none has it.
LEMMA OtherStep ==
    ASSUME NEW o \in Objects, NEW e, ~IsFocus(e) \/ Role[o] # "cell", OldLocation,
           IF Text(o, e) # NoText
           THEN Speak(o, e, Text(o, e))
           ELSE /\ UNCHANGED <<oldText, oldObj, heard, said, missed, unsaid>>
                /\ Locate(o, e, TRUE)
    PROVE  /\ OldLocation'
           /\ ~IsFocus(e) => UNCHANGED <<heard, silent>>
<1> DEFINE text == Text(o, e)
<1>1. text.caption = Empty /\ text.row = Empty
  BY TextsNameTheLocation
<1>2. CASE text = NoText
  BY <1>2 DEF Locate, OldLocation, Location
<1>3. CASE text # NoText /\ IsDuplicate(o, text)
  <2>1. UNCHANGED <<oldText, oldObj, heard, unsaid>> /\ (~IsFocus(e) => UNCHANGED silent)
    BY <1>3 DEF Speak, Miss, Locate, IsDuplicate
  <2> QED
    BY <2>1 DEF OldLocation, Location
<1>4. CASE text # NoText /\ ~IsDuplicate(o, text) /\ session' = "active"
  <2>1. oldText' = text /\ (~IsFocus(e) => UNCHANGED <<heard, silent>>)
    BY <1>4 DEF Speak, Hear, Locate
  <2> QED
    BY <1>1, <2>1 DEF OldLocation
<1>5. CASE text # NoText /\ ~IsDuplicate(o, text) /\ session' # "active"
  <2>1. unsaid' /\ (~IsFocus(e) => UNCHANGED <<heard, silent>>)
    BY <1>5 DEF Speak, Miss, Locate
  <2> QED
    BY <2>1 DEF OldLocation
<1> QED
  BY <1>2, <1>3, <1>4, <1>5

\* HandleEvent keeps what is said of the cell, whatever the event is.
LEMMA LocationStep ==
    ASSUME NEW o \in Objects, NEW e, HandleEvent(o, e),
           Remembered, OldLocation, LocationIsHeard
    PROVE  (Remembered /\ OldLocation /\ LocationIsHeard)'
<1>1. CASE ~process \/ ~ttsEnabled
  <2>1. UNCHANGED <<cellVars, oldText, oldObj, unsaid, silent, heard>>
    BY <1>1 DEF HandleEvent, Miss
  <2> QED
    BY <2>1 DEF cellVars, Remembered, OldLocation, LocationIsHeard, Location
<1>2. CASE process /\ ttsEnabled
  <2>1. /\ IF IsFocus(e) THEN RememberCell(o) ELSE UNCHANGED cellVars
        /\ IF Text(o, e) # NoText
           THEN Speak(o, e, Text(o, e))
           ELSE /\ UNCHANGED <<oldText, oldObj, heard, said, missed, unsaid>>
                /\ Locate(o, e, TRUE)
    BY <1>2 DEF HandleEvent
  <2>2. CASE IsFocus(e) /\ Role[o] = "cell"
    <3>1. pCell' = o /\ pTableObj' = Location(o).table /\ pRowObj' = Location(o).row
      BY <2>1, <2>2 DEF RememberCell
    <3>2. Remembered'
      BY <3>1, TreeAssumption DEF Remembered, Location
    <3>3. /\ OldLocation'
          /\ silent'
             \/ /\ Location(o).table # NoObject /\ Caption[Location(o).table] # Empty
                   => heard'.table = Location(o).table
                /\ Location(o).row # NoObject /\ Name[Location(o).row] # Empty
                   => heard'.row = Location(o).row
      BY <2>1, <2>2, CellStep
    <3>4. LocationIsHeard'
      BY <3>1, <3>3 DEF LocationIsHeard, Location
    <3> QED
      BY <3>2, <3>3, <3>4
  <2>3. CASE IsFocus(e) /\ Role[o] # "cell"
    <3>1. pCell' = NoObject /\ pTableObj' = NoObject /\ pRowObj' = NoObject
      BY <2>1, <2>3 DEF RememberCell
    <3>2. OldLocation'
      BY <2>1, <2>3, OtherStep
    <3> QED
      BY <3>1, <3>2 DEF Remembered, LocationIsHeard
  <2>4. CASE ~IsFocus(e)
    <3>1. OldLocation' /\ UNCHANGED <<heard, silent>>
      BY <2>1, <2>4, OtherStep
    <3>2. UNCHANGED cellVars
      BY <2>1, <2>4
    <3> QED
      BY <3>1, <3>2 DEF cellVars, Remembered, LocationIsHeard, Location
  <2> QED
    BY <2>2, <2>3, <2>4
<1> QED
  BY <1>1, <1>2

----------------------------------------------------------------------------
(* The check boxes.                                                        *)

\* A text with a status of a check box is of a check box with a name; and of a
\* focus it is the status there is, of a change the one the signal carries.
LEMMA TextsTellTheStatus ==
    ASSUME NEW o \in Objects, NEW e, Text(o, e).status \in {"checked", "unchecked"}
    PROVE  /\ o \in CheckBoxes /\ Name[o] # Empty
           /\ Text(o, e).status = IF IsFocus(e) THEN Status(o)
                                  ELSE IF e.d1 = 1 THEN "checked" ELSE "unchecked"
<1>1. CASE IsFocus(e)
  <2>1. Text(o, e) = FocusText(o)
    BY <1>1, SMT DEF Text, IsFocus
  <2>2. FocusText(o).status = CASE Name[o] # Empty /\ Role[o] = "button" -> "button"
                                [] Name[o] # Empty /\ Role[o] = "check box" -> Status(o)
                                [] OTHER -> "none"
    BY DEF FocusText
  <2> QED
    BY <1>1, <2>1, <2>2 DEF CheckBoxes
<1>2. CASE ~IsFocus(e)
  <2>1. Text(o, e) \in {CheckedText(o, e.d1), LoadText(o), NoText}
    BY <1>2, SMT DEF Text, IsFocus
  <2>2. LoadText(o).status \in {"loaded", "none"} /\ NoText.status = "none"
    BY DEF LoadText, NoText
  <2>3. Text(o, e) = CheckedText(o, e.d1)
    BY <2>1, <2>2
  <2> QED
    BY <1>2, <2>3 DEF CheckedText, NoText, CheckBoxes
<1> QED
  BY <1>1, <1>2

\* The signal of a check box that has a name has a text, with the status.
LEMMA ChangesTellTheStatus ==
    ASSUME NEW k \in CheckBoxes, NEW e, e.major = "state-changed", e.minor = "checked",
           Name[k] # Empty
    PROVE  Text(k, e) # NoText /\ Text(k, e).status \in {"checked", "unchecked"}
<1>1. Text(k, e) = CheckedText(k, e.d1)
  BY SMT DEF Text, IsFocus
<1>2. Role[k] = "check box"
  BY DEF CheckBoxes
<1>3. CheckedText(k, e.d1).status \in {"checked", "unchecked"}
  BY <1>2 DEF CheckedText, NoText
<1> QED
  BY <1>1, <1>3 DEF NoText

\* What HandleEvent says of a check box is remembered as said; and a change that
\* is signalled is said, was said just before, is missed, or has no name to say.
LEMMA StatusSaid ==
    ASSUME NEW o \in Objects, NEW e, HandleEvent(o, e), OldStatus
    PROVE  /\ OldStatus'
           /\ \/ UNCHANGED said /\ missed \subseteq missed'
              \/ /\ o \in CheckBoxes
                 /\ Text(o, e).status \in {"checked", "unchecked"}
                 /\ said' = [said EXCEPT ![o] = Text(o, e).status]
                 /\ missed' = missed \ {o}
           /\ \/ ~(o \in CheckBoxes /\ e.minor = "checked" /\ e.major = "state-changed")
              \/ Name[o] = Empty
              \/ o \in missed'
              \/ said'[o] = Text(o, e).status
<1> DEFINE text == Text(o, e)
           change == o \in CheckBoxes /\ e.minor = "checked" /\ e.major = "state-changed"
<1>1. CASE ~process \/ ~ttsEnabled
  <2>1. Miss(o, e) /\ UNCHANGED <<oldText, oldObj, unsaid>>
    BY <1>1 DEF HandleEvent
  <2> QED
    BY <2>1 DEF Miss, OldStatus
<1>2. CASE process /\ ttsEnabled /\ text = NoText
  <2>1. UNCHANGED <<oldText, oldObj, said, missed, unsaid>>
    BY <1>2 DEF HandleEvent
  <2>2. change => Name[o] = Empty
    BY <1>2, ChangesTellTheStatus
  <2> QED
    BY <2>1, <2>2 DEF OldStatus
<1>3. CASE process /\ ttsEnabled /\ text # NoText
  <2>1. Speak(o, e, text)
    BY <1>3 DEF HandleEvent
  <2>2. CASE IsDuplicate(o, text) /\ unsaid
    <3>1. Miss(o, e) /\ UNCHANGED <<oldText, oldObj, unsaid>>
      BY <2>1, <2>2 DEF Speak, IsDuplicate
    <3> QED
      BY <3>1 DEF Miss, OldStatus
  <2>3. CASE IsDuplicate(o, text) /\ ~unsaid
    <3>1. UNCHANGED <<oldText, oldObj, said, missed, unsaid>> /\ text = oldText /\ o = oldObj
      BY <2>1, <2>3 DEF Speak, IsDuplicate
    <3>2. change /\ Name[o] # Empty => said[o] = text.status
      BY <2>3, <3>1, ChangesTellTheStatus DEF OldStatus
    <3> QED
      BY <3>1, <3>2 DEF OldStatus
  <2>4. CASE ~IsDuplicate(o, text) /\ session' = "active"
    <3>1. /\ oldText' = text /\ oldObj' = o
          /\ said' = IF text.status \in {"checked", "unchecked"}
                     THEN [said EXCEPT ![o] = text.status] ELSE said
          /\ missed' = IF text.status \in {"checked", "unchecked"}
                       THEN missed \ {o} ELSE missed
      BY <2>1, <2>4 DEF Speak, Hear
    <3>2. CASE text.status \in {"checked", "unchecked"}
      <4>1. o \in CheckBoxes /\ Name[o] # Empty
        BY <3>2, TextsTellTheStatus
      <4>2. OldStatus'
        BY <3>1, <3>2, <4>1 DEF OldStatus, CheckBoxes
      <4>3. said'[o] = text.status
        BY <3>1, <3>2, <4>1 DEF OldStatus
      <4> QED
        BY <3>1, <3>2, <4>1, <4>2, <4>3
    <3>3. CASE text.status \notin {"checked", "unchecked"}
      <4>1. UNCHANGED <<said, missed>>
        BY <3>1, <3>3
      <4>2. change => Name[o] = Empty
        BY <3>3, ChangesTellTheStatus
      <4> QED
        BY <3>1, <3>3, <4>1, <4>2 DEF OldStatus
    <3> QED
      BY <3>2, <3>3
  <2>5. CASE ~IsDuplicate(o, text) /\ session' # "active"
    <3>1. Miss(o, e) /\ unsaid'
      BY <2>1, <2>5 DEF Speak
    <3> QED
      BY <3>1 DEF Miss, OldStatus
  <2> QED
    BY <2>2, <2>3, <2>4, <2>5
<1> QED
  BY <1>1, <1>2, <1>3

\* An event that tells of no change of a check box leaves what was said right.
LEMMA StatusStep ==
    ASSUME NEW o \in Objects, NEW e, HandleEvent(o, e), UNCHANGED <<checked, owed>>,
           IsFocus(e) \/ Text(o, e).status \notin {"checked", "unchecked"},
           OldStatus, StatusIsHeard
    PROVE  StatusIsHeard'
<1>1. \/ UNCHANGED said /\ missed \subseteq missed'
      \/ /\ o \in CheckBoxes
         /\ Text(o, e).status \in {"checked", "unchecked"}
         /\ said' = [said EXCEPT ![o] = Text(o, e).status]
         /\ missed' = missed \ {o}
  BY StatusSaid
<1>2. CASE UNCHANGED said /\ missed \subseteq missed'
  BY <1>2 DEF StatusIsHeard, Status, CheckBoxes
<1>3. CASE /\ o \in CheckBoxes
           /\ Text(o, e).status \in {"checked", "unchecked"}
           /\ said' = [said EXCEPT ![o] = Text(o, e).status]
           /\ missed' = missed \ {o}
  <2>1. Text(o, e).status = Status(o)
    BY <1>3, TextsTellTheStatus
  <2>2. said'[o] = Status(o) /\ \A k \in CheckBoxes : k # o => said'[k] = said[k]
    BY <1>3, <2>1 DEF OldStatus
  <2> QED
    BY <1>3, <2>2 DEF StatusIsHeard, Status, CheckBoxes
<1> QED
  BY <1>1, <1>2, <1>3

----------------------------------------------------------------------------
(* The invariant.                                                          *)

LEMMA InvariantInit == Init => IInv
BY DEF Init, IInv, Remembered, OldLocation, OldStatus, OwedByCheckBoxes, LocationIsHeard,
       StatusIsHeard, NoText

\* A signal that is not of a check box's change.
LEMMA EventStep ==
    ASSUME IInv, NEW o \in Objects, NEW e, HandleEvent(o, e), UNCHANGED appVars,
           IsFocus(e) \/ Text(o, e).status \notin {"checked", "unchecked"}
    PROVE  IInv'
<1>1. (Remembered /\ OldLocation /\ LocationIsHeard)'
  BY LocationStep DEF IInv
<1>2. OldStatus'
  BY StatusSaid DEF IInv
<1>3. UNCHANGED <<checked, owed>>
  BY DEF appVars
<1>4. StatusIsHeard'
  BY <1>3, StatusStep DEF IInv
<1>5. OwedByCheckBoxes'
  BY <1>3 DEF IInv, OwedByCheckBoxes, CheckBoxes
<1> QED
  BY <1>1, <1>2, <1>4, <1>5 DEF IInv

LEMMA FocusedStep == IInv /\ Focused => IInv'
<1> SUFFICES ASSUME IInv, Focused
             PROVE  IInv'
  OBVIOUS
<1>a. PICK o \in Objects, value \in BOOLEAN :
         \E e \in StateEventListener("focused", value) : HandleEvent(o, e)
  BY DEF Focused
<1>1. PICK e \in StateEventListener("focused", value) : HandleEvent(o, e)
  BY <1>a
<1>2. e.major = "state-changed" /\ e.minor = "focused"
  BY <1>1 DEF StateEventListener, Event
<1>3. IsFocus(e) \/ Text(o, e) = NoText
  BY <1>2, SMT DEF Text, IsFocus
<1>4. NoText.status = "none"
  BY DEF NoText
<1>5. UNCHANGED appVars
  BY DEF Focused
<1> QED
  BY <1>1, <1>3, <1>4, <1>5, EventStep

LEMMA LoadCompleteStep == IInv /\ LoadComplete => IInv'
<1> SUFFICES ASSUME IInv, LoadComplete
             PROVE  IInv'
  OBVIOUS
<1>1. PICK o \in Objects : \E e \in DocumentEventListener("load-complete") : HandleEvent(o, e)
  BY DEF LoadComplete
<1>2. PICK e \in DocumentEventListener("load-complete") : HandleEvent(o, e)
  BY <1>1
<1>3. e.major = "load-complete"
  BY <1>2 DEF DocumentEventListener, Event
<1>4. Text(o, e) = LoadText(o)
  BY <1>3, SMT DEF Text, IsFocus
<1>5. LoadText(o).status \in {"loaded", "none"}
  BY DEF LoadText, NoText
<1>6. UNCHANGED appVars
  BY DEF LoadComplete
<1> QED
  BY <1>2, <1>4, <1>5, <1>6, EventStep

LEMMA OtherSignalStep == IInv /\ OtherSignal => IInv'
<1> SUFFICES ASSUME IInv, OtherSignal
             PROVE  IInv'
  OBVIOUS
<1>1. PICK o \in CheckBoxes, e \in OtherEvents : HandleEvent(o, e)
  BY DEF OtherSignal
<1>2. o \in Objects
  BY DEF CheckBoxes
<1>3. Text(o, e).status = "none"
  BY <1>1, OtherEventsSayNothing DEF NoText
<1>4. UNCHANGED appVars
  BY DEF OtherSignal
<1> QED
  BY <1>1, <1>2, <1>3, <1>4, EventStep

\* The box that tells of its change; the others are as they were.
LEMMA CheckedChangedStep == IInv /\ CheckedChanged => IInv'
<1> SUFFICES ASSUME IInv, CheckedChanged
             PROVE  IInv'
  OBVIOUS
<1>a. PICK k \in owed : \E e \in StateEventListener("checked", k \in checked) :
         /\ HandleEvent(k, e)
         /\ owed' = owed \ {k}
         /\ UNCHANGED <<checked, flagVars>>
  BY DEF CheckedChanged
<1>1. PICK e \in StateEventListener("checked", k \in checked) :
         /\ HandleEvent(k, e)
         /\ owed' = owed \ {k}
         /\ UNCHANGED <<checked, flagVars>>
  BY <1>a
<1>2. /\ e.major = "state-changed" /\ e.minor = "checked"
      /\ e.d1 = IF k \in checked THEN 1 ELSE 0
  BY <1>1 DEF StateEventListener, Event
<1>3. k \in CheckBoxes /\ k \in Objects
  BY <1>1 DEF IInv, OwedByCheckBoxes, CheckBoxes
<1>4. ~IsFocus(e)
  BY <1>2 DEF IsFocus
<1>5. (Remembered /\ OldLocation /\ LocationIsHeard)'
  BY <1>1, <1>3, LocationStep DEF IInv
<1>6. OldStatus'
  BY <1>1, <1>3, StatusSaid DEF IInv
<1>7. OwedByCheckBoxes'
  BY <1>1 DEF IInv, OwedByCheckBoxes, CheckBoxes
<1>8. k \notin missed' => said'[k] \in {"none", Status(k)}
  <2>1. CASE Name[k] = Empty
    BY <1>3, <1>6, <2>1 DEF OldStatus, CheckBoxes
  <2>2. CASE Name[k] # Empty
    <3>1. k \in missed' \/ said'[k] = Text(k, e).status
      BY <1>1, <1>2, <1>3, <2>2, StatusSaid DEF IInv
    <3>2. Text(k, e).status = IF e.d1 = 1 THEN "checked" ELSE "unchecked"
      BY <1>2, <1>3, <1>4, <2>2, ChangesTellTheStatus, TextsTellTheStatus
    <3> QED
      BY <1>2, <3>1, <3>2 DEF Status
  <2> QED
    BY <2>1, <2>2
<1>9. StatusIsHeard'
  <2>1. \/ UNCHANGED said /\ missed \subseteq missed'
        \/ said' = [said EXCEPT ![k] = Text(k, e).status] /\ missed' = missed \ {k}
    BY <1>1, <1>3, StatusSaid DEF IInv
  <2>2. \A j \in CheckBoxes : j # k => said'[j] = said[j] /\ (j \in missed => j \in missed')
    BY <2>1 DEF IInv, OldStatus
  <2> QED
    BY <1>1, <1>8, <2>2 DEF IInv, StatusIsHeard, Status, CheckBoxes
<1> QED
  BY <1>5, <1>6, <1>7, <1>9 DEF IInv

\* A box whose signal is due is not known yet.
LEMMA ToggleStep == IInv /\ Toggle => IInv'
<1> SUFFICES ASSUME IInv, Toggle
             PROVE  IInv'
  OBVIOUS
<1>1. PICK k \in CheckBoxes : /\ checked' = (checked \ {k}) \cup ({k} \ checked)
                              /\ owed' = owed \cup {k}
  BY DEF Toggle
<1>2. UNCHANGED <<session, cellVars, oldText, oldObj, heard, said, missed, unsaid, silent>>
  BY DEF Toggle, historyVars
<1>3. (Remembered /\ OldLocation /\ OldStatus /\ LocationIsHeard)'
  BY <1>2 DEF IInv, cellVars, Remembered, OldLocation, OldStatus, LocationIsHeard, Location,
              CheckBoxes
<1>4. OwedByCheckBoxes'
  BY <1>1 DEF IInv, OwedByCheckBoxes, CheckBoxes
<1>5. StatusIsHeard'
  BY <1>1, <1>2 DEF IInv, StatusIsHeard, Status, CheckBoxes
<1> QED
  BY <1>3, <1>4, <1>5 DEF IInv

\* The flags and the session are of no account between two events.
LEMMA FlagsStep ==
    ASSUME IInv, UNCHANGED <<appVars, cellVars, oldText, oldObj, historyVars>>
    PROVE  IInv'
BY DEF IInv, appVars, cellVars, historyVars, Remembered, OldLocation, OldStatus,
       OwedByCheckBoxes, LocationIsHeard, StatusIsHeard, Status, Location, CheckBoxes

LEMMA InvariantStep == IInv /\ [Next]_vars => IInv'
<1> SUFFICES ASSUME IInv, [Next]_vars
             PROVE  IInv'
  OBVIOUS
<1>1. CASE EnableProcessing
  BY <1>1, FlagsStep DEF EnableProcessing
<1>2. CASE OnTTSStateChanged
  BY <1>2, FlagsStep DEF OnTTSStateChanged
<1>3. CASE OnTTSServerClosed
  BY <1>3, FlagsStep DEF OnTTSServerClosed
<1>4. CASE OnTTSServerConnected
  BY <1>4, FlagsStep DEF OnTTSServerConnected
<1>5. CASE UNCHANGED vars
  BY <1>5, FlagsStep DEF vars
<1> QED
  BY <1>1, <1>2, <1>3, <1>4, <1>5, FocusedStep, CheckedChangedStep, LoadCompleteStep,
     OtherSignalStep, ToggleStep DEF Next

LEMMA InvariantHolds == Spec => []IInv
BY InvariantInit, InvariantStep, PTL DEF Spec

----------------------------------------------------------------------------

\* Who has the focus in a cell knows its table's caption and its row's name, in
\* any tree, though getCellDescription names them only when they change and
\* HandleEvent skips what it said last.
THEOREM LocationCorrect == Spec => []LocationIsHeard
<1>1. IInv => LocationIsHeard
  BY DEF IInv
<1> QED
  BY <1>1, InvariantHolds, PTL

\* What was said last of any check box is what it is, but for changes still to be
\* signalled and those that were not said.
THEOREM StatusCorrect == Spec => []StatusIsHeard
<1>1. IInv => StatusIsHeard
  BY DEF IInv
<1> QED
  BY <1>1, InvariantHolds, PTL

----------------------------------------------------------------------------
(* The walk.                                                               *)

\* The recursive definition of the walk defines something: the table and the row
\* of each object, which follow from its parent's as the walk does.
LEMMA WalkEquation ==
    Walk = [o \in Objects |->
        LET p == Parent[o]
        IN  CASE p = NoObject -> Nowhere
              [] p # NoObject /\ Role[p] = "table" -> [table |-> p, row |-> NoObject]
              [] OTHER -> [table |-> Walk[p].table,
                           row |-> IF Walk[p].row = NoObject /\ Role[p] = "row"
                                   THEN p ELSE Walk[p].row]]
<1> DEFINE Step(w, p) ==
        CASE p = NoObject -> Nowhere
          [] p # NoObject /\ Role[p] = "table" -> [table |-> p, row |-> NoObject]
          [] OTHER -> [table |-> w[p].table,
                       row |-> IF w[p].row = NoObject /\ Role[p] = "row"
                               THEN p ELSE w[p].row]
           f == [o \in Objects |-> [table |-> TableOf[o], row |-> RowOf[o]]]
<1>1. ASSUME NEW o \in Objects
      PROVE  f[o] = Step(f, Parent[o])
  <2>1. f[o] = [table |-> TableOf[o], row |-> RowOf[o]]
    OBVIOUS
  <2>2. CASE Parent[o] = NoObject
    BY <2>1, <2>2, TableStep, RowStep DEF Nowhere
  <2>3. CASE Parent[o] # NoObject /\ Role[Parent[o]] = "table"
    BY <2>1, <2>3, TableStep, RowStep
  <2>4. CASE Parent[o] # NoObject /\ Role[Parent[o]] # "table"
    <3>1. f[Parent[o]].table = TableOf[Parent[o]] /\ f[Parent[o]].row = RowOf[Parent[o]]
      BY <2>4, ParentType
    <3>2. /\ TableOf[o] = TableOf[Parent[o]]
          /\ RowOf[o] = IF RowOf[Parent[o]] = NoObject /\ Role[Parent[o]] = "row"
                        THEN Parent[o] ELSE RowOf[Parent[o]]
      BY <2>4, TableStep, RowStep
    <3> QED
      BY <2>1, <2>4, <3>1, <3>2
  <2> QED
    BY <2>2, <2>3, <2>4
<1>2. f = [o \in Objects |-> Step(f, Parent[o])]
  <2> DEFINE g == [o \in Objects |-> Step(f, Parent[o])]
  <2>1. \A o \in Objects : f[o] = g[o]
    BY <1>1
  <2> QED
    BY <2>1
<1> HIDE DEF f
<1>3. \E w : w = [o \in Objects |-> Step(w, Parent[o])]
  BY <1>2
<1>4. Walk = CHOOSE w : w = [o \in Objects |-> Step(w, Parent[o])]
  BY Zenon DEF Walk
<1>5. Walk = [o \in Objects |-> Step(Walk, Parent[o])]
  BY <1>3, <1>4, Zenon
<1> QED
  BY <1>5, Zenon

\* The loop of getCellDescription finds the nearest table and the outermost row
\* in it, whatever the tree.
LEMMA WalkIsLocation ==
    \A o \in Objects : Location(o) = [table |-> TableOf[o], row |-> RowOf[o]]
<1> DEFINE S == {o \in Objects : Walk[o] # [table |-> TableOf[o], row |-> RowOf[o]]}
<1>1. S = {}
  <2> SUFFICES ASSUME S # {}
               PROVE  FALSE
    OBVIOUS
  <2>1. PICK o \in S : Parent[o] \notin S
    BY ParentsEnd
  <2> DEFINE p == Parent[o]
  <2>2. Walk[o] = CASE p = NoObject -> Nowhere
                    [] p # NoObject /\ Role[p] = "table" -> [table |-> p, row |-> NoObject]
                    [] OTHER -> [table |-> Walk[p].table,
                                 row |-> IF Walk[p].row = NoObject /\ Role[p] = "row"
                                         THEN p ELSE Walk[p].row]
    BY <2>1, WalkEquation
  <2>3. CASE p = NoObject
    BY <2>1, <2>2, <2>3, TableStep, RowStep DEF Nowhere
  <2>4. CASE p # NoObject /\ Role[p] = "table"
    BY <2>1, <2>2, <2>4, TableStep, RowStep
  <2>5. CASE p # NoObject /\ Role[p] # "table"
    <3>1. Walk[p] = [table |-> TableOf[p], row |-> RowOf[p]]
      BY <2>1, <2>5, ParentType
    <3>2. Walk[o] = [table |-> TableOf[p],
                     row |-> IF RowOf[p] = NoObject /\ Role[p] = "row" THEN p ELSE RowOf[p]]
      BY <2>2, <2>5, <3>1
    <3> QED
      BY <2>1, <2>5, <3>2, TableStep, RowStep
  <2> QED
    BY <2>3, <2>4, <2>5
<1> QED
  BY <1>1 DEF Location

----------------------------------------------------------------------------
(* The types.                                                              *)

LEMMA NamesKnown ==
    ASSUME NEW o \in Objects
    PROVE  Name[o] \in Names /\ Caption[o] \in Names /\ Description[o] \in Names
BY DEF Names

LEMMA NoTextType == Empty \in Names /\ NoText \in Texts
<1>1. Empty \in Names
  BY DEF Names
<1> QED
  BY <1>1 DEF NoText, Texts

LEMMA AnnouncedType ==
    ASSUME NEW o \in Objects
    PROVE  /\ Location(o).table \in Objects \cup {NoObject}
           /\ Location(o).row \in Objects \cup {NoObject}
           /\ Announced(o).table \in Objects \cup {NoObject}
           /\ Announced(o).row \in Objects \cup {NoObject}
<1>1. /\ Location(o).table \in Objects \cup {NoObject}
      /\ Location(o).row \in Objects \cup {NoObject}
  BY WalkIsLocation, TableType, RowType
<1> QED
  BY <1>1 DEF Announced

LEMMA TextType ==
    ASSUME NEW o \in Objects, NEW e
    PROVE  Text(o, e) \in Texts
<1>1. Empty \in Names
  BY NoTextType
<1>2. NoText \in Texts
  BY NoTextType
<1>3. CheckedText(o, e.d1) \in Texts
  BY <1>1, NamesKnown DEF CheckedText, NoText, Texts
<1>4. LoadText(o) \in Texts
  BY <1>1, <1>2, NamesKnown DEF LoadText, NoText, Texts
<1>5. FocusText(o) \in Texts
  <2>1. CellDescription(o).caption \in Names /\ CellDescription(o).row \in Names
    BY <1>1, AnnouncedType, NamesKnown DEF CellDescription
  <2>2. FocusText(o).caption \in Names /\ FocusText(o).row \in Names
    BY <1>1, <2>1 DEF FocusText
  <2>3. FocusText(o).name \in Names /\ FocusText(o).description \in Names
    BY <1>1, NamesKnown DEF FocusText
  <2>4. FocusText(o).status \in {"none", "button", "checked", "unchecked"}
    BY DEF FocusText, Status
  <2>5. FocusText(o) = [caption |-> FocusText(o).caption, row |-> FocusText(o).row,
                        name |-> FocusText(o).name, status |-> FocusText(o).status,
                        description |-> FocusText(o).description]
    BY DEF FocusText
  <2> QED
    BY <2>2, <2>3, <2>4, <2>5 DEF Texts
<1> QED
  BY <1>2, <1>3, <1>4, <1>5, SMT DEF Text, IsFocus

\* HandleEvent keeps the type of what it writes; said is OldStatus's.
LEMMA HandleEventType ==
    ASSUME NEW o \in Objects, NEW e, HandleEvent(o, e), TypeOK
    PROVE  /\ session' \in {"none", "wanted", "active"}
           /\ {pCell', pTableObj', pRowObj', oldObj'} \subseteq Objects \cup {NoObject}
           /\ oldText' \in Texts
           /\ heard' \in [table : Objects \cup {NoObject}, row : Objects \cup {NoObject}]
           /\ missed' \subseteq CheckBoxes
           /\ unsaid' \in BOOLEAN
           /\ silent' \in BOOLEAN
<1> USE DEF TypeOK
<1>1. CASE ~process \/ ~ttsEnabled
  <2>1. /\ Miss(o, e) /\ UNCHANGED <<cellVars, oldText, oldObj, unsaid, silent>>
        /\ UNCHANGED session \/ CreateOrDestroySession
    BY <1>1 DEF HandleEvent
  <2> QED
    BY <2>1 DEF Miss, CreateOrDestroySession, cellVars
<1>2. CASE process /\ ttsEnabled
  <2>1. /\ CreateOrDestroySession
        /\ IF IsFocus(e) THEN RememberCell(o) ELSE UNCHANGED cellVars
        /\ IF Text(o, e) # NoText
           THEN Speak(o, e, Text(o, e))
           ELSE /\ UNCHANGED <<oldText, oldObj, heard, said, missed, unsaid>>
                /\ Locate(o, e, TRUE)
    BY <1>2 DEF HandleEvent
  <2>2. session' \in {"none", "wanted", "active"}
    BY <2>1 DEF CreateOrDestroySession
  <2>3. {pCell', pTableObj', pRowObj'} \subseteq Objects \cup {NoObject}
    BY <2>1, AnnouncedType DEF RememberCell, cellVars
  <2>4. CASE Text(o, e) = NoText
    BY <2>1, <2>2, <2>3, <2>4 DEF Locate
  <2>5. CASE Text(o, e) # NoText
    <3> DEFINE text == Text(o, e)
    <3>1. Speak(o, e, text)
      BY <2>1, <2>5
    <3>2. oldText' \in Texts /\ oldObj' \in Objects \cup {NoObject}
      BY <3>1, TextType DEF Speak
    <3>3. /\ heard' \in [table : Objects \cup {NoObject}, row : Objects \cup {NoObject}]
          /\ missed' \subseteq CheckBoxes
      <4>1. CASE IsDuplicate(o, text) /\ unsaid
        <5>1. Miss(o, e)
          BY <3>1, <4>1 DEF Speak
        <5> QED
          BY <5>1 DEF Miss
      <4>2. CASE IsDuplicate(o, text) /\ ~unsaid
        BY <3>1, <4>2 DEF Speak
      <4>3. CASE ~IsDuplicate(o, text) /\ session' = "active"
        <5>1. Hear(o, e, text)
          BY <3>1, <4>3 DEF Speak
        <5>2. heard' = CASE ~IsFocus(e) -> heard
                         [] IsFocus(e) /\ Role[o] # "cell" -> Nowhere
                         [] OTHER -> [table |-> IF text.caption = Empty THEN heard.table
                                                ELSE Announced(o).table,
                                      row |-> IF text.row = Empty THEN heard.row
                                              ELSE Announced(o).row]
          BY <5>1 DEF Hear
        <5>3. missed' \subseteq missed
          BY <5>1 DEF Hear
        <5>4. heard.table \in Objects \cup {NoObject} /\ heard.row \in Objects \cup {NoObject}
          OBVIOUS
        <5>5. CASE ~IsFocus(e)
          BY <5>2, <5>3, <5>5
        <5>6. CASE IsFocus(e) /\ Role[o] # "cell"
          BY <5>2, <5>3, <5>6 DEF Nowhere
        <5>7. CASE IsFocus(e) /\ Role[o] = "cell"
          BY <5>2, <5>3, <5>4, <5>7, AnnouncedType
        <5> QED
          BY <5>5, <5>6, <5>7
      <4>4. CASE ~IsDuplicate(o, text) /\ session' # "active"
        <5>1. Miss(o, e)
          BY <3>1, <4>4 DEF Speak
        <5> QED
          BY <5>1 DEF Miss
      <4> QED
        BY <4>1, <4>2, <4>3, <4>4
    <3>4. unsaid' \in BOOLEAN /\ silent' \in BOOLEAN
      <4>1. CASE IsDuplicate(o, text)
        BY <3>1, <4>1 DEF Speak, Locate
      <4>2. CASE ~IsDuplicate(o, text) /\ session' = "active"
        BY <3>1, <4>2 DEF Speak, Locate
      <4>3. CASE ~IsDuplicate(o, text) /\ session' # "active"
        BY <3>1, <4>3 DEF Speak, Locate
      <4> QED
        BY <4>1, <4>2, <4>3
    <3> QED
      BY <2>2, <2>3, <3>2, <3>3, <3>4
  <2> QED
    BY <2>4, <2>5
<1> QED
  BY <1>1, <1>2

\* An event leaves the flags alone and the check boxes, but for what they owe.
LEMMA EventType ==
    ASSUME NEW o \in Objects, NEW e, HandleEvent(o, e), TypeOK, IInv',
           UNCHANGED flagVars, checked' = checked, owed' \subseteq owed
    PROVE  TypeOK'
<1>1. said' \in [CheckBoxes -> {"none", "checked", "unchecked"}]
  BY DEF IInv, OldStatus, CheckBoxes
<1>2. /\ checked' \subseteq CheckBoxes /\ owed' \subseteq CheckBoxes
      /\ process' \in BOOLEAN /\ ttsEnabled' \in BOOLEAN
  BY DEF TypeOK, flagVars
<1>3. /\ session' \in {"none", "wanted", "active"}
      /\ {pCell', pTableObj', pRowObj', oldObj'} \subseteq Objects \cup {NoObject}
      /\ oldText' \in Texts
      /\ heard' \in [table : Objects \cup {NoObject}, row : Objects \cup {NoObject}]
      /\ missed' \subseteq CheckBoxes
      /\ unsaid' \in BOOLEAN
      /\ silent' \in BOOLEAN
  BY HandleEventType
<1> QED
  BY <1>1, <1>2, <1>3 DEF TypeOK

LEMMA TypeInit == Init => TypeOK
<1> SUFFICES ASSUME Init
             PROVE  TypeOK
  OBVIOUS
<1>1. oldText \in Texts
  BY NoTextType DEF Init
<1>2. /\ heard \in [table : Objects \cup {NoObject}, row : Objects \cup {NoObject}]
      /\ said \in [CheckBoxes -> {"none", "checked", "unchecked"}]
  BY DEF Init, Nowhere
<1>3. /\ checked \subseteq CheckBoxes /\ owed \subseteq CheckBoxes /\ missed \subseteq CheckBoxes
      /\ {pCell, pTableObj, pRowObj, oldObj} \subseteq Objects \cup {NoObject}
  BY DEF Init
<1>4. /\ process \in BOOLEAN /\ ttsEnabled \in BOOLEAN
      /\ unsaid \in BOOLEAN /\ silent \in BOOLEAN
      /\ session \in {"none", "wanted", "active"}
  BY DEF Init
<1> QED
  BY <1>1, <1>2, <1>3, <1>4 DEF TypeOK

LEMMA TypeStep == TypeOK /\ IInv /\ IInv' /\ [Next]_vars => TypeOK'
<1> SUFFICES ASSUME TypeOK, IInv, IInv', [Next]_vars
             PROVE  TypeOK'
  OBVIOUS
<1> USE DEF appVars, flagVars, cellVars, historyVars
<1>1. CASE Focused
  BY <1>1, EventType DEF Focused
<1>2. CASE CheckedChanged
  <2>1. PICK k \in owed : \E e \in StateEventListener("checked", k \in checked) :
           HandleEvent(k, e) /\ owed' = owed \ {k} /\ UNCHANGED <<checked, flagVars>>
    BY <1>2 DEF CheckedChanged
  <2>2. k \in Objects
    BY <2>1 DEF TypeOK, CheckBoxes
  <2> QED
    BY <2>1, <2>2, EventType
<1>3. CASE LoadComplete
  BY <1>3, EventType DEF LoadComplete
<1>4. CASE OtherSignal
  BY <1>4, EventType DEF OtherSignal, CheckBoxes
<1>5. CASE Toggle
  BY <1>5 DEF Toggle, TypeOK
<1>6. CASE EnableProcessing
  BY <1>6 DEF EnableProcessing, TypeOK
<1>7. CASE OnTTSStateChanged
  BY <1>7 DEF OnTTSStateChanged, TypeOK
<1>8. CASE OnTTSServerClosed
  BY <1>8 DEF OnTTSServerClosed, TypeOK
<1>9. CASE OnTTSServerConnected
  BY <1>9 DEF OnTTSServerConnected, TypeOK
<1>10. CASE UNCHANGED vars
  BY <1>10 DEF vars, TypeOK
<1> QED
  BY <1>1, <1>2, <1>3, <1>4, <1>5, <1>6, <1>7, <1>8, <1>9, <1>10 DEF Next

\* Every variable keeps its type.
THEOREM TypeCorrect == Spec => []TypeOK
BY TypeInit, TypeStep, InvariantHolds, PTL DEF Spec

\* Whatever the tree, the static variables of getCellDescription are the nearest
\* table and the outermost row in it of the cell that has the focus.
THEOREM WalkCorrect == Spec => []WalkFindsLocation
<1>1. TypeOK /\ IInv => WalkFindsLocation
  BY WalkIsLocation DEF TypeOK, IInv, Remembered, WalkFindsLocation
<1> QED
  BY <1>1, TypeCorrect, InvariantHolds, PTL
=============================================================================
