----------------------------- MODULE AtkEvents -----------------------------
(***************************************************************************)
(* The ATK build: what RDKAt's listeners make of ATK's signals and what    *)
(* HandleEvent says.                                                       *)
(*                                                                         *)
(* Everything here runs on the application's thread, a listener as a whole *)
(* when its signal is emitted.  RdkatAtk models the session, which is here *)
(* there, wanted or missing when an event is handled.                      *)
(***************************************************************************)
EXTENDS ObjectTree

VARIABLES
    \* the application
    checked,            \* the check boxes that are checked
    owed,               \* those whose signal for the last change is still due
    \* class RDKAt
    process,            \* m_process, and DISABLE_RDKAT is not set
    ttsEnabled,         \* m_ttsEnabled, or ENABLE_RDKAT_DEBUGGING is set
    session,            \* m_sessionId, m_shouldCreateSession
    \* static variables
    pCell, pTableObj, pRowObj,
    oldText, oldObj,
    \* history: what the user has heard
    heard,              \* the table and row named last
    said,               \* the status of each check box said last
    missed,             \* the check boxes of which a change was not said
    unsaid,             \* oldText was not spoken
    silent              \* the cell was not announced

appVars == <<checked, owed>>
flagVars == <<process, ttsEnabled>>
cellVars == <<pCell, pTableObj, pRowObj>>
historyVars == <<heard, said, missed, unsaid, silent>>
vars == <<appVars, flagVars, session, cellVars, oldText, oldObj, historyVars>>

CheckBoxes == {o \in Objects : Role[o] = "check box"}

NoText ==
    [caption |-> Empty, row |-> Empty, name |-> Empty, description |-> Empty,
     status |-> "none"]

Nowhere == [table |-> NoObject, row |-> NoObject]

Names == {Empty} \cup UNION {{Name[o], Caption[o], Description[o]} : o \in Objects}

Texts == [caption : Names, row : Names, name : Names,
          status : {"none", "button", "checked", "unchecked", "loaded"},
          description : Names]

Status(k) == IF k \in checked THEN "checked" ELSE "unchecked"

TypeOK ==
    /\ checked \subseteq CheckBoxes
    /\ owed \subseteq CheckBoxes
    /\ process \in BOOLEAN
    /\ ttsEnabled \in BOOLEAN
    /\ session \in {"none", "wanted", "active"}
    /\ {pCell, pTableObj, pRowObj, oldObj} \subseteq Objects \cup {NoObject}
    /\ oldText \in Texts
    /\ heard \in [table : Objects \cup {NoObject}, row : Objects \cup {NoObject}]
    /\ said \in [CheckBoxes -> {"none", "checked", "unchecked"}]
    /\ missed \subseteq CheckBoxes
    /\ unsaid \in BOOLEAN
    /\ silent \in BOOLEAN

Init ==
    /\ checked = {}
    /\ owed = {}
    /\ process = FALSE
    /\ ttsEnabled = FALSE
    /\ session = "none"
    /\ pCell = NoObject
    /\ pTableObj = NoObject
    /\ pRowObj = NoObject
    /\ oldText = NoText
    /\ oldObj = NoObject
    /\ heard = Nowhere
    /\ said = [k \in CheckBoxes |-> "none"]
    /\ missed = {}
    /\ unsaid = FALSE
    /\ silent = FALSE

----------------------------------------------------------------------------
(* The listeners: the events each passes to HandleEvent, as far as it looks *)
(* at them.  All but three name the signal, none of which HandleEvent knows *)
(* except "load-complete".                                                 *)

Event(major, minor, d1) == [major |-> major, minor |-> minor, d1 |-> d1]

FocusTracker == {Event("focus", "none", 0)}

\* A property that is NULL by now is not passed on, save some.
PropertyEventListener(property, value) ==
    IF value = "NULL" /\ property \in {"accessible-name", "accessible-description",
                            "accessible-parent", "accessible-table-summary",
                            "accessible-table-column-header", "accessible-table-row-header"}
    THEN {}
    ELSE {Event("PropertyChange", property, 0)}

StateEventListener(state, value) == {Event("state-changed", state, IF value THEN 1 ELSE 0)}

WindowEventListener(signal) == {Event(signal, "none", 0)}

DocumentEventListener(signal) == {Event(signal, "none", 0)}

BoundsEventListener(value) ==
    IF value = "boxed" THEN {Event("bounds-changed", "none", 0)} ELSE {}

ActiveDescendantEventListener(value, index) ==
    IF value = "object" THEN {Event("active-descendant-changed", "none", index)} ELSE {}

LinkSelectedEventListener(detail, d1) == {Event("link-selected", detail, d1)}

TextChangedEventListener(detail, d1) == {Event("text-changed", detail, d1)}

TextInsertEventListener(d1) == {Event("text-changed", "insert", d1)}

TextRemoveEventListener(d1) == {Event("text-changed", "delete", d1)}

ChildrenChangedEventListener(detail, index) == {Event("children-changed", detail, index)}

GenericEventListener(signal, detail, d1) == {Event(signal, detail, d1)}

\* The signals initialize adds a listener for, those that may speak apart, with
\* a few of the details and values they may come with.
OtherEvents ==
    UNION {FocusTracker,
           UNION {PropertyEventListener(p, v) :
                     p \in {"accessible-name", "accessible-role"}, v \in {"NULL", "value"}},
           UNION {WindowEventListener(s) : s \in {"create", "activate"}},
           UNION {DocumentEventListener(s) : s \in {"reload", "load-stopped"}},
           UNION {BoundsEventListener(v) : v \in {"boxed", "other"}},
           UNION {ActiveDescendantEventListener(v, 1) : v \in {"object", "other"}},
           LinkSelectedEventListener("none", 1),
           TextChangedEventListener("insert", 1),
           TextInsertEventListener(1),
           TextRemoveEventListener(1),
           UNION {ChildrenChangedEventListener(d, 1) : d \in {"add", "remove"}},
           UNION {GenericEventListener(s, "none", 1) :
                     s \in {"visible-data-changed", "row-inserted", "text-caret-moved"}}}

----------------------------------------------------------------------------
(* getCellDescription.                                                     *)

\* Mutant: the row is the innermost.
Walk_InnermostRow[o \in Objects] ==
    LET p == Parent[o]
    IN  CASE p = NoObject -> Nowhere
          [] p # NoObject /\ Role[p] = "table" -> [table |-> p, row |-> NoObject]
          [] OTHER -> [table |-> Walk_InnermostRow[p].table,
                       row |-> IF Role[p] = "row" THEN p ELSE Walk_InnermostRow[p].row]

\* Up the parents to a table; the row is the last one met.
Walk[o \in Objects] ==
    LET p == Parent[o]
    IN  CASE p = NoObject -> Nowhere
          [] p # NoObject /\ Role[p] = "table" -> [table |-> p, row |-> NoObject]
          [] OTHER -> [table |-> Walk[p].table,
                       row |-> IF Walk[p].row = NoObject /\ Role[p] = "row"
                               THEN p ELSE Walk[p].row]

Location_InnermostRow(o) == Walk_InnermostRow[o]

Location(o) == Walk[o]

\* The table and the row that are named, being new or the cell the same.
Announced(o) ==
    [table |-> IF /\ Location(o).table # NoObject
                  /\ o = pCell \/ Location(o).table # pTableObj
               THEN Location(o).table ELSE NoObject,
     row |-> IF /\ Location(o).row # NoObject
                /\ o = pCell \/ Location(o).row # pRowObj
             THEN Location(o).row ELSE NoObject]

CellDescription(o) ==
    LET a == Announced(o)
    IN  [caption |-> IF a.table = NoObject THEN Empty ELSE Caption[a.table],
         row |-> IF a.row = NoObject THEN Empty ELSE Name[a.row]]

\* Mutant: what was announced last survives a focus elsewhere.
RememberCell_NotForgotten(o) ==
    IF Role[o] = "cell"
    THEN pCell' = o /\ pTableObj' = Location(o).table /\ pRowObj' = Location(o).row
    ELSE pCell' = NoObject /\ UNCHANGED <<pTableObj, pRowObj>>

RememberCell(o) ==
    IF Role[o] = "cell"
    THEN pCell' = o /\ pTableObj' = Location(o).table /\ pRowObj' = Location(o).row
    ELSE pCell' = NoObject /\ pTableObj' = NoObject /\ pRowObj' = NoObject

----------------------------------------------------------------------------
(* HandleEvent.                                                            *)

\* What is said of an object that has the focus.  Without a name only a cell's
\* description is said.
FocusText(o) ==
    LET cell == IF Role[o] = "cell" THEN CellDescription(o)
                ELSE [caption |-> Empty, row |-> Empty]
    IN  [caption |-> cell.caption,
         row |-> cell.row,
         name |-> Name[o],
         status |-> CASE Name[o] # Empty /\ Role[o] = "button" -> "button"
                      [] Name[o] # Empty /\ Role[o] = "check box" -> Status(o)
                      [] OTHER -> "none",
         description |-> IF Empty \in {Name[o], Description[o]} \/ Name[o] = Description[o]
                         THEN Empty ELSE Description[o]]

\* Mutant: the role is said for the status.
CheckedText_RoleSaid(o, d1) ==
    [NoText EXCEPT !.name = Name[o],
                   !.status = IF Name[o] # Empty /\ Role[o] = "check box" THEN Role[o] ELSE "none"]

CheckedText(o, d1) ==
    [NoText EXCEPT !.name = Name[o],
                   !.status = IF Name[o] # Empty /\ Role[o] = "check box"
                              THEN IF d1 = 1 THEN "checked" ELSE "unchecked"
                              ELSE "none"]

LoadText(o) ==
    IF Role[o] # "document frame" /\ Name[o] # Empty
    THEN [NoText EXCEPT !.name = Name[o], !.status = "loaded"]
    ELSE NoText

IsFocus(e) == e.major = "state-changed" /\ e.minor = "focused" /\ e.d1 = 1

Text(o, e) ==
    CASE IsFocus(e) -> FocusText(o)
      [] e.major = "state-changed" /\ e.minor = "checked" -> CheckedText(o, e.d1)
      [] e.major = "load-complete" -> LoadText(o)
      [] OTHER -> NoText

\* Mutants: the object is not compared; the text is not compared.
IsDuplicate_TextOnly(o, text) == text = oldText

IsDuplicate_ObjectOnly(o, text) == o = oldObj

IsDuplicate(o, text) == text = oldText /\ o = oldObj

\* A session that is wanted is created, or refused, and wanted no more.
CreateOrDestroySession ==
    session' \in IF session = "wanted" THEN {"active", "none"} ELSE {session}

\* What the user knows after text was spoken.
Hear(o, e, text) ==
    /\ heard' = CASE ~IsFocus(e) -> heard
                  [] IsFocus(e) /\ Role[o] # "cell" -> Nowhere
                  [] OTHER -> [table |-> IF text.caption = Empty THEN heard.table
                                         ELSE Announced(o).table,
                               row |-> IF text.row = Empty THEN heard.row ELSE Announced(o).row]
    /\ said' = IF text.status \in {"checked", "unchecked"}
               THEN [said EXCEPT ![o] = text.status] ELSE said
    /\ missed' = IF text.status \in {"checked", "unchecked"} THEN missed \ {o} ELSE missed

Miss(o, e) ==
    /\ UNCHANGED <<heard, said>>
    /\ missed' = IF e.minor = "checked" THEN missed \cup ({o} \cap CheckBoxes) ELSE missed

\* Whether the user knows about the cell depends on whether it was said.
Locate(o, e, isSaid) ==
    silent' = IF IsFocus(e) THEN Role[o] = "cell" /\ (silent \/ ~isSaid) ELSE silent

\* The old text is replaced whether or not the new one was spoken.
Speak(o, e, text) ==
    /\ oldText' = text
    /\ oldObj' = o
    /\ CASE IsDuplicate(o, text) ->
              /\ IF unsaid THEN Miss(o, e) ELSE UNCHANGED <<heard, said, missed>>
              /\ UNCHANGED unsaid
              /\ Locate(o, e, ~unsaid)
         [] ~IsDuplicate(o, text) /\ session' = "active" ->
              Hear(o, e, text) /\ unsaid' = FALSE /\ Locate(o, e, TRUE)
         [] OTHER ->
              Miss(o, e) /\ unsaid' = TRUE /\ Locate(o, e, FALSE)

HandleEvent(o, e) ==
    IF ~process
    THEN Miss(o, e) /\ UNCHANGED <<session, cellVars, oldText, oldObj, unsaid, silent>>
    ELSE /\ CreateOrDestroySession
         /\ IF ~ttsEnabled
            THEN Miss(o, e) /\ UNCHANGED <<cellVars, oldText, oldObj, unsaid, silent>>
            ELSE /\ IF IsFocus(e) THEN RememberCell(o) ELSE UNCHANGED cellVars
                 /\ IF Text(o, e) # NoText
                    THEN Speak(o, e, Text(o, e))
                    ELSE /\ UNCHANGED <<oldText, oldObj, heard, said, missed, unsaid>>
                         /\ Locate(o, e, TRUE)

----------------------------------------------------------------------------
(* ATK emits its signals on the application's thread.                      *)

Focused ==
    /\ \E o \in Objects, value \in BOOLEAN : \E e \in StateEventListener("focused", value) :
          HandleEvent(o, e)
    /\ UNCHANGED <<appVars, flagVars>>

\* The signal carries the state as it is when it is emitted.
CheckedChanged ==
    \E k \in owed : \E e \in StateEventListener("checked", k \in checked) :
        /\ HandleEvent(k, e)
        /\ owed' = owed \ {k}
        /\ UNCHANGED <<checked, flagVars>>

LoadComplete ==
    /\ \E o \in Objects : \E e \in DocumentEventListener("load-complete") : HandleEvent(o, e)
    /\ UNCHANGED <<appVars, flagVars>>

\* Whatever its object is.
OtherSignal ==
    /\ \E o \in CheckBoxes, e \in OtherEvents : HandleEvent(o, e)
    /\ UNCHANGED <<appVars, flagVars>>

\* The user checks or unchecks a box.
Toggle ==
    /\ \E k \in CheckBoxes :
          /\ checked' = (checked \ {k}) \cup ({k} \ checked)
          /\ owed' = owed \cup {k}
    /\ UNCHANGED <<flagVars, session, cellVars, oldText, oldObj, historyVars>>

\* EnableProcessing and SetProcess, and what the TTS library tells.
EnableProcessing ==
    /\ process' \in BOOLEAN
    /\ session' \in IF ~process' THEN {"none"} ELSE
                    IF session = "active" THEN {"active"} ELSE {"wanted", "active", "none"}
    /\ UNCHANGED <<appVars, ttsEnabled, cellVars, oldText, oldObj, historyVars>>

OnTTSStateChanged ==
    /\ ttsEnabled' = ~ttsEnabled
    /\ UNCHANGED <<appVars, process, session, cellVars, oldText, oldObj, historyVars>>

OnTTSServerClosed ==
    /\ session' = "none"
    /\ UNCHANGED <<appVars, flagVars, cellVars, oldText, oldObj, historyVars>>

OnTTSServerConnected ==
    /\ process
    /\ session = "none"
    /\ session' = "wanted"
    /\ UNCHANGED <<appVars, flagVars, cellVars, oldText, oldObj, historyVars>>

Next ==
    \/ Focused
    \/ CheckedChanged
    \/ LoadComplete
    \/ OtherSignal
    \/ Toggle
    \/ EnableProcessing
    \/ OnTTSStateChanged
    \/ OnTTSServerClosed
    \/ OnTTSServerConnected

Spec == Init /\ [][Next]_vars

----------------------------------------------------------------------------
(* Properties.                                                             *)

\* What getCellDescription remembers of the last cell is the nearest table and
\* the outermost row in it, for cells in rows, in nested rows, in a table within
\* a table, and outside of any; and nothing of any other object.
WalkFindsLocation ==
    /\ pTableObj = IF pCell = NoObject THEN NoObject ELSE TableOf[pCell]
    /\ pRowObj = IF pCell = NoObject THEN NoObject ELSE RowOf[pCell]

\* Who has the focus in a cell knows its table's caption and its row's name,
\* though both are said only when they change: whatever was focused between,
\* with processing, TTS and the session going away and coming back
\* (getCellDescription's static variables and the skipping of duplicates in
\* HandleEvent).  An announcement without a session is lost.
LocationIsHeard ==
    pCell # NoObject /\ ~silent =>
       LET l == Location(pCell)
       IN  /\ l.table # NoObject /\ Caption[l.table] # Empty => heard.table = l.table
           /\ l.row # NoObject /\ Name[l.row] # Empty => heard.row = l.row

\* What was said last of a check box is what it is, unless its signal is due or
\* a change was not said, while equal texts in a row are skipped (HandleEvent).
StatusIsHeard ==
    \A k \in CheckBoxes \ (owed \cup missed) : said[k] \in {"none", Status(k)}
=============================================================================
