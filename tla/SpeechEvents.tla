---------------------------- MODULE SpeechEvents ----------------------------
(***************************************************************************)
(* From an AT-SPI2 event to speech: the two event handlers of              *)
(* CScreenReader and the CAtspiAccessibleObject they ask.                  *)
(*                                                                         *)
(* Both run on the worker.  A property of an object is asked of its client *)
(* in a synchronous D-Bus call, so that a handler is a sequence of steps,  *)
(* each of which the client answers or which fails (an error, a closed     *)
(* connection, the timeout), while the clients go on.  Every client shows  *)
(* the same tree, under the same paths.                                    *)
(***************************************************************************)
EXTENDS ObjectTree, Sequences

CONSTANTS
    Clients,
    NoClient,
    QueueBound          \* sources waiting at most when a client adds one

ASSUME QueueBoundNatural == QueueBound \in Nat

ASSUME NoClientIsNone == NoClient \notin Clients

VARIABLES
    checked,            \* each client's check boxes that are checked
    queue,              \* the worker's context: the sources the clients attach
    enabled,            \* m_enabled: the listeners are registered
    at,                 \* where the worker is
    local,              \* the variables of the handler it is in
    savedLocation,      \* getCellDescription's static variables
    savedText, savedPath, \* m_saved_text, m_saved_object_path
    \* history
    locationBy,         \* the client that savedLocation was announced for, or NoClient
    textBy,             \* the client that savedText was spoken for, or NoClient
    heard,              \* the table and row named last, with their client
    said                \* the status of each check box said last, "none" if a
                        \* change was not said since

savedVars == <<savedLocation, savedText, savedPath>>
historyVars == <<locationBy, textBy, heard, said>>
vars == <<checked, queue, enabled, at, local, savedVars, historyVars>>

CheckBoxes == {o \in Objects : Role[o] = "check box"}

Boxes == Clients \X CheckBoxes

Documents == {o \in Objects : Role[o] \in {"document frame", "document web"}}

Focusable == {o \in Objects : Role[o] \in {"cell", "check box", "button"}}

NoText ==
    [caption |-> Empty, row |-> Empty, name |-> Empty, description |-> Empty,
     status |-> "none"]

Nowhere == [cell |-> NoObject, table |-> NoObject, row |-> NoObject]

NothingHeard == [table |-> <<NoClient, NoObject>>, row |-> <<NoClient, NoObject>>]

Status(c, k) == IF k \in checked[c] THEN "checked" ELSE "unchecked"

Signals ==
    [client : Clients, path : Objects, kind : {"focused", "checked", "load"}, data : {0, 1}]

Calls == [client : Clients, kind : {"call"}]

\* A signal whose subscription is gone.
Dead == [kind |-> "dead"]

\* A source: a signal, or a call of the client's own that it waits for.
Sources == Signals \cup Calls \cup {Dead}

Paths == Objects \cup {NoObject}

Names == {Empty} \cup UNION {{Name[o], Caption[o], Description[o]} : o \in Objects}

Texts == [caption : Names, row : Names, name : Names, description : Names,
          status : {"none", "button", "checked", "unchecked"}]

NoEvent == [client |-> NoClient, path |-> NoObject, kind |-> "none", data |-> 0]

Idle == [event |-> NoEvent, text |-> NoText, cursor |-> NoObject, row |-> NoObject,
         isLocated |-> FALSE, lost |-> {}]

Locals == [event : Signals \cup {NoEvent}, text : Texts, cursor : Paths, row : Paths,
           isLocated : BOOLEAN, lost : SUBSET {"status", "location"}]

TypeOK ==
    /\ checked \in [Clients -> SUBSET CheckBoxes]
    /\ queue \in Seq(Sources)
    /\ enabled \in BOOLEAN
    /\ at \in {"idle", "name", "description", "role name", "states", "role", "parent",
               "parent role", "caption", "caption name", "row name", "say"}
    /\ local \in Locals
    /\ savedLocation \in [cell : Paths, table : Paths, row : Paths]
    /\ savedText \in Texts
    /\ savedPath \in Paths
    /\ {locationBy, textBy} \subseteq Clients \cup {NoClient}
    /\ heard \in [table : (Clients \cup {NoClient}) \X Paths,
                   row : (Clients \cup {NoClient}) \X Paths]
    /\ said \in [Boxes -> {"none", "checked", "unchecked"}]

Init ==
    /\ checked = [c \in Clients |-> {}]
    /\ queue = <<>>
    /\ enabled = FALSE
    /\ at = "idle"
    /\ local = Idle
    /\ savedLocation = Nowhere
    /\ savedText = NoText
    /\ savedPath = NoObject
    /\ locationBy = NoClient
    /\ textBy = NoClient
    /\ heard = NothingHeard
    /\ said = [b \in Boxes |-> "none"]

Client == local.event.client
Path == local.event.path
Kind == local.event.kind
Box == <<Client, Path>>

Forget(boxes) == [b \in Boxes |-> IF b \in boxes THEN "none" ELSE said[b]]

\* The client waits for an answer of its own and gives none.
Blocked(c) == \E i \in 1 .. Len(queue) : queue[i].kind = "call" /\ queue[i].client = c

----------------------------------------------------------------------------
(* The clients.                                                            *)

Emit(source) ==
    /\ Len(queue) < QueueBound
    /\ queue' = Append(queue, source)

Focus(c, o) ==
    /\ ~Blocked(c)
    /\ enabled
    /\ Emit([client |-> c, path |-> o, kind |-> "focused", data |-> 1])
    /\ UNCHANGED <<checked, enabled, at, local, savedVars, historyVars>>

\* Without a listener there is no subscription, and the signal is lost.
Toggle(c, k) ==
    /\ ~Blocked(c)
    /\ checked' = [checked EXCEPT ![c] = (@ \ {k}) \cup ({k} \ @)]
    /\ IF enabled
       THEN /\ Emit([client |-> c, path |-> k, kind |-> "checked",
                     data |-> IF k \in checked'[c] THEN 1 ELSE 0])
            /\ UNCHANGED said
       ELSE /\ said' = Forget({<<c, k>>})
            /\ UNCHANGED queue
    /\ UNCHANGED <<enabled, at, local, savedVars, locationBy, textBy, heard>>

Load(c, o) ==
    /\ ~Blocked(c)
    /\ enabled
    /\ Emit([client |-> c, path |-> o, kind |-> "load", data |-> 0])
    /\ UNCHANGED <<checked, enabled, at, local, savedVars, historyVars>>

\* GetRegisteredEvents, say, called synchronously.
CallRegistry(c) ==
    /\ ~Blocked(c)
    /\ Emit([client |-> c, kind |-> "call"])
    /\ UNCHANGED <<checked, enabled, at, local, savedVars, historyVars>>

----------------------------------------------------------------------------
(* The worker between two handlers.                                        *)

AnswerCall ==
    /\ at = "idle"
    /\ queue # <<>>
    /\ Head(queue).kind = "call"
    /\ queue' = Tail(queue)
    /\ UNCHANGED <<checked, enabled, at, local, savedVars, historyVars>>

DropSignal ==
    /\ at = "idle"
    /\ queue # <<>>
    /\ Head(queue) = Dead
    /\ queue' = Tail(queue)
    /\ UNCHANGED <<checked, enabled, at, local, savedVars, historyVars>>

StartListeners ==
    /\ at = "idle"
    /\ ~enabled
    /\ enabled' = TRUE
    /\ UNCHANGED <<checked, queue, at, local, savedVars, historyVars>>

\* The signals of a subscription that is gone are dropped when it is their turn.
StopListeners ==
    /\ at = "idle"
    /\ enabled
    /\ enabled' = FALSE
    /\ queue' = [i \in DOMAIN queue |-> IF queue[i].kind = "call" THEN queue[i] ELSE Dead]
    /\ said' = Forget({<<queue[i].client, queue[i].path>> :
                          i \in {j \in 1 .. Len(queue) : queue[j].kind = "checked"}})
    /\ UNCHANGED <<checked, at, local, savedVars, locationBy, textBy, heard>>

OnSignal ==
    /\ at = "idle"
    /\ enabled
    /\ queue # <<>>
    /\ Head(queue).kind \notin {"call", "dead"}
    /\ queue' = Tail(queue)
    /\ local' = [Idle EXCEPT !.event = Head(queue), !.cursor = Head(queue).path]
    /\ at' = "name"
    /\ UNCHANGED <<checked, enabled, savedVars, historyVars>>

----------------------------------------------------------------------------
(* CAtspiAccessibleObject.  Each action is a call and what follows it.     *)

\* The outcomes of a call about the object at path.
Outcomes(path) ==
    IF Blocked(Client) \/ path = NoObject THEN {FALSE} ELSE BOOLEAN

\* A call that fails leaves the output as it was, which is empty.
Output(isAnswered, value) == IF isAnswered THEN value ELSE Empty

GoOn == UNCHANGED <<checked, queue, enabled, savedVars, historyVars>>

GetName ==
    /\ at = "name"
    /\ \E ok \in Outcomes(Path) : local' = [local EXCEPT !.text.name = Output(ok, Name[Path])]
    /\ at' = CASE Kind = "focused" -> "description"
               [] Kind = "checked" -> "role name"
               [] Kind = "load" -> "role"
    /\ GoOn

\* It is said if there is a name, and another one.
GetDescription ==
    /\ at = "description"
    /\ \E ok \in Outcomes(Path) :
          LET description == Output(ok, Description[Path])
          IN  local' = [local EXCEPT !.text.description =
                           IF local.text.name \in {Empty, description} THEN Empty ELSE description]
    /\ at' = "role name"
    /\ GoOn

GetRoleName ==
    /\ at = "role name"
    /\ \E ok \in Outcomes(Path) :
          LET isRole(role) == ok /\ local.text.name # Empty /\ Role[Path] = role
          IN  /\ at' = CASE Kind = "checked" -> "say"
                         [] Kind = "focused" /\ isRole("check box") -> "states"
                         [] OTHER -> "role"
              /\ local' = [local EXCEPT !.text.status =
                    CASE Kind = "focused" /\ isRole("button") -> "button"
                      [] Kind = "checked" /\ isRole("check box") ->
                            IF local.event.data = 1 THEN "checked" ELSE "unchecked"
                      [] OTHER -> "none"]
    /\ GoOn

\* Without an answer the object has no state.
GetState ==
    /\ at = "states"
    /\ \E ok \in Outcomes(Path) :
          local' = [local EXCEPT
              !.text.status = IF ok THEN Status(Client, Path) ELSE "unchecked",
              !.lost = IF ok THEN @ ELSE @ \cup {"status"}]
    /\ at' = "role"
    /\ GoOn

\* A load of a document frame ends here.  A focus that is not in a cell, or of
\* which this is not known, makes getCellDescription forget.
GetRole ==
    /\ at = "role"
    /\ \E ok \in Outcomes(Path) :
          LET isRole(role) == ok /\ Role[Path] = role
          IN  IF Kind = "load"
              THEN /\ at' = IF isRole("document frame") THEN "idle" ELSE "say"
                   /\ UNCHANGED <<savedLocation, locationBy>>
              ELSE IF isRole("cell")
              THEN at' = "parent" /\ UNCHANGED <<savedLocation, locationBy>>
              ELSE /\ at' = "say"
                   /\ savedLocation' = Nowhere
                   /\ locationBy' = NoClient
    /\ local' = IF at' = "idle" THEN Idle ELSE local
    /\ UNCHANGED <<checked, queue, enabled, savedText, savedPath, textBy, heard, said>>

----------------------------------------------------------------------------
(* getCellDescription.  When a call of the walk fails there is none, and    *)
(* what was saved stays.                                                   *)

NoDescription ==
    /\ at' = "say"
    /\ local' = [local EXCEPT !.cursor = NoObject, !.row = NoObject]

\* Mutant: the walk goes on without an answer.
GetParent_FailureIgnored ==
    /\ at = "parent"
    /\ \E ok \in Outcomes(local.cursor) :
          IF ok
          THEN local' = [local EXCEPT !.cursor = Parent[local.cursor]] /\ at' = "parent role"
          ELSE UNCHANGED <<local, at>>
    /\ GoOn

\* The path of an answer is never empty, as D-Bus has no empty object path: the
\* check for one ends the walk of no client.
GetParent ==
    /\ at = "parent"
    /\ \E ok \in Outcomes(local.cursor) :
          IF ok
          THEN local' = [local EXCEPT !.cursor = Parent[local.cursor]] /\ at' = "parent role"
          ELSE NoDescription
    /\ GoOn

\* Mutant: the walk ends at the first row.
GetParentRole_InnermostRow ==
    /\ at = "parent role"
    /\ \E ok \in Outcomes(local.cursor) :
          LET o == local.cursor
          IN  CASE ~ok -> NoDescription
                [] ok /\ Role[o] = "table" -> at' = "caption" /\ UNCHANGED local
                [] ok /\ Role[o] = "row" /\ local.row = NoObject ->
                      local' = [local EXCEPT !.row = o] /\ at' = "parent"
                [] OTHER -> at' = "parent" /\ UNCHANGED local
    /\ GoOn

GetParentRole ==
    /\ at = "parent role"
    /\ \E ok \in Outcomes(local.cursor) :
          LET o == local.cursor
          IN  CASE ~ok -> NoDescription
                [] ok /\ Role[o] = "table" -> at' = "caption" /\ UNCHANGED local
                [] ok /\ Role[o] = "row" ->
                      local' = [local EXCEPT !.row = o] /\ at' = "parent"
                [] OTHER -> at' = "parent" /\ UNCHANGED local
    /\ GoOn

\* What is announced again although it was before: all of the same cell.
IsNew(path, saved) == path # NoObject /\ (Path = savedLocation.cell \/ path # saved)

GetCaption ==
    /\ at = "caption"
    /\ \E ok \in Outcomes(local.cursor) :
          IF ok
          THEN /\ at' = IF Caption[local.cursor] # Empty /\ IsNew(local.cursor, savedLocation.table)
                        THEN "caption name"
                        ELSE "row name"
               /\ UNCHANGED local
          ELSE NoDescription
    /\ GoOn

GetCaptionName ==
    /\ at = "caption name"
    /\ \E ok \in Outcomes(local.cursor) :
          local' = [local EXCEPT !.text.caption = Output(ok, Caption[local.cursor]),
                                 !.lost = IF ok THEN @ ELSE @ \cup {"location"}]
    /\ at' = "row name"
    /\ GoOn

\* Mutant: the row's name is saved for its path.
GetRowName_NameSaved ==
    /\ at = "row name"
    /\ LET described(row, lost) ==
              [local EXCEPT !.cursor = NoObject, !.row = NoObject, !.isLocated = TRUE,
                            !.text.row = row, !.lost = @ \cup lost]
       IN  IF IsNew(local.row, savedLocation.row)
           THEN \E ok \in Outcomes(local.row) :
                   local' = described(Output(ok, Name[local.row]),
                                      IF ok THEN {} ELSE {"location"})
           ELSE local' = described(Empty, {})
    /\ savedLocation' = [cell |-> Path, table |-> local.cursor, row |-> Name[local.row]]
    /\ locationBy' = IF savedLocation = Nowhere \/ locationBy = Client THEN Client ELSE NoClient
    /\ at' = "say"
    /\ UNCHANGED <<checked, queue, enabled, savedText, savedPath, textBy, heard, said>>

\* The row's name, if it is new; the table, the row and the cell are saved,
\* whether or not their names could be had.
GetRowName ==
    /\ at = "row name"
    /\ LET described(row, lost) ==
              [local EXCEPT !.cursor = NoObject, !.row = NoObject, !.isLocated = TRUE,
                            !.text.row = row, !.lost = @ \cup lost]
       IN  IF IsNew(local.row, savedLocation.row)
           THEN \E ok \in Outcomes(local.row) :
                   local' = described(Output(ok, Name[local.row]),
                                      IF ok THEN {} ELSE {"location"})
           ELSE local' = described(Empty, {})
    /\ savedLocation' = [cell |-> Path, table |-> local.cursor, row |-> local.row]
    /\ locationBy' = IF savedLocation = Nowhere \/ locationBy = Client THEN Client ELSE NoClient
    /\ at' = "say"
    /\ UNCHANGED <<checked, queue, enabled, savedText, savedPath, textBy, heard, said>>

----------------------------------------------------------------------------
(* The end of a handler.                                                   *)

Ends ==
    /\ at' = "idle"
    /\ local' = Idle
    /\ UNCHANGED <<checked, queue, enabled, savedLocation>>

SaveText(text) == savedText' = text /\ savedPath' = Path

\* A location that is not announced, or not all of it.
Locate(isTold) ==
    locationBy' = IF local.isLocated /\ ("location" \in local.lost \/ ~isTold)
                  THEN NoClient
                  ELSE locationBy

\* Nothing new is said, and the user may have been told of it before or not.
IsTold(isTold) ==
    /\ Locate(isTold)
    /\ said' = IF Kind = "checked" /\ ~(isTold /\ local.text.status # "none")
               THEN Forget({Box})
               ELSE said
    /\ UNCHANGED heard

SayNothing ==
    /\ at = "say"
    /\ local.text = NoText
    /\ IsTold(TRUE)
    /\ Ends
    /\ UNCHANGED <<savedText, savedPath, textBy>>

\* Mutants: the path is not compared; the text is not compared.
IsDuplicate_TextOnly(text) == text = savedText

IsDuplicate_PathOnly(text) == Path = savedPath

IsDuplicate(text) == text = savedText /\ Path = savedPath

SkipDuplicate ==
    /\ at = "say"
    /\ Kind # "load"
    /\ local.text # NoText
    /\ IsDuplicate(local.text)
    /\ SaveText(local.text)
    /\ IsTold(textBy = Client)
    /\ textBy' = IF textBy = Client THEN Client ELSE NoClient
    /\ Ends

\* What the user knows after the text was spoken.
Hear ==
    LET text == local.text
        named(part, object, before) ==
            IF Kind = "focused" /\ savedLocation = Nowhere THEN <<NoClient, NoObject>>
            ELSE IF part # Empty THEN <<Client, object>> ELSE before
    IN  /\ Locate(TRUE)
        /\ heard' = [table |-> named(text.caption, savedLocation.table, heard.table),
                     row |-> named(text.row, savedLocation.row, heard.row)]
        /\ said' = IF text.status \in {"checked", "unchecked"} /\ "status" \notin local.lost
                   THEN [said EXCEPT ![Box] = text.status]
                   ELSE IF Kind = "checked" \/ "status" \in local.lost THEN Forget({Box})
                   ELSE said

\* The TTS client may have no session, and does not tell.
Say(isSpoken) == IF isSpoken THEN Hear ELSE IsTold(FALSE)

SpeakText ==
    /\ at = "say"
    /\ Kind # "load"
    /\ local.text # NoText
    /\ ~IsDuplicate(local.text)
    /\ \E isSpoken \in BOOLEAN :
          Say(isSpoken) /\ textBy' = IF isSpoken THEN Client ELSE NoClient
    /\ SaveText(local.text)
    /\ Ends

\* The handler of loads neither compares nor saves what it says.
SpeakLoaded ==
    /\ at = "say"
    /\ Kind = "load"
    /\ local.text # NoText
    /\ \E isSpoken \in BOOLEAN : Say(isSpoken)
    /\ Ends
    /\ UNCHANGED <<savedText, savedPath, textBy>>

----------------------------------------------------------------------------
Handler ==
    \/ GetName
    \/ GetDescription
    \/ GetRoleName
    \/ GetState
    \/ GetRole
    \/ GetParent
    \/ GetParentRole
    \/ GetCaption
    \/ GetCaptionName
    \/ GetRowName
    \/ SayNothing
    \/ SkipDuplicate
    \/ SpeakText
    \/ SpeakLoaded

Next ==
    \/ \E c \in Clients :
          \/ \E o \in Focusable : Focus(c, o)
          \/ \E o \in Documents : Load(c, o)
          \/ \E k \in CheckBoxes : Toggle(c, k)
          \/ CallRegistry(c)
    \/ AnswerCall
    \/ DropSignal
    \/ StartListeners
    \/ StopListeners
    \/ OnSignal
    \/ Handler

\* The worker runs its loop, and a synchronous call ends, by the timeout if not
\* by an answer.
Fairness == WF_vars(AnswerCall \/ DropSignal \/ OnSignal) /\ WF_vars(Handler)

Spec == Init /\ [][Next]_vars /\ Fairness

----------------------------------------------------------------------------
(* Properties.                                                             *)

\* The static variables of getCellDescription hold where one cell is, the nearest
\* table and the outermost row in it, never half of a walk, although each call
\* of a walk may fail and another client's may come next; and a text names no
\* table and no row but those of the object that has the focus.
LocationIsWhole ==
    /\ savedLocation # Nowhere =>
          /\ savedLocation.table = TableOf[savedLocation.cell]
          /\ savedLocation.row = RowOf[savedLocation.cell]
    /\ local.text.caption # Empty => local.text.caption = Caption[TableOf[Path]]
    /\ local.text.row # Empty => local.text.row = Name[RowOf[Path]]

\* The cell that getCellDescription remembers had the caption of its table, the
\* nearest one, and the name of its row, the outermost one in it, told to the user
\* of its client, though both are said only when they change and equal texts are
\* skipped.  It is the cell that had the focus last,
\* or, after a walk that failed, the one before.  Excepted (locationBy) is a cell
\* whose location was not all said, because a name could not be had, the text
\* was not spoken, or it was compared with what another client's cell had left:
\* in these cases the code remembers as announced what was not.
LocationIsHeard ==
    at = "idle" /\ savedLocation # Nowhere /\ locationBy # NoClient =>
       LET t == TableOf[savedLocation.cell]
           r == RowOf[savedLocation.cell]
       IN  /\ Caption[t] # Empty => heard.table = <<locationBy, t>>
           /\ r # NoObject /\ Name[r] # Empty => heard.row = <<locationBy, r>>

\* When no event of it is waiting, what was said last of a check box is what it
\* is, though the state asked for a focus may be newer than the events behind
\* it and equal texts are skipped; unless a change was not said.
StatusIsHeard ==
    at = "idle" =>
       \A b \in Boxes :
          (\A i \in 1 .. Len(queue) :
              queue[i].kind = "checked" => <<queue[i].client, queue[i].path>> # b)
          => said[b] \in {"none", Status(b[1], b[2])}

\* A client that waits for the registry while the worker waits for the client
\* gets its answer: every handler ends, whatever calls fail, if the objects
\* have no cycle of parents.
CallsAreAnswered ==
    \A c \in Clients : Blocked(c) ~> ~Blocked(c)
=============================================================================
