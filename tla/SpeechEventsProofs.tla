------------------------- MODULE SpeechEventsProofs -------------------------
(***************************************************************************)
(* What the user of the screen reader has heard, for any tree, any clients *)
(* and a queue of any length: the inductive invariant of SpeechEvents and  *)
(* what follows from it.                                                   *)
(***************************************************************************)
EXTENDS SpeechEvents, ObjectTreeProofs, SequenceTheorems

Statuses == {"checked", "unchecked"}

IsCheckedOf(s, b) == s.kind = "checked" /\ <<s.client, s.path>> = b

\* A change of the box b waits in the queue q to be handled.
DueIn(q, b) == \E i \in 1 .. Len(q) : IsCheckedOf(q[i], b)

Due(b) == DueIn(queue, b)

\* What a signal says of a box that is, or is not, in the set of those checked.
Data(boxes, s) == IF s.path \in boxes[s.client] THEN 1 ELSE 0

\* The last signal of a box in the queue q tells what the box is.
Tells(q, boxes) ==
    \A i \in 1 .. Len(q) :
        q[i].kind = "checked" =>
            \/ q[i].data = Data(boxes, q[i])
            \/ \E j \in i + 1 .. Len(q) : IsCheckedOf(q[j], <<q[i].client, q[i].path>>)

\* Signals wait only while there is a listener.
Waiting ==
    /\ at # "idle" => enabled
    /\ ~enabled => \A i \in 1 .. Len(queue) : queue[i].kind \in {"call", "dead"}
    /\ \A i \in 1 .. Len(queue) : queue[i].kind = "checked" => queue[i].path \in CheckBoxes
    /\ Tells(queue, checked)

\* What a handler is about, and what it has by now.
Handling ==
    /\ at = "idle" => local = Idle
    /\ at # "idle" => local.event \in Signals
    /\ at \in {"description", "states", "parent", "parent role", "caption", "caption name",
               "row name"} => Kind = "focused"
    /\ at = "role name" => Kind # "load"
    /\ at = "role" => Kind # "checked"
    /\ at = "states" => Role[Path] = "check box"
    /\ Kind = "checked" => Path \in CheckBoxes
    /\ Kind # "focused" => local.lost = {} /\ ~local.isLocated
    /\ Kind = "load" => local.text.status = "none"
    /\ local.text.status = "button" => Kind = "focused"

\* The status in the text is that of the box, unless it has changed since, which
\* waits to be handled.
Asked ==
    /\ Kind = "checked" /\ ~Due(Box) => local.event.data = Data(checked, local.event)
    /\ local.text.status \in Statuses => Role[Path] = "check box"
    /\ local.text.status \in Statuses /\ "status" \notin local.lost /\ ~Due(Box) =>
          local.text.status = Status(Client, Path)

\* What was said of a box is what it is, unless a change of it waits or is being
\* handled.
Said ==
    \A b \in Boxes :
        ~Due(b) /\ ~(Kind = "checked" /\ b = Box) => said[b] \in {"none", Status(b[1], b[2])}

\* A duplicate of the saved text tells nothing that was not heard.
SavedText ==
    textBy # NoClient =>
        /\ savedText.status \in Statuses =>
              /\ savedPath \in CheckBoxes
              /\ said[<<textBy, savedPath>>] \in {"none", savedText.status}
        /\ savedText.caption # Empty => heard.table = <<textBy, TableOf[savedPath]>>
        /\ savedText.row # Empty => heard.row = <<textBy, RowOf[savedPath]>>

\* The static variables are where some cell is.
SavedLocation ==
    savedLocation # Nowhere =>
        /\ savedLocation.cell \in Objects
        /\ savedLocation.table = TableOf[savedLocation.cell]
        /\ savedLocation.row = RowOf[savedLocation.cell]
        /\ savedLocation.table # NoObject

\* How far the walk has come: the rest of it finds what the whole would find.
Walking ==
    /\ at = "parent" =>
          /\ local.cursor \in Objects
          /\ TableOf[Path] = TableOf[local.cursor]
          /\ RowOf[Path] = IF RowOf[local.cursor] # NoObject THEN RowOf[local.cursor]
                           ELSE local.row
    /\ at = "parent role" /\ local.cursor # NoObject =>
          IF Role[local.cursor] = "table"
          THEN TableOf[Path] = local.cursor /\ RowOf[Path] = local.row
          ELSE /\ TableOf[Path] = TableOf[local.cursor]
               /\ RowOf[Path] = IF RowOf[local.cursor] # NoObject THEN RowOf[local.cursor]
                                ELSE IF Role[local.cursor] = "row" THEN local.cursor
                                ELSE local.row
    /\ at \in {"caption", "caption name", "row name"} =>
          /\ local.cursor \in Objects
          /\ TableOf[Path] = local.cursor
          /\ RowOf[Path] = local.row
    /\ at \in {"name", "description", "role name", "states", "role"} =>
          local.cursor = Path /\ local.row = NoObject

\* What is to be said of the location, with what was heard before, is all of it,
\* or is known to be lost.
Locating ==
    /\ local.isLocated => at = "say"
    /\ local.text.caption # Empty => at = "row name" \/ local.isLocated
    /\ local.text.row # Empty => local.isLocated
    /\ at = "caption name" => Caption[local.cursor] # Empty
    /\ at = "row name" /\ "location" \notin local.lost /\ Caption[local.cursor] # Empty =>
          \/ local.text.caption # Empty
          \/ Path # savedLocation.cell /\ local.cursor = savedLocation.table
    /\ local.isLocated =>
          /\ savedLocation.cell = Path
          /\ savedLocation # Nowhere
          /\ locationBy \in {NoClient, Client}
          /\ locationBy # NoClient /\ "location" \notin local.lost =>
                /\ Caption[savedLocation.table] # Empty /\ local.text.caption = Empty =>
                      heard.table = <<Client, savedLocation.table>>
                /\ savedLocation.row # NoObject /\ Name[savedLocation.row] # Empty
                      /\ local.text.row = Empty =>
                      heard.row = <<Client, savedLocation.row>>

\* What the static variables hold was heard, if anyone's.
Located ==
    savedLocation # Nowhere /\ locationBy # NoClient /\ ~local.isLocated =>
        /\ Caption[savedLocation.table] # Empty => heard.table = <<locationBy, savedLocation.table>>
        /\ savedLocation.row # NoObject /\ Name[savedLocation.row] # Empty =>
              heard.row = <<locationBy, savedLocation.row>>

IInv ==
    /\ TypeOK
    /\ Waiting
    /\ Handling
    /\ Asked
    /\ Said
    /\ SavedText
    /\ SavedLocation
    /\ Walking
    /\ Locating
    /\ Located

----------------------------------------------------------------------------
(* The queue.                                                              *)

LEMMA SourceKinds ==
    /\ \A s \in Signals : s.kind \in {"focused", "checked", "load"}
    /\ \A s \in Calls : s.kind = "call"
    /\ Dead.kind = "dead"
    /\ \A s \in Sources : s.kind \notin {"call", "dead"} => s \in Signals
BY DEF Signals, Calls, Dead, Sources

LEMMA DueAppend ==
    ASSUME NEW q \in Seq(Sources), NEW s \in Sources, NEW b
    PROVE  DueIn(Append(q, s), b) <=> DueIn(q, b) \/ IsCheckedOf(s, b)
<1>1. /\ Len(Append(q, s)) = Len(q) + 1 /\ Len(q) \in Nat
      /\ \A i \in 1 .. Len(q) : Append(q, s)[i] = q[i]
      /\ Append(q, s)[Len(q) + 1] = s
  OBVIOUS
<1> QED
  BY <1>1 DEF DueIn

LEMMA DueTail ==
    ASSUME NEW q \in Seq(Sources), q # <<>>, NEW b
    PROVE  DueIn(q, b) <=> IsCheckedOf(Head(q), b) \/ DueIn(Tail(q), b)
<1>1. /\ Len(Tail(q)) = Len(q) - 1 /\ Len(q) \in Nat /\ Len(q) > 0
      /\ \A i \in 1 .. Len(q) - 1 : Tail(q)[i] = q[i + 1]
      /\ Head(q) = q[1]
  OBVIOUS
<1>2. ASSUME NEW i \in 1 .. Len(q), IsCheckedOf(q[i], b)
      PROVE  IsCheckedOf(Head(q), b) \/ DueIn(Tail(q), b)
  <2>1. CASE i = 1
    BY <1>1, <1>2, <2>1
  <2>2. CASE i # 1
    <3>1. i - 1 \in 1 .. Len(Tail(q)) /\ Tail(q)[i - 1] = q[i]
      BY <1>1, <2>2
    <3> QED
      BY <1>2, <3>1 DEF DueIn
  <2> QED
    BY <2>1, <2>2
<1>3. ASSUME NEW i \in 1 .. Len(Tail(q)), IsCheckedOf(Tail(q)[i], b)
      PROVE  DueIn(q, b)
  <2>1. i + 1 \in 1 .. Len(q) /\ q[i + 1] = Tail(q)[i]
    BY <1>1
  <2> QED
    BY <1>3, <2>1 DEF DueIn
<1>4. IsCheckedOf(Head(q), b) => DueIn(q, b)
  BY <1>1 DEF DueIn
<1> QED
  BY <1>2, <1>3, <1>4 DEF DueIn

\* A source that is no change of a box keeps what the others tell.
LEMMA TellsAppend ==
    ASSUME NEW q \in Seq(Sources), NEW s \in Sources, NEW boxes, s.kind # "checked",
           Tells(q, boxes)
    PROVE  Tells(Append(q, s), boxes)
<1>1. /\ Len(Append(q, s)) = Len(q) + 1 /\ Len(q) \in Nat
      /\ \A i \in 1 .. Len(q) : Append(q, s)[i] = q[i]
      /\ Append(q, s)[Len(q) + 1] = s
  OBVIOUS
<1> QED
  BY <1>1 DEF Tells

\* A box that changes tells so last.
LEMMA TellsToggle ==
    ASSUME NEW q \in Seq(Sources), NEW s \in Signals, s.kind = "checked", NEW boxes, NEW later,
           Tells(q, boxes), s.data = Data(later, s),
           \A i \in 1 .. Len(q) : q[i].kind = "checked" =>
               IsCheckedOf(s, <<q[i].client, q[i].path>>) \/ Data(later, q[i]) = Data(boxes, q[i])
    PROVE  Tells(Append(q, s), later)
<1>1. /\ Len(Append(q, s)) = Len(q) + 1 /\ Len(q) \in Nat
      /\ \A i \in 1 .. Len(q) : Append(q, s)[i] = q[i]
      /\ Append(q, s)[Len(q) + 1] = s
  BY DEF Sources
<1>2. ASSUME NEW i \in 1 .. Len(q), q[i].kind = "checked"
      PROVE  \/ q[i].data = Data(later, q[i])
             \/ \E j \in i + 1 .. Len(q) + 1 :
                   IsCheckedOf(Append(q, s)[j], <<q[i].client, q[i].path>>)
  <2>1. CASE IsCheckedOf(s, <<q[i].client, q[i].path>>)
    BY <1>1, <2>1
  <2>2. CASE Data(later, q[i]) = Data(boxes, q[i])
    BY <1>1, <1>2, <2>2 DEF Tells
  <2> QED
    BY <1>2, <2>1, <2>2
<1> QED
  BY <1>1, <1>2 DEF Tells

LEMMA TellsTail ==
    ASSUME NEW q \in Seq(Sources), q # <<>>, NEW boxes, Tells(q, boxes)
    PROVE  /\ Tells(Tail(q), boxes)
           /\ Head(q).kind = "checked" /\ ~DueIn(Tail(q), <<Head(q).client, Head(q).path>>) =>
                 Head(q).data = Data(boxes, Head(q))
<1>1. /\ Len(Tail(q)) = Len(q) - 1 /\ Len(q) \in Nat /\ Len(q) > 0
      /\ \A i \in 1 .. Len(q) - 1 : Tail(q)[i] = q[i + 1]
      /\ Head(q) = q[1]
  OBVIOUS
<1>2. ASSUME NEW i \in 1 .. Len(q) - 1, Tail(q)[i].kind = "checked"
      PROVE  \/ Tail(q)[i].data = Data(boxes, Tail(q)[i])
             \/ \E j \in i + 1 .. Len(q) - 1 :
                   IsCheckedOf(Tail(q)[j], <<Tail(q)[i].client, Tail(q)[i].path>>)
  <2>1. i + 1 \in 1 .. Len(q) /\ q[i + 1] = Tail(q)[i]
    BY <1>1
  <2>2. CASE \E j \in i + 2 .. Len(q) :
                IsCheckedOf(q[j], <<Tail(q)[i].client, Tail(q)[i].path>>)
    <3>1. PICK j \in i + 2 .. Len(q) :
             IsCheckedOf(q[j], <<Tail(q)[i].client, Tail(q)[i].path>>)
      BY <2>2
    <3>2. j - 1 \in i + 1 .. Len(q) - 1 /\ Tail(q)[j - 1] = q[j]
      BY <1>1
    <3> QED
      BY <3>1, <3>2
  <2>3. /\ (i + 1) + 1 = i + 2
        /\ \/ q[i + 1].data = Data(boxes, q[i + 1])
           \/ \E j \in (i + 1) + 1 .. Len(q) :
                 IsCheckedOf(q[j], <<q[i + 1].client, q[i + 1].path>>)
    BY <1>2, <2>1 DEF Tells
  <2> QED
    BY <2>1, <2>2, <2>3
<1>3. ASSUME Head(q).kind = "checked", ~DueIn(Tail(q), <<Head(q).client, Head(q).path>>)
      PROVE  Head(q).data = Data(boxes, Head(q))
  <2>1. ASSUME NEW j \in 2 .. Len(q), IsCheckedOf(q[j], <<q[1].client, q[1].path>>)
        PROVE  FALSE
    <3>1. j - 1 \in 1 .. Len(Tail(q)) /\ Tail(q)[j - 1] = q[j]
      BY <1>1
    <3> QED
      BY <1>1, <1>3, <2>1, <3>1 DEF DueIn
  <2> QED
    BY <1>1, <1>3, <2>1 DEF Tells
<1> QED
  BY <1>1, <1>2, <1>3 DEF Tells

----------------------------------------------------------------------------
(* The parts of the invariant that an action leaves alone.                 *)

\* A worker between two handlers is about nothing.
LEMMA IdleFacts ==
    /\ Idle.event = NoEvent /\ Idle.event.kind = "none" /\ Idle.event.client = NoClient
    /\ Idle.text = NoText /\ Idle.text.status = "none"
    /\ Idle.text.caption = Empty /\ Idle.text.row = Empty
    /\ Idle.cursor = NoObject /\ Idle.row = NoObject
    /\ Idle.isLocated = FALSE /\ Idle.lost = {}
BY DEF Idle, NoText, NoEvent

\* What the clients do is of no account to a handler, but for the queue and the
\* boxes.
LEMMA HandlerUntouched ==
    ASSUME IInv, UNCHANGED <<at, local, savedVars, locationBy, textBy, heard>>
    PROVE  (Handling /\ SavedLocation /\ Walking /\ Locating /\ Located)'
<1>1. /\ at' = at /\ local' = local /\ savedLocation' = savedLocation
      /\ locationBy' = locationBy /\ heard' = heard
      /\ Kind' = Kind /\ Path' = Path /\ Client' = Client
  BY DEF savedVars, Kind, Path, Client
<1>2. Handling'
  BY <1>1 DEF IInv, Handling
<1>3. SavedLocation'
  BY <1>1 DEF IInv, SavedLocation
<1>4. Walking'
  BY <1>1 DEF IInv, Walking
<1>5. Locating'
  BY <1>1 DEF IInv, Locating
<1>6. Located'
  BY <1>1 DEF IInv, Located
<1> QED
  BY <1>2, <1>3, <1>4, <1>5, <1>6

\* A source that a client adds, other than a change of a box.
LEMMA EmitStep ==
    ASSUME IInv, NEW source \in Sources, source.kind # "checked", Emit(source),
           enabled \/ source.kind = "call",
           UNCHANGED <<checked, enabled, at, local, savedVars, historyVars>>
    PROVE  IInv'
<1>1. queue \in Seq(Sources) /\ queue' = Append(queue, source)
  BY DEF IInv, TypeOK, Emit
<1>2. \A b : DueIn(queue', b) <=> DueIn(queue, b)
  BY <1>1, DueAppend DEF IsCheckedOf
<1>3. TypeOK'
  <2>1. queue' \in Seq(Sources)
    BY <1>1
  <2> QED
    BY <2>1 DEF IInv, TypeOK, savedVars, historyVars
<1>4. Waiting'
  <2>1. Tells(queue', checked')
    BY <1>1, TellsAppend DEF IInv, Waiting
  <2>2. /\ Len(queue') = Len(queue) + 1 /\ Len(queue) \in Nat
        /\ \A i \in 1 .. Len(queue) : queue'[i] = queue[i]
        /\ queue'[Len(queue) + 1] = source
    BY <1>1
  <2> QED
    BY <2>1, <2>2 DEF IInv, Waiting
<1>5. Asked' /\ Said' /\ SavedText'
  <2> USE <1>2 DEF IInv, savedVars, historyVars, Due, Kind, Path, Client, Box
  <2>1. Asked'
    BY DEF Asked, Status
  <2>2. Said'
    BY DEF Said, Status
  <2>3. SavedText'
    BY DEF SavedText
  <2> QED
    BY <2>1, <2>2, <2>3
<1>6. (Handling /\ SavedLocation /\ Walking /\ Locating /\ Located)'
  BY HandlerUntouched DEF historyVars
<1> QED
  BY <1>3, <1>4, <1>5, <1>6 DEF IInv

LEMMA FocusStep ==
    ASSUME IInv, NEW c \in Clients, NEW o \in Focusable, Focus(c, o)
    PROVE  IInv'
<1> DEFINE source == [client |-> c, path |-> o, kind |-> "focused", data |-> 1]
<1>1. source \in Sources
  BY DEF Sources, Signals, Focusable
<1> QED
  BY <1>1, EmitStep DEF Focus

LEMMA LoadStep ==
    ASSUME IInv, NEW c \in Clients, NEW o \in Documents, Load(c, o)
    PROVE  IInv'
<1> DEFINE source == [client |-> c, path |-> o, kind |-> "load", data |-> 0]
<1>1. source \in Sources
  BY DEF Sources, Signals, Documents
<1> QED
  BY <1>1, EmitStep DEF Load

LEMMA CallRegistryStep ==
    ASSUME IInv, NEW c \in Clients, CallRegistry(c)
    PROVE  IInv'
<1> DEFINE source == [client |-> c, kind |-> "call"]
<1>1. source \in Sources
  BY DEF Sources, Calls
<1> QED
  BY <1>1, EmitStep DEF CallRegistry

\* A box that changes says so last, or is not said to be anything.
LEMMA ToggleStep ==
    ASSUME IInv, NEW c \in Clients, NEW k \in CheckBoxes, Toggle(c, k)
    PROVE  IInv'
<1> DEFINE b0 == <<c, k>>
           source == [client |-> c, path |-> k, kind |-> "checked",
                      data |-> IF k \in checked'[c] THEN 1 ELSE 0]
<1>1. /\ checked \in [Clients -> SUBSET CheckBoxes] /\ queue \in Seq(Sources)
      /\ said \in [Boxes -> {"none", "checked", "unchecked"}]
      /\ b0 \in Boxes
  BY DEF IInv, TypeOK, Boxes
<1>2. /\ checked' = [checked EXCEPT ![c] = (@ \ {k}) \cup ({k} \ @)]
      /\ UNCHANGED <<enabled, at, local, savedVars, locationBy, textBy, heard>>
  BY DEF Toggle
<1>3. /\ checked' \in [Clients -> SUBSET CheckBoxes]
      /\ \A d \in Clients, j \in CheckBoxes :
            <<d, j>> # b0 => (j \in checked'[d] <=> j \in checked[d])
  BY <1>1, <1>2
<1>4. \A d \in Clients, j \in CheckBoxes :
         <<d, j>> # b0 => Status(d, j)' = Status(d, j)
  BY <1>3 DEF Status
<1>5. (Handling /\ SavedLocation /\ Walking /\ Locating /\ Located)'
  BY <1>2, HandlerUntouched
<1>6. CASE enabled
  <2>1. queue' = Append(queue, source) /\ said' = said
    BY <1>6 DEF Toggle, Emit
  <2>2. source \in Signals /\ source \in Sources
    BY DEF Signals, Sources, CheckBoxes
  <2>3. \A b : DueIn(queue', b) <=> DueIn(queue, b) \/ b = b0
    BY <1>1, <2>1, <2>2, DueAppend DEF IsCheckedOf
  <2>4. TypeOK'
    <3>1. queue' \in Seq(Sources)
      BY <1>1, <2>1, <2>2
    <3> QED
      BY <1>2, <1>3, <2>1, <3>1 DEF IInv, TypeOK, savedVars
  <2>5. Waiting'
    <3>1. ASSUME NEW i \in 1 .. Len(queue), queue[i].kind = "checked"
          PROVE  IsCheckedOf(source, <<queue[i].client, queue[i].path>>)
                 \/ Data(checked', queue[i]) = Data(checked, queue[i])
      <4>1. queue[i] \in Signals
        BY <1>1, <3>1, SourceKinds
      <4>2. queue[i].client \in Clients /\ queue[i].path \in CheckBoxes
        BY <3>1, <4>1 DEF Signals, IInv, Waiting
      <4> QED
        BY <1>3, <4>2 DEF IsCheckedOf, Data
    <3>2. Tells(queue', checked')
      BY <1>1, <2>1, <2>2, <3>1, TellsToggle DEF Data, IInv, Waiting
    <3>3. /\ Len(queue') = Len(queue) + 1 /\ Len(queue) \in Nat
          /\ \A i \in 1 .. Len(queue) : queue'[i] = queue[i]
          /\ queue'[Len(queue) + 1] = source
      BY <1>1, <2>1, <2>2
    <3> QED
      BY <1>2, <1>6, <3>2, <3>3 DEF IInv, Waiting
  <2>6. Said' /\ SavedText'
    <3>1. Said'
      BY <1>1, <1>2, <1>4, <2>1, <2>3 DEF IInv, Said, Due, Kind, Box, Client, Path, Boxes
    <3>2. SavedText'
      BY <1>2, <2>1 DEF IInv, SavedText, savedVars
    <3> QED
      BY <3>1, <3>2
  <2>7. Asked'
    <3>1. CASE Box = b0
      BY <1>2, <2>3, <3>1 DEF IInv, Asked, Due, Kind, Box, Client, Path
    <3>2. CASE Box # b0 /\ (Kind = "checked" \/ local.text.status \in Statuses)
      <4>1. Client \in Clients /\ Path \in CheckBoxes
        <5>1. at # "idle"
          BY <3>2, IdleFacts DEF IInv, Handling, Kind, Statuses
        <5>2. local.event \in Signals
          BY <5>1 DEF IInv, Handling
        <5> QED
          BY <3>2, <5>2 DEF IInv, Handling, Asked, Signals, CheckBoxes, Client, Path
      <4>2. /\ Data(checked', local.event) = Data(checked, local.event)
            /\ Status(Client, Path)' = Status(Client, Path)
        BY <1>2, <1>3, <3>2, <4>1 DEF Data, Status, Client, Path, Box
      <4> QED
        BY <1>2, <2>3, <3>2, <4>2 DEF IInv, Asked, Due, Kind, Box, Client, Path
    <3>3. CASE ~(Kind = "checked" \/ local.text.status \in Statuses)
      BY <1>2, <3>3 DEF Asked, Kind
    <3> QED
      BY <3>1, <3>2, <3>3
  <2> QED
    BY <1>5, <2>4, <2>5, <2>6, <2>7 DEF IInv
<1>7. CASE ~enabled
  <2>1. queue' = queue /\ said' = Forget({b0})
    BY <1>7 DEF Toggle
  <2>2. /\ said' \in [Boxes -> {"none", "checked", "unchecked"}]
        /\ said'[b0] = "none"
        /\ \A b \in Boxes : b # b0 => said'[b] = said[b]
    BY <1>1, <2>1 DEF Forget
  <2>3. at = "idle" /\ local = Idle
    BY <1>7 DEF IInv, Waiting, Handling
  <2>4. TypeOK'
    BY <1>2, <1>3, <2>1, <2>2 DEF IInv, TypeOK, savedVars
  <2>5. \A i \in 1 .. Len(queue) : queue[i].kind # "checked"
    BY <1>7 DEF IInv, Waiting
  <2>6. Waiting'
    BY <1>2, <2>1, <2>5 DEF IInv, Waiting, Tells
  <2>7. Asked'
    <3>1. local'.event.kind = "none" /\ local'.text.status = "none"
      BY <1>2, <2>3, IdleFacts
    <3> QED
      BY <3>1 DEF Asked, Kind, Statuses
  <2>8. Said'
    <3>1. \A b \in Boxes : Due(b)' <=> Due(b)
      BY <2>1 DEF Due
    <3>2. Kind # "checked"
      BY <2>3, IdleFacts DEF Kind
    <3>3. \A b \in Boxes : b # b0 => said'[b] = said[b] /\ Status(b[1], b[2])' = Status(b[1], b[2])
      BY <1>4, <2>2 DEF Boxes
    <3> QED
      BY <2>2, <3>1, <3>2, <3>3 DEF IInv, Said
  <2>9. SavedText'
    <3>1. textBy # NoClient /\ savedText.status \in Statuses => <<textBy, savedPath>> \in Boxes
      BY DEF IInv, SavedText, TypeOK, Boxes
    <3> QED
      BY <1>2, <2>2, <3>1 DEF IInv, SavedText, savedVars
  <2> QED
    BY <1>5, <2>4, <2>6, <2>7, <2>8, <2>9 DEF IInv
<1> QED
  BY <1>6, <1>7

----------------------------------------------------------------------------
(* The worker between two handlers.                                        *)

\* A source that is no signal leaves the queue.
LEMMA OtherSourceStep ==
    ASSUME IInv, queue # <<>>, Head(queue).kind \in {"call", "dead"}, queue' = Tail(queue),
           UNCHANGED <<checked, enabled, at, local, savedVars, historyVars>>
    PROVE  IInv'
<1> DEFINE rest == Tail(queue)
<1>1. queue \in Seq(Sources) /\ queue' \in Seq(Sources)
  <2>1. queue \in Seq(Sources)
    BY DEF IInv, TypeOK
  <2>2. rest \in Seq(Sources)
    BY <2>1
  <2> QED
    BY <2>1, <2>2
<1>2. \A b : DueIn(queue', b) <=> DueIn(queue, b)
  BY <1>1, DueTail DEF IsCheckedOf
<1>3. TypeOK'
  BY <1>1 DEF IInv, TypeOK, savedVars, historyVars
<1>4. Waiting'
  <2>1. Tells(queue', checked')
    BY <1>1, TellsTail DEF IInv, Waiting
  <2>2. /\ Len(queue') = Len(queue) - 1 /\ Len(queue) \in Nat
        /\ \A i \in 1 .. Len(queue) - 1 : queue'[i] = queue[i + 1] /\ i + 1 \in 1 .. Len(queue)
    BY <1>1
  <2> QED
    BY <2>1, <2>2 DEF IInv, Waiting
<1>5. Asked' /\ Said' /\ SavedText'
  <2> USE <1>2 DEF IInv, savedVars, historyVars, Due, Kind, Path, Client, Box
  <2>1. Asked'
    BY DEF Asked, Status
  <2>2. Said'
    BY DEF Said, Status
  <2>3. SavedText'
    BY DEF SavedText
  <2> QED
    BY <2>1, <2>2, <2>3
<1>6. (Handling /\ SavedLocation /\ Walking /\ Locating /\ Located)'
  BY HandlerUntouched DEF historyVars
<1> QED
  BY <1>3, <1>4, <1>5, <1>6 DEF IInv

LEMMA AnswerCallStep == IInv /\ AnswerCall => IInv'
BY OtherSourceStep DEF AnswerCall

LEMMA DropSignalStep == IInv /\ DropSignal => IInv'
BY OtherSourceStep, SourceKinds DEF DropSignal

LEMMA StartListenersStep == IInv /\ StartListeners => IInv'
<1> SUFFICES ASSUME IInv, StartListeners
             PROVE  IInv'
  OBVIOUS
<1>1. enabled' = TRUE /\ UNCHANGED <<checked, queue, at, local, savedVars, historyVars>>
  BY DEF StartListeners
<1>2. TypeOK'
  BY <1>1 DEF IInv, TypeOK, savedVars, historyVars
<1>3. Waiting'
  BY <1>1 DEF IInv, Waiting
<1>4. Asked' /\ Said' /\ SavedText'
  <2> USE <1>1 DEF IInv, savedVars, historyVars, Due, Kind, Path, Client, Box
  <2>1. Asked'
    BY DEF Asked, Status
  <2>2. Said'
    BY DEF Said, Status
  <2>3. SavedText'
    BY DEF SavedText
  <2> QED
    BY <2>1, <2>2, <2>3
<1>5. (Handling /\ SavedLocation /\ Walking /\ Locating /\ Located)'
  BY <1>1, HandlerUntouched DEF historyVars
<1> QED
  BY <1>2, <1>3, <1>4, <1>5 DEF IInv

\* What was to be said of the boxes is not said.
LEMMA StopListenersStep == IInv /\ StopListeners => IInv'
<1> SUFFICES ASSUME IInv, StopListeners
             PROVE  IInv'
  OBVIOUS
<1> DEFINE due == {<<queue[i].client, queue[i].path>> :
                      i \in {j \in 1 .. Len(queue) : queue[j].kind = "checked"}}
<1>1. /\ at = "idle" /\ enabled' = FALSE
      /\ queue' = [i \in DOMAIN queue |-> IF queue[i].kind = "call" THEN queue[i] ELSE Dead]
      /\ said' = Forget(due)
      /\ UNCHANGED <<checked, at, local, savedVars, locationBy, textBy, heard>>
  BY DEF StopListeners
<1>2. queue \in Seq(Sources) /\ said \in [Boxes -> {"none", "checked", "unchecked"}]
  BY DEF IInv, TypeOK
<1>3. /\ queue' \in Seq(Sources)
      /\ Len(queue') = Len(queue) /\ Len(queue) \in Nat
      /\ \A i \in 1 .. Len(queue) :
            queue'[i] = IF queue[i].kind = "call" THEN queue[i] ELSE Dead
  <2>1. Len(queue) \in Nat /\ DOMAIN queue = 1 .. Len(queue)
    BY <1>2
  <2>2. \A i \in 1 .. Len(queue) : queue[i] \in Sources
    BY <1>2
  <2>3. queue' \in [1 .. Len(queue) -> Sources]
    BY <1>1, <2>1, <2>2 DEF Sources
  <2>4. queue' \in Seq(Sources) /\ Len(queue') = Len(queue)
    BY <2>1, <2>3, SeqDef, LenProperties
  <2> QED
    BY <1>1, <2>1, <2>4
<1>4. \A i \in 1 .. Len(queue) : queue'[i].kind \in {"call", "dead"}
  BY <1>3, SourceKinds
<1>5. \A b : ~DueIn(queue', b)
  BY <1>3, <1>4 DEF DueIn, IsCheckedOf
<1>6. \A b \in Boxes : said'[b] = IF b \in due THEN "none" ELSE said[b]
  BY <1>1 DEF Forget
<1>7. \A b \in Boxes : b \in due <=> DueIn(queue, b)
  BY DEF DueIn, IsCheckedOf
<1>8. TypeOK'
  <2>1. said' \in [Boxes -> {"none", "checked", "unchecked"}]
    BY <1>1, <1>2 DEF Forget
  <2> QED
    BY <1>1, <1>3, <2>1 DEF IInv, TypeOK, savedVars
<1>9. Waiting'
  BY <1>1, <1>3, <1>4 DEF IInv, Waiting, Tells
<1>10. Asked'
  <2>1. local'.event.kind = "none" /\ local'.text.status = "none"
    BY <1>1, IdleFacts DEF IInv, Handling
  <2> QED
    BY <2>1 DEF Asked, Kind, Statuses
<1>11. Said'
  <2>1. Kind # "checked"
    BY <1>1, IdleFacts DEF IInv, Handling, Kind
  <2> QED
    BY <1>1, <1>6, <1>7, <2>1 DEF IInv, Said, Due, Status
<1>12. SavedText'
  <2>1. textBy # NoClient /\ savedText.status \in Statuses => <<textBy, savedPath>> \in Boxes
    BY DEF IInv, SavedText, TypeOK, Boxes
  <2> QED
    BY <1>1, <1>6, <2>1 DEF IInv, SavedText, savedVars
<1>13. (Handling /\ SavedLocation /\ Walking /\ Locating /\ Located)'
  BY <1>1, HandlerUntouched
<1> QED
  BY <1>8, <1>9, <1>10, <1>11, <1>12, <1>13 DEF IInv

\* The signal that is handled tells what its box is, unless another one waits.
LEMMA OnSignalStep == IInv /\ OnSignal => IInv'
<1> SUFFICES ASSUME IInv, OnSignal
             PROVE  IInv'
  OBVIOUS
<1> DEFINE event == Head(queue)
<1>1. /\ at = "idle" /\ enabled /\ queue # <<>> /\ event.kind \notin {"call", "dead"}
      /\ queue' = Tail(queue)
      /\ local' = [Idle EXCEPT !.event = event, !.cursor = event.path]
      /\ at' = "name"
      /\ UNCHANGED <<checked, enabled, savedVars, historyVars>>
  BY DEF OnSignal
<1>2. queue \in Seq(Sources) /\ queue' \in Seq(Sources)
  BY <1>1 DEF IInv, TypeOK
<1>3. event \in Signals
  BY <1>1, <1>2, SourceKinds
<1>4. /\ local'.event = event /\ local'.cursor = event.path
      /\ local'.text = NoText /\ local'.row = NoObject
      /\ local'.isLocated = FALSE /\ local'.lost = {}
  BY <1>1 DEF Idle
<1>5. NoText.status = "none" /\ NoText.caption = Empty /\ NoText.row = Empty
  BY DEF NoText
<1>6. local' \in Locals
  <2>1. NoText \in Texts
    BY DEF NoText, Texts, Names
  <2>2. event.path \in Paths
    BY <1>3 DEF Signals, Paths
  <2> QED
    BY <1>1, <1>3, <2>1, <2>2 DEF Idle, Locals, Paths
<1>7. TypeOK'
  BY <1>1, <1>2, <1>6 DEF IInv, TypeOK, savedVars, historyVars
<1>8. \A b : DueIn(queue, b) <=> IsCheckedOf(event, b) \/ DueIn(queue', b)
  BY <1>1, <1>2, DueTail
<1>9. /\ Len(queue') = Len(queue) - 1 /\ Len(queue) \in Nat /\ Len(queue) > 0
      /\ \A i \in 1 .. Len(queue) - 1 : queue'[i] = queue[i + 1] /\ i + 1 \in 1 .. Len(queue)
      /\ event = queue[1]
  BY <1>1, <1>2
<1>10. /\ Tells(queue', checked)
       /\ event.kind = "checked" /\ ~DueIn(queue', <<event.client, event.path>>) =>
             event.data = Data(checked, event)
  BY <1>1, <1>2, TellsTail DEF IInv, Waiting
<1>11. event.kind = "checked" => event.path \in CheckBoxes
  BY <1>9 DEF IInv, Waiting
<1>12. Waiting'
  BY <1>1, <1>9, <1>10 DEF IInv, Waiting
<1>13. Handling'
  BY <1>1, <1>3, <1>4, <1>5, <1>11 DEF Handling, Kind, Path
<1>14. Asked'
  BY <1>1, <1>4, <1>5, <1>10 DEF Asked, Due, Kind, Path, Client, Box, Statuses
<1>15. Said'
  <2>1. Kind # "checked"
    BY <1>1, IdleFacts DEF IInv, Handling, Kind
  <2> QED
    BY <1>1, <1>4, <1>8, <2>1
       DEF IInv, Said, Due, Status, Kind, Box, Client, Path, IsCheckedOf, historyVars
<1>16. SavedText' /\ SavedLocation'
  BY <1>1 DEF IInv, SavedText, SavedLocation, savedVars, historyVars
<1>17. Walking'
  BY <1>1, <1>4 DEF Walking, Path
<1>18. Locating'
  BY <1>1, <1>4, <1>5 DEF Locating
<1>19. Located'
  <2>1. local.isLocated = FALSE
    BY <1>1, IdleFacts DEF IInv, Handling
  <2> QED
    BY <1>1, <2>1 DEF IInv, Located, savedVars, historyVars
<1> QED
  BY <1>7, <1>12, <1>13, <1>14, <1>15, <1>16, <1>17, <1>18, <1>19 DEF IInv

----------------------------------------------------------------------------
(* The worker in a handler.                                                *)

HandlerSteps ==
    {"name", "description", "role name", "states", "role", "parent", "parent role",
     "caption", "caption name", "row name", "say"}

LEMMA InHandler ==
    ASSUME IInv, at # "idle"
    PROVE  /\ local \in Locals /\ local.event \in Signals /\ local.text \in Texts
           /\ Client \in Clients /\ Path \in Objects
           /\ Kind \in {"focused", "checked", "load"}
           /\ enabled
           /\ at # "say" => local.isLocated = FALSE
<1>1. local \in Locals /\ local.event \in Signals /\ enabled
  BY DEF IInv, TypeOK, Waiting, Handling
<1>2. local.isLocated \in BOOLEAN /\ (at # "say" => ~local.isLocated)
  BY <1>1 DEF IInv, Locating, Locals
<1> QED
  BY <1>1, <1>2 DEF Locals, Signals, Client, Path, Kind

LEMMA OutcomesType ==
    ASSUME NEW path, NEW ok \in Outcomes(path)
    PROVE  ok \in BOOLEAN /\ (ok => path # NoObject)
BY DEF Outcomes

LEMMA OutputType ==
    ASSUME NEW o \in Objects, NEW ok \in BOOLEAN
    PROVE  /\ Output(ok, Name[o]) \in Names
           /\ Output(ok, Description[o]) \in Names
           /\ Output(ok, Caption[o]) \in Names
           /\ Empty \in Names
BY DEF Output, Names

\* A step of a handler that changes nothing but the handler's own variables.
LEMMA GoOnStep ==
    ASSUME IInv, GoOn, at # "idle", at' \in HandlerSteps, local' \in Locals,
           local'.event = local.event
    PROVE  /\ TypeOK' /\ Waiting' /\ Said' /\ SavedText' /\ SavedLocation'
           /\ /\ local'.text.status = local.text.status
              /\ "status" \in local.lost => "status" \in local'.lost
              => Asked'
           /\ at # "say" /\ local'.isLocated = FALSE => Located'
<1>1. UNCHANGED <<checked, queue, enabled, savedVars, historyVars>>
  BY DEF GoOn
<1>2. Client' = Client /\ Path' = Path /\ Kind' = Kind /\ Box' = Box
  BY DEF Client, Path, Kind, Box
<1>3. TypeOK'
  BY <1>1 DEF IInv, TypeOK, savedVars, historyVars, HandlerSteps
<1>4. Waiting'
  BY <1>1, InHandler DEF IInv, Waiting
<1>5. Said'
  BY <1>1, <1>2 DEF IInv, Said, Due, Status, historyVars
<1>6. SavedText' /\ SavedLocation'
  BY <1>1 DEF IInv, SavedText, SavedLocation, savedVars, historyVars
<1>7. ASSUME local'.text.status = local.text.status,
             "status" \in local.lost => "status" \in local'.lost
      PROVE  Asked'
  BY <1>1, <1>2, <1>7 DEF IInv, Asked, Due, Status
<1>8. ASSUME at # "say", local'.isLocated = FALSE
      PROVE  Located'
  BY <1>1, <1>8, InHandler DEF IInv, Located, savedVars, historyVars
<1> QED
  BY <1>3, <1>4, <1>5, <1>6, <1>7, <1>8

\* Before the walk there is nothing to be said of the location.
LEMMA BeforeWalk ==
    ASSUME IInv, at \in {"name", "description", "role name", "states", "role"}
    PROVE  /\ local.text.caption = Empty /\ local.text.row = Empty
           /\ local.cursor = Path /\ local.row = NoObject
BY InHandler DEF IInv, Locating, Walking

LEMMA GetNameStep == IInv /\ GetName => IInv'
<1> SUFFICES ASSUME IInv, GetName
             PROVE  IInv'
  OBVIOUS
<1>1. PICK ok \in Outcomes(Path) : local' = [local EXCEPT !.text.name = Output(ok, Name[Path])]
  BY DEF GetName
<1>2. /\ at = "name" /\ GoOn
      /\ at' = CASE Kind = "focused" -> "description"
                 [] Kind = "checked" -> "role name"
                 [] Kind = "load" -> "role"
  BY DEF GetName
<1>3. /\ at' \in {"description", "role name", "role"}
      /\ at' = "description" => Kind = "focused"
      /\ at' = "role name" => Kind = "checked"
      /\ at' = "role" => Kind = "load"
  BY <1>2, InHandler
<1>4. /\ local \in Locals /\ local.text \in Texts /\ Output(ok, Name[Path]) \in Names
      /\ local.isLocated = FALSE
  BY <1>1, <1>2, InHandler, OutcomesType, OutputType
<1>5. /\ local'.event = local.event /\ local'.cursor = local.cursor /\ local'.row = local.row
      /\ local'.isLocated = FALSE /\ local'.lost = local.lost
      /\ local'.text = [local.text EXCEPT !.name = Output(ok, Name[Path])]
  BY <1>1, <1>4 DEF Locals
<1>6. /\ local'.text \in Texts /\ local'.text.status = local.text.status
      /\ local'.text.caption = local.text.caption /\ local'.text.row = local.text.row
  BY <1>4, <1>5 DEF Texts
<1>7. local' \in Locals
  BY <1>1, <1>4, <1>5, <1>6 DEF Locals
<1>8. TypeOK' /\ Waiting' /\ Asked' /\ Said' /\ SavedText' /\ SavedLocation' /\ Located'
  BY <1>2, <1>3, <1>5, <1>6, <1>7, GoOnStep DEF HandlerSteps
<1>9. Handling'
  BY <1>2, <1>3, <1>4, <1>5, <1>6, InHandler DEF IInv, Handling, Kind, Path
<1>10. Walking'
  BY <1>2, <1>3, <1>5, BeforeWalk DEF Walking, Path
<1>11. Locating'
  BY <1>2, <1>3, <1>5, <1>6, BeforeWalk DEF Locating
<1> QED
  BY <1>8, <1>9, <1>10, <1>11 DEF IInv

LEMMA GetDescriptionStep == IInv /\ GetDescription => IInv'
<1> SUFFICES ASSUME IInv, GetDescription
             PROVE  IInv'
  OBVIOUS
<1>1. /\ at = "description" /\ at' = "role name" /\ GoOn
      /\ \E ok \in Outcomes(Path), d \in Names : local' = [local EXCEPT !.text.description = d]
  <2>1. PICK ok \in Outcomes(Path) :
           local' = [local EXCEPT !.text.description =
                        IF local.text.name \in {Empty, Output(ok, Description[Path])}
                        THEN Empty ELSE Output(ok, Description[Path])]
    BY DEF GetDescription
  <2>2. at = "description" /\ at' = "role name" /\ GoOn
    BY DEF GetDescription
  <2>3. Output(ok, Description[Path]) \in Names /\ Empty \in Names
    BY <2>2, InHandler, OutcomesType, OutputType
  <2> QED
    BY <2>1, <2>2, <2>3
<1>2. PICK d \in Names : local' = [local EXCEPT !.text.description = d]
  BY <1>1
<1>3. Kind = "focused" /\ local \in Locals /\ local.text \in Texts /\ local.isLocated = FALSE
  BY <1>1, InHandler DEF IInv, Handling
<1>4. /\ local'.event = local.event /\ local'.cursor = local.cursor /\ local'.row = local.row
      /\ local'.isLocated = FALSE /\ local'.lost = local.lost
      /\ local'.text = [local.text EXCEPT !.description = d]
  BY <1>2, <1>3 DEF Locals
<1>5. /\ local'.text \in Texts /\ local'.text.status = local.text.status
      /\ local'.text.caption = local.text.caption /\ local'.text.row = local.text.row
  BY <1>3, <1>4 DEF Texts
<1>6. local' \in Locals
  BY <1>2, <1>3, <1>4, <1>5 DEF Locals
<1>7. TypeOK' /\ Waiting' /\ Asked' /\ Said' /\ SavedText' /\ SavedLocation' /\ Located'
  BY <1>1, <1>4, <1>5, <1>6, GoOnStep DEF HandlerSteps
<1>8. Handling'
  BY <1>1, <1>3, <1>4, <1>5, InHandler DEF IInv, Handling, Kind, Path
<1>9. Walking'
  BY <1>1, <1>4, BeforeWalk DEF Walking, Path
<1>10. Locating'
  BY <1>1, <1>4, <1>5, BeforeWalk DEF Locating
<1> QED
  BY <1>7, <1>8, <1>9, <1>10 DEF IInv

\* What a signal tells of a box is what the box is, unless another one waits.
LEMMA GetRoleNameStep == IInv /\ GetRoleName => IInv'
<1> SUFFICES ASSUME IInv, GetRoleName
             PROVE  IInv'
  OBVIOUS
<1> DEFINE isRole(ok, role) == ok /\ local.text.name # Empty /\ Role[Path] = role
           status(ok) == CASE Kind = "focused" /\ isRole(ok, "button") -> "button"
                           [] Kind = "checked" /\ isRole(ok, "check box") ->
                                 IF local.event.data = 1 THEN "checked" ELSE "unchecked"
                           [] OTHER -> "none"
<1>1. PICK ok \in Outcomes(Path) :
         /\ at' = CASE Kind = "checked" -> "say"
                    [] Kind = "focused" /\ isRole(ok, "check box") -> "states"
                    [] OTHER -> "role"
         /\ local' = [local EXCEPT !.text.status = status(ok)]
  BY DEF GetRoleName
<1>2. at = "role name" /\ GoOn
  BY DEF GetRoleName
<1>3. /\ Kind \in {"focused", "checked"} /\ Client \in Clients /\ Path \in Objects
      /\ local \in Locals /\ local.text \in Texts /\ local.isLocated = FALSE
  BY <1>2, InHandler DEF IInv, Handling
<1>4. /\ Kind = "checked" => at' = "say"
      /\ Kind = "focused" => at' \in {"states", "role"}
      /\ at' = "states" => Role[Path] = "check box"
  BY <1>1, <1>3
<1>5. /\ status(ok) \in {"none", "button", "checked", "unchecked"}
      /\ status(ok) = "button" => Kind = "focused"
      /\ status(ok) \in Statuses =>
            /\ Kind = "checked" /\ Role[Path] = "check box"
            /\ status(ok) = IF local.event.data = 1 THEN "checked" ELSE "unchecked"
  BY <1>3 DEF Statuses
<1>6. /\ local'.event = local.event /\ local'.cursor = local.cursor /\ local'.row = local.row
      /\ local'.isLocated = FALSE /\ local'.lost = local.lost
      /\ local'.text = [local.text EXCEPT !.status = status(ok)]
  BY <1>1, <1>3 DEF Locals
<1>7. /\ local'.text \in Texts /\ local'.text.status = status(ok)
      /\ local'.text.caption = local.text.caption /\ local'.text.row = local.text.row
  BY <1>3, <1>5, <1>6 DEF Texts
<1>8. local' \in Locals
  BY <1>1, <1>3, <1>6, <1>7 DEF Locals
<1>9. TypeOK' /\ Waiting' /\ Said' /\ SavedText' /\ SavedLocation' /\ Located'
  BY <1>2, <1>3, <1>4, <1>6, <1>8, GoOnStep DEF HandlerSteps
<1>10. Handling'
  BY <1>2, <1>3, <1>4, <1>5, <1>6, <1>7, InHandler DEF IInv, Handling, Kind, Path
<1>11. Asked'
  <2> HIDE DEF status
  <2>1. Client' = Client /\ Path' = Path /\ Kind' = Kind /\ Box' = Box /\ Due(Box)' = Due(Box)
        /\ checked' = checked
    BY <1>2, <1>6 DEF Client, Path, Kind, Box, Due, GoOn
  <2>2. Kind = "checked" /\ ~Due(Box) => local.event.data = Data(checked, local.event)
    BY DEF IInv, Asked
  <2>3. status(ok) \in Statuses /\ ~Due(Box) => status(ok) = Status(Client, Path)
    <3>1. local.event.data = Data(checked, local.event) =>
             (IF local.event.data = 1 THEN "checked" ELSE "unchecked") = Status(Client, Path)
      BY DEF Data, Status, Client, Path
    <3> QED
      BY <1>5, <2>2, <3>1
  <2>4. Status(Client, Path)' = Status(Client, Path)
    BY <2>1 DEF Status
  <2> QED
    BY <1>5, <1>6, <1>7, <2>1, <2>2, <2>3, <2>4 DEF Asked
<1>12. Walking'
  BY <1>2, <1>3, <1>4, <1>6, BeforeWalk DEF Walking, Path
<1>13. Locating'
  BY <1>2, <1>3, <1>4, <1>6, <1>7, BeforeWalk DEF Locating
<1> QED
  BY <1>9, <1>10, <1>11, <1>12, <1>13 DEF IInv

LEMMA GetStateStep == IInv /\ GetState => IInv'
<1> SUFFICES ASSUME IInv, GetState
             PROVE  IInv'
  OBVIOUS
<1> DEFINE status(ok) == IF ok THEN Status(Client, Path) ELSE "unchecked"
           lost(ok) == IF ok THEN local.lost ELSE local.lost \cup {"status"}
<1>1. PICK ok \in Outcomes(Path) :
         local' = [local EXCEPT !.text.status = status(ok), !.lost = lost(ok)]
  BY DEF GetState
<1>2. at = "states" /\ at' = "role" /\ GoOn
  BY DEF GetState
<1>3. /\ Kind = "focused" /\ Role[Path] = "check box" /\ Path \in Objects
      /\ local \in Locals /\ local.text \in Texts /\ local.isLocated = FALSE
  BY <1>2, InHandler DEF IInv, Handling
<1>4. /\ status(ok) \in Statuses
      /\ "status" \notin lost(ok) => status(ok) = Status(Client, Path)
      /\ lost(ok) \in SUBSET {"status", "location"}
      /\ local.lost \subseteq lost(ok)
  BY <1>3 DEF Status, Statuses, Locals
<1> HIDE DEF status, lost
<1>5. /\ local'.event = local.event /\ local'.cursor = local.cursor /\ local'.row = local.row
      /\ local'.isLocated = FALSE /\ local'.lost = lost(ok)
      /\ local'.text = [local.text EXCEPT !.status = status(ok)]
  BY <1>1, <1>3 DEF Locals
<1>6. /\ local'.text \in Texts /\ local'.text.status = status(ok)
      /\ local'.text.caption = local.text.caption /\ local'.text.row = local.text.row
  BY <1>3, <1>4, <1>5 DEF Texts, Statuses
<1>7. local' \in Locals
  BY <1>1, <1>3, <1>4, <1>5, <1>6 DEF Locals
<1>8. TypeOK' /\ Waiting' /\ Said' /\ SavedText' /\ SavedLocation' /\ Located'
  BY <1>2, <1>3, <1>5, <1>7, GoOnStep DEF HandlerSteps
<1>9. Handling'
  BY <1>2, <1>3, <1>4, <1>5, <1>6, InHandler DEF IInv, Handling, Kind, Path, Statuses
<1>10. Asked'
  <2>1. Client' = Client /\ Path' = Path /\ Kind' = Kind
    BY <1>5 DEF Client, Path, Kind
  <2>2. Status(Client, Path)' = Status(Client, Path)
    BY <1>2, <2>1 DEF Status, GoOn
  <2> QED
    BY <1>3, <1>4, <1>5, <1>6, <2>1, <2>2 DEF Asked
<1>11. Walking'
  BY <1>2, <1>3, <1>5, BeforeWalk DEF Walking, Path
<1>12. Locating'
  BY <1>2, <1>3, <1>5, <1>6, BeforeWalk DEF Locating
<1> QED
  BY <1>8, <1>9, <1>10, <1>11, <1>12 DEF IInv

\* A step that may end the handler of a load of a document frame, or forget where
\* the last cell was.
LEMMA GetRoleStep == IInv /\ GetRole => IInv'
<1> SUFFICES ASSUME IInv, GetRole
             PROVE  IInv'
  OBVIOUS
<1>1. /\ at = "role"
      /\ local' = IF at' = "idle" THEN Idle ELSE local
      /\ UNCHANGED <<checked, queue, enabled, savedText, savedPath, textBy, heard, said>>
  BY DEF GetRole
<1>2. /\ Kind \in {"focused", "load"} /\ Path \in Objects
      /\ local \in Locals /\ local.event \in Signals /\ local.isLocated = FALSE /\ enabled
  BY <1>1, InHandler DEF IInv, Handling
<1>3. \/ /\ Kind = "load" /\ at' \in {"idle", "say"}
         /\ UNCHANGED <<savedLocation, locationBy>>
      \/ /\ Kind = "focused" /\ at' = "parent"
         /\ UNCHANGED <<savedLocation, locationBy>>
      \/ /\ Kind = "focused" /\ at' = "say"
         /\ savedLocation' = Nowhere /\ locationBy' = NoClient
  BY <1>2 DEF GetRole
<1>4. /\ local.text.caption = Empty /\ local.text.row = Empty
      /\ local.cursor = Path /\ local.row = NoObject
  BY <1>1, BeforeWalk
<1>5. Idle \in Locals /\ Nowhere \in [cell : Paths, table : Paths, row : Paths]
  <2>1. NoText \in Texts
    BY DEF NoText, Texts, Names
  <2> QED
    BY <2>1 DEF Idle, Locals, Paths, Nowhere
<1>6. local' \in Locals /\ local'.isLocated = FALSE
  BY <1>1, <1>2, <1>5, IdleFacts
<1>7. TypeOK'
  <2>1. at' \in {"idle", "say", "parent"}
    BY <1>3
  <2>2. /\ savedLocation' \in [cell : Paths, table : Paths, row : Paths]
        /\ locationBy' \in Clients \cup {NoClient}
    BY <1>3, <1>5 DEF IInv, TypeOK
  <2> QED
    BY <1>1, <1>6, <2>1, <2>2 DEF IInv, TypeOK
<1>8. Waiting'
  BY <1>1, <1>2 DEF IInv, Waiting
<1>9. SavedText'
  BY <1>1 DEF IInv, SavedText
<1>10. SavedLocation'
  BY <1>3 DEF IInv, SavedLocation
<1>11. Located'
  BY <1>1, <1>2, <1>3, <1>6 DEF IInv, Located
<1>12. CASE at' = "idle"
  <2>1. /\ local' = Idle /\ local'.event.kind = "none" /\ local'.text.status = "none"
        /\ local'.text.caption = Empty /\ local'.text.row = Empty
        /\ local'.lost = {} /\ local'.isLocated = FALSE
    BY <1>1, <1>12, IdleFacts
  <2>2. Handling'
    BY <1>12, <2>1 DEF Handling, Kind
  <2>3. Asked'
    BY <2>1 DEF Asked, Kind, Statuses
  <2>4. Said'
    BY <1>1, <1>2, <2>1 DEF IInv, Said, Due, Status, Kind
  <2>5. Walking' /\ Locating'
    BY <1>12, <2>1 DEF Walking, Locating
  <2> QED
    BY <1>7, <1>8, <1>9, <1>10, <1>11, <2>2, <2>3, <2>4, <2>5 DEF IInv
<1>13. CASE at' # "idle"
  <2>1. local' = local /\ Client' = Client /\ Path' = Path /\ Kind' = Kind /\ Box' = Box
    BY <1>1, <1>13 DEF Client, Path, Kind, Box
  <2>2. Handling'
    BY <1>1, <1>2, <1>3, <1>13, <2>1 DEF IInv, Handling
  <2>3. Asked' /\ Said'
    BY <1>1, <2>1 DEF IInv, Asked, Said, Due, Status
  <2>4. Walking'
    BY <1>2, <1>3, <1>4, <1>13, <2>1 DEF Walking
  <2>5. Locating'
    BY <1>2, <1>3, <1>4, <1>13, <2>1 DEF Locating
  <2> QED
    BY <1>7, <1>8, <1>9, <1>10, <1>11, <2>2, <2>3, <2>4, <2>5 DEF IInv
<1> QED
  BY <1>12, <1>13

----------------------------------------------------------------------------
(* The walk.                                                               *)

\* A step of the walk, which leaves what is to be said alone.
LEMMA WalkStep ==
    ASSUME IInv, GoOn, at \in {"parent", "parent role", "caption"},
           NEW cursor \in Paths, NEW row \in Paths,
           local' = [local EXCEPT !.cursor = cursor, !.row = row],
           at' \in {"parent", "parent role", "caption", "caption name", "row name", "say"}
    PROVE  /\ local'.cursor = cursor /\ local'.row = row /\ local'.event = local.event
           /\ local'.text = local.text /\ local'.lost = local.lost /\ local'.isLocated = FALSE
           /\ local.text.caption = Empty /\ local.text.row = Empty
           /\ Client' = Client /\ Path' = Path /\ Kind' = Kind /\ Kind = "focused"
           /\ TypeOK' /\ Waiting' /\ Handling' /\ Asked' /\ Said' /\ SavedText'
           /\ SavedLocation' /\ Located'
<1>1. /\ local \in Locals /\ local.isLocated = FALSE /\ Kind = "focused"
      /\ local.event \in Signals
      /\ local.text.caption = Empty /\ local.text.row = Empty
  BY InHandler DEF IInv, Locating, Handling
<1>2. /\ local'.cursor = cursor /\ local'.row = row /\ local'.event = local.event
      /\ local'.text = local.text /\ local'.lost = local.lost /\ local'.isLocated = FALSE
      /\ local' \in Locals
  BY <1>1 DEF Locals
<1>3. Client' = Client /\ Path' = Path /\ Kind' = Kind
  BY <1>2 DEF Client, Path, Kind
<1>4. TypeOK' /\ Waiting' /\ Asked' /\ Said' /\ SavedText' /\ SavedLocation' /\ Located'
  BY <1>2, GoOnStep DEF HandlerSteps
<1>5. Handling'
  BY <1>1, <1>2, <1>3 DEF IInv, Handling
<1> QED
  BY <1>1, <1>2, <1>3, <1>4, <1>5

\* A walk that fails finds nothing.
LEMMA NoDescriptionStep ==
    ASSUME IInv, GoOn, at \in {"parent", "parent role", "caption"}, NoDescription
    PROVE  IInv'
<1>1. NoObject \in Paths
  BY DEF Paths
<1>2. at' = "say" /\ local' = [local EXCEPT !.cursor = NoObject, !.row = NoObject]
  BY DEF NoDescription
<1>3. /\ local'.text = local.text /\ local'.isLocated = FALSE
      /\ local.text.caption = Empty /\ local.text.row = Empty
      /\ TypeOK' /\ Waiting' /\ Handling' /\ Asked' /\ Said' /\ SavedText'
      /\ SavedLocation' /\ Located'
  BY <1>1, <1>2, WalkStep
<1>4. Walking'
  BY <1>2 DEF Walking
<1>5. Locating'
  BY <1>2, <1>3 DEF Locating
<1> QED
  BY <1>3, <1>4, <1>5 DEF IInv

LEMMA GetParentStep == IInv /\ GetParent => IInv'
<1> SUFFICES ASSUME IInv, GetParent
             PROVE  IInv'
  OBVIOUS
<1>1. at = "parent" /\ GoOn
  BY DEF GetParent
<1>2. /\ local \in Locals /\ local.cursor \in Objects /\ local.row \in Paths
      /\ TableOf[Path] = TableOf[local.cursor]
      /\ RowOf[Path] = IF RowOf[local.cursor] # NoObject THEN RowOf[local.cursor]
                       ELSE local.row
  BY <1>1, InHandler DEF IInv, Walking, Locals
<1>3. CASE NoDescription
  BY <1>1, <1>3, NoDescriptionStep
<1>4. CASE local' = [local EXCEPT !.cursor = Parent[local.cursor]] /\ at' = "parent role"
  <2> DEFINE o == local.cursor
             p == Parent[o]
  <2>1. p \in Paths
    BY <1>2, TreeAssumption DEF Paths
  <2>2. local' = [local EXCEPT !.cursor = p, !.row = local.row]
    BY <1>2, <1>4 DEF Locals
  <2>3. /\ local'.cursor = p /\ local'.row = local.row /\ Path' = Path
        /\ local'.text = local.text /\ local'.isLocated = FALSE
        /\ local.text.caption = Empty /\ local.text.row = Empty
        /\ TypeOK' /\ Waiting' /\ Handling' /\ Asked' /\ Said' /\ SavedText'
        /\ SavedLocation' /\ Located'
    <3>1. at' = "parent role" /\ local.row \in Paths
      BY <1>2, <1>4
    <3> HIDE DEF p
    <3> QED
      BY <1>1, <2>1, <2>2, <3>1, WalkStep
  <2>4. p # NoObject =>
           /\ TableOf[o] = IF Role[p] = "table" THEN p ELSE TableOf[p]
           /\ RowOf[o] = IF Role[p] = "table" THEN NoObject
                         ELSE IF RowOf[p] # NoObject THEN RowOf[p]
                         ELSE IF Role[p] = "row" THEN p ELSE NoObject
    BY <1>2, TableStep, RowStep
  <2> HIDE DEF p, o
  <2>5. Walking'
    <3>1. /\ TableOf[Path] = TableOf[o]
          /\ RowOf[Path] = IF RowOf[o] # NoObject THEN RowOf[o] ELSE local.row
      BY <1>2 DEF o
    <3>2. p # NoObject =>
             IF Role[p] = "table"
             THEN TableOf[Path] = p /\ RowOf[Path] = local.row
             ELSE /\ TableOf[Path] = TableOf[p]
                  /\ RowOf[Path] = IF RowOf[p] # NoObject THEN RowOf[p]
                                   ELSE IF Role[p] = "row" THEN p
                                   ELSE local.row
      <4>1. CASE Role[p] = "table"
        BY <2>4, <3>1, <4>1
      <4>2. CASE Role[p] # "table"
        BY <2>1, <2>4, <3>1, <4>2
      <4> QED
        BY <4>1, <4>2
    <3> QED
      BY <1>4, <2>3, <3>2 DEF Walking
  <2>6. Locating'
    BY <1>4, <2>3 DEF Locating
  <2> QED
    BY <2>3, <2>5, <2>6 DEF IInv
<1> QED
  BY <1>3, <1>4 DEF GetParent

LEMMA GetParentRoleStep == IInv /\ GetParentRole => IInv'
<1> SUFFICES ASSUME IInv, GetParentRole
             PROVE  IInv'
  OBVIOUS
<1> DEFINE o == local.cursor
<1>1. at = "parent role" /\ GoOn
  BY DEF GetParentRole
<1>2. local \in Locals /\ local.cursor \in Paths /\ local.row \in Paths
  BY <1>1, InHandler DEF Locals
<1>3. CASE NoDescription
  BY <1>1, <1>3, NoDescriptionStep
<1>4. CASE /\ o # NoObject
           /\ \/ Role[o] = "table" /\ at' = "caption" /\ local' = local
              \/ /\ Role[o] = "row" /\ at' = "parent"
                 /\ local' = [local EXCEPT !.row = o]
              \/ /\ Role[o] \notin {"table", "row"} /\ at' = "parent"
                 /\ local' = local
  <2> DEFINE row == IF Role[o] = "row" THEN o ELSE local.row
  <2>1. o \in Objects /\ row \in Paths
    BY <1>2, <1>4 DEF Paths
  <2>2. local' = [local EXCEPT !.cursor = o, !.row = row]
    BY <1>2, <1>4 DEF Locals
  <2>3. at' = IF Role[o] = "table" THEN "caption" ELSE "parent"
    BY <1>4
  <2>4. /\ Role[o] = "table" =>
              TableOf[Path] = o /\ RowOf[Path] = local.row
        /\ Role[o] # "table" =>
              /\ TableOf[Path] = TableOf[o]
              /\ RowOf[Path] = IF RowOf[o] # NoObject THEN RowOf[o]
                               ELSE IF Role[o] = "row" THEN o ELSE local.row
    BY <1>1, <1>4 DEF IInv, Walking
  <2> HIDE DEF row
  <2>5. /\ local'.cursor = o /\ local'.row = row /\ Path' = Path
        /\ local'.text = local.text /\ local'.isLocated = FALSE
        /\ local.text.caption = Empty /\ local.text.row = Empty
        /\ TypeOK' /\ Waiting' /\ Handling' /\ Asked' /\ Said' /\ SavedText'
        /\ SavedLocation' /\ Located'
    BY <1>1, <1>2, <2>1, <2>2, <2>3, WalkStep
  <2> HIDE DEF o
  <2>6. Walking'
    <3>1. CASE Role[o] = "table"
      BY <2>1, <2>3, <2>4, <2>5, <3>1 DEF Walking, row
    <3>2. CASE Role[o] # "table"
      BY <2>1, <2>3, <2>4, <2>5, <3>2 DEF Walking, row
    <3> QED
      BY <3>1, <3>2
  <2>7. Locating'
    BY <2>3, <2>5 DEF Locating
  <2> QED
    BY <2>5, <2>6, <2>7 DEF IInv
<1>5. PICK ok \in Outcomes(o) :
         CASE ~ok -> NoDescription
           [] ok /\ Role[o] = "table" -> at' = "caption" /\ UNCHANGED local
           [] ok /\ Role[o] = "row" -> local' = [local EXCEPT !.row = o] /\ at' = "parent"
           [] OTHER -> at' = "parent" /\ UNCHANGED local
  BY DEF GetParentRole
<1>6. ok \in BOOLEAN /\ (ok => o # NoObject)
  BY <1>5, OutcomesType
<1>7. CASE ~ok
  BY <1>3, <1>5, <1>6, <1>7
<1>8. CASE ok
  BY <1>4, <1>5, <1>6, <1>8
<1> QED
  BY <1>6, <1>7, <1>8

LEMMA GetCaptionStep == IInv /\ GetCaption => IInv'
<1> SUFFICES ASSUME IInv, GetCaption
             PROVE  IInv'
  OBVIOUS
<1> DEFINE t == local.cursor
           isSaid == Caption[t] # Empty /\ IsNew(t, savedLocation.table)
<1>1. at = "caption" /\ GoOn
  BY DEF GetCaption
<1>2. /\ local \in Locals /\ t \in Objects /\ t \in Paths /\ local.row \in Paths
      /\ TableOf[Path] = t /\ RowOf[Path] = local.row
  BY <1>1, InHandler DEF IInv, Walking, Locals
<1>3. CASE NoDescription
  BY <1>1, <1>3, NoDescriptionStep
<1>4. CASE at' = (IF isSaid THEN "caption name" ELSE "row name") /\ local' = local
  <2>1. local' = [local EXCEPT !.cursor = t, !.row = local.row]
    BY <1>2, <1>4 DEF Locals
  <2>2. at' \in {"caption name", "row name"}
    BY <1>4
  <2>3. /\ Path' = Path /\ local.isLocated = FALSE
        /\ local.text.caption = Empty /\ local.text.row = Empty
        /\ TypeOK' /\ Waiting' /\ Handling' /\ Asked' /\ Said' /\ SavedText'
        /\ SavedLocation' /\ Located'
    BY <1>1, <1>2, <1>4, <2>1, <2>2, WalkStep
  <2>4. Walking'
    BY <1>2, <1>4, <2>2, <2>3 DEF Walking
  <2>5. /\ at' = "caption name" => Caption[t] # Empty
        /\ at' = "row name" /\ Caption[t] # Empty =>
              Path # savedLocation.cell /\ t = savedLocation.table
    BY <1>2, <1>4, TreeAssumption DEF IsNew
  <2>6. Locating'
    BY <1>1, <1>4, <2>2, <2>3, <2>5 DEF Locating, GoOn, savedVars
  <2> QED
    BY <2>3, <2>4, <2>6 DEF IInv
<1> QED
  BY <1>3, <1>4 DEF GetCaption

LEMMA GetCaptionNameStep == IInv /\ GetCaptionName => IInv'
<1> SUFFICES ASSUME IInv, GetCaptionName
             PROVE  IInv'
  OBVIOUS
<1> DEFINE t == local.cursor
           lost(ok) == IF ok THEN local.lost ELSE local.lost \cup {"location"}
<1>1. PICK ok \in Outcomes(t) :
         local' = [local EXCEPT !.text.caption = Output(ok, Caption[t]), !.lost = lost(ok)]
  BY DEF GetCaptionName
<1>2. at = "caption name" /\ at' = "row name" /\ GoOn
  BY DEF GetCaptionName
<1>3. /\ t \in Objects /\ TableOf[Path] = t /\ RowOf[Path] = local.row
      /\ Caption[t] # Empty /\ local.text.row = Empty
      /\ Kind = "focused" /\ local \in Locals /\ local.text \in Texts
      /\ local.isLocated = FALSE
  BY <1>2, InHandler DEF IInv, Walking, Locating, Handling
<1>4. Output(ok, Caption[t]) \in Names /\ ok \in BOOLEAN
  BY <1>1, <1>3, OutcomesType, OutputType
<1>5. "location" \notin lost(ok) => Output(ok, Caption[t]) # Empty
  BY <1>3, <1>4 DEF Output
<1>6. lost(ok) \in SUBSET {"status", "location"} /\ local.lost \subseteq lost(ok)
  BY <1>3 DEF Locals
<1> HIDE DEF lost
<1>7. /\ local'.event = local.event /\ local'.cursor = local.cursor /\ local'.row = local.row
      /\ local'.isLocated = FALSE /\ local'.lost = lost(ok)
      /\ local'.text = [local.text EXCEPT !.caption = Output(ok, Caption[t])]
  BY <1>1, <1>3 DEF Locals
<1>8. /\ local'.text \in Texts /\ local'.text.status = local.text.status
      /\ local'.text.caption = Output(ok, Caption[t]) /\ local'.text.row = local.text.row
  BY <1>3, <1>4, <1>7 DEF Texts
<1>9. local' \in Locals
  BY <1>1, <1>3, <1>6, <1>7, <1>8 DEF Locals
<1>10. TypeOK' /\ Waiting' /\ Asked' /\ Said' /\ SavedText' /\ SavedLocation' /\ Located'
  BY <1>2, <1>3, <1>6, <1>7, <1>8, <1>9, GoOnStep DEF HandlerSteps
<1>11. Path' = Path /\ Kind' = Kind
  BY <1>7 DEF Path, Kind
<1>12. Handling'
  BY <1>2, <1>3, <1>7, <1>8, <1>11, InHandler DEF IInv, Handling
<1>13. Walking'
  BY <1>2, <1>3, <1>7, <1>11 DEF Walking
<1>14. Locating'
  BY <1>2, <1>3, <1>5, <1>7, <1>8 DEF Locating
<1> QED
  BY <1>10, <1>12, <1>13, <1>14 DEF IInv

\* What is not announced of the location was heard when the last cell's was.
LEMMA GetRowNameStep == IInv /\ GetRowName => IInv'
<1> SUFFICES ASSUME IInv, GetRowName
             PROVE  IInv'
  OBVIOUS
<1> DEFINE t == local.cursor
           r == local.row
           described(name, lost) ==
              [local EXCEPT !.cursor = NoObject, !.row = NoObject, !.isLocated = TRUE,
                            !.text.row = name, !.lost = @ \cup lost]
<1>1. /\ at = "row name" /\ at' = "say"
      /\ savedLocation' = [cell |-> Path, table |-> t, row |-> r]
      /\ locationBy' = IF savedLocation = Nowhere \/ locationBy = Client
                       THEN Client ELSE NoClient
      /\ UNCHANGED <<checked, queue, enabled, savedText, savedPath, textBy, heard, said>>
  BY DEF GetRowName
<1>2. /\ Client \in Clients /\ Path \in Objects /\ Kind = "focused" /\ enabled
      /\ local \in Locals /\ local.text \in Texts /\ local.event \in Signals
      /\ t \in Objects /\ t \in Paths /\ r \in Paths /\ Path \in Paths
      /\ t # NoObject /\ Path # NoObject
      /\ TableOf[Path] = t /\ RowOf[Path] = r
      /\ local.isLocated = FALSE
  BY <1>1, InHandler, TreeAssumption DEF IInv, Walking, Handling, Locals, Paths
<1>3. \E name \in Names, lost \in SUBSET {"location"} :
         /\ local' = described(name, lost)
         /\ r # NoObject /\ Name[r] # Empty /\ name = Empty =>
               \/ "location" \in lost
               \/ Path # savedLocation.cell /\ r = savedLocation.row
  <2>1. CASE IsNew(r, savedLocation.row)
    <3>1. PICK ok \in Outcomes(r) :
             local' = described(Output(ok, Name[r]), IF ok THEN {} ELSE {"location"})
      BY <2>1 DEF GetRowName
    <3>2. r \in Objects
      BY <1>2, <2>1 DEF IsNew, Paths
    <3>3. ok \in BOOLEAN /\ Output(ok, Name[r]) \in Names
      BY <3>1, <3>2, OutcomesType, OutputType
    <3>4. CASE ok
      <4>1. local' = described(Output(ok, Name[r]), {}) /\ {} \in SUBSET {"location"}
        BY <3>1, <3>4
      <4>2. Output(ok, Name[r]) = Name[r]
        BY <3>4 DEF Output
      <4> HIDE DEF described
      <4> QED
        BY <3>3, <4>1, <4>2
    <3>5. CASE ~ok
      <4>1. /\ local' = described(Output(ok, Name[r]), {"location"})
            /\ {"location"} \in SUBSET {"location"}
        BY <3>1, <3>5
      <4> HIDE DEF described
      <4> QED
        BY <3>3, <4>1
    <3> QED
      BY <3>3, <3>4, <3>5
  <2>2. CASE ~IsNew(r, savedLocation.row)
    <3>1. local' = described(Empty, {}) /\ {} \in SUBSET {"location"} /\ Empty \in Names
      BY <1>2, <2>2, OutputType DEF GetRowName
    <3>2. r # NoObject => Path # savedLocation.cell /\ r = savedLocation.row
      BY <2>2 DEF IsNew
    <3> HIDE DEF described
    <3> QED
      BY <3>1, <3>2
  <2> QED
    BY <2>1, <2>2
<1>4. PICK name \in Names, lost \in SUBSET {"location"} :
         /\ local' = described(name, lost)
         /\ r # NoObject /\ Name[r] # Empty /\ name = Empty =>
               \/ "location" \in lost
               \/ Path # savedLocation.cell /\ r = savedLocation.row
  BY <1>3
<1>5. /\ local'.event = local.event /\ local'.cursor = NoObject /\ local'.row = NoObject
      /\ local'.isLocated = TRUE /\ local'.lost = local.lost \cup lost
      /\ local'.text = [local.text EXCEPT !.row = name]
  BY <1>2, <1>4 DEF Locals
<1>6. /\ local'.text \in Texts /\ local'.text.status = local.text.status
      /\ local'.text.caption = local.text.caption /\ local'.text.row = name
  BY <1>2, <1>5 DEF Texts
<1>7. local' \in Locals
  <2>1. local'.lost \in SUBSET {"status", "location"}
    BY <1>2, <1>5 DEF Locals
  <2> QED
    BY <1>2, <1>4, <1>5, <1>6, <2>1 DEF Locals, Paths
<1>8. Client' = Client /\ Path' = Path /\ Kind' = Kind /\ Box' = Box
  BY <1>5 DEF Client, Path, Kind, Box
<1>9. savedLocation'.cell = Path /\ savedLocation'.table = t /\ savedLocation'.row = r
      /\ savedLocation' # Nowhere
  BY <1>1, <1>2 DEF Nowhere
<1>10. TypeOK'
  BY <1>1, <1>2, <1>7 DEF IInv, TypeOK
<1>11. Waiting'
  BY <1>1, <1>2 DEF IInv, Waiting
<1>12. Handling'
  BY <1>1, <1>2, <1>5, <1>6, <1>8 DEF IInv, Handling
<1>13. Asked' /\ Said'
  <2>1. "status" \in local.lost => "status" \in local'.lost
    BY <1>5
  <2>2. Asked'
    BY <1>1, <1>2, <1>5, <1>6, <1>8, <2>1 DEF IInv, Asked, Due, Status
  <2>3. Said'
    BY <1>1, <1>8 DEF IInv, Said, Due, Status
  <2> QED
    BY <2>2, <2>3
<1>14. SavedText'
  BY <1>1 DEF IInv, SavedText
<1>15. SavedLocation'
  BY <1>2, <1>9 DEF SavedLocation
<1>16. Walking'
  BY <1>1 DEF Walking
<1>17. ASSUME locationBy' # NoClient, "location" \notin local'.lost
       PROVE  /\ Caption[t] # Empty /\ local'.text.caption = Empty =>
                    heard.table = <<Client, t>>
              /\ r # NoObject /\ Name[r] # Empty /\ local'.text.row = Empty =>
                    heard.row = <<Client, r>>
  <2>1. savedLocation = Nowhere \/ locationBy = Client
    BY <1>1, <1>17
  <2>2. Client # NoClient
    BY <1>2, NoClientIsNone
  <2>3. "location" \notin local.lost /\ "location" \notin lost
    BY <1>5, <1>17
  <2>4. Nowhere.table = NoObject /\ Nowhere.row = NoObject
    BY DEF Nowhere
  <2>5. savedLocation # Nowhere =>
           /\ Caption[savedLocation.table] # Empty =>
                 heard.table = <<Client, savedLocation.table>>
           /\ savedLocation.row # NoObject /\ Name[savedLocation.row] # Empty =>
                 heard.row = <<Client, savedLocation.row>>
    BY <1>2, <2>1, <2>2 DEF IInv, Located
  <2>6. Caption[t] # Empty /\ local.text.caption = Empty => t = savedLocation.table
    BY <1>1, <2>3 DEF IInv, Locating
  <2>7. r # NoObject /\ Name[r] # Empty /\ name = Empty => r = savedLocation.row
    BY <1>4, <2>3
  <2> QED
    BY <1>2, <1>6, <2>4, <2>5, <2>6, <2>7
<1>18. Locating'
  <2>1. locationBy' \in {NoClient, Client}
    BY <1>1
  <2> QED
    BY <1>1, <1>5, <1>8, <1>9, <1>17, <2>1 DEF Locating
<1>19. Located'
  BY <1>5 DEF Located
<1> QED
  BY <1>10, <1>11, <1>12, <1>13, <1>14, <1>15, <1>16, <1>18, <1>19 DEF IInv

----------------------------------------------------------------------------
(* The end of a handler.                                                   *)

LEMMA EndsStep ==
    ASSUME IInv, at # "idle", Ends, Said', SavedText', Located',
           savedText' \in Texts, savedPath' \in Paths,
           {locationBy', textBy'} \subseteq Clients \cup {NoClient},
           heard' \in [table : (Clients \cup {NoClient}) \X Paths,
                       row : (Clients \cup {NoClient}) \X Paths],
           said' \in [Boxes -> {"none", "checked", "unchecked"}]
    PROVE  IInv'
<1>1. /\ at' = "idle" /\ local' = Idle
      /\ UNCHANGED <<checked, queue, enabled, savedLocation>>
  BY DEF Ends
<1>2. /\ local'.event.kind = "none" /\ local'.text.status = "none"
      /\ local'.text.caption = Empty /\ local'.text.row = Empty
      /\ local'.lost = {} /\ local'.isLocated = FALSE
  BY <1>1, IdleFacts
<1>3. Idle \in Locals
  <2>1. NoText \in Texts
    BY DEF NoText, Texts, Names
  <2> QED
    BY <2>1 DEF Idle, Locals, Paths
<1>4. TypeOK'
  BY <1>1, <1>3 DEF IInv, TypeOK
<1>5. Waiting'
  BY <1>1 DEF IInv, Waiting
<1>6. Handling'
  BY <1>1, <1>2 DEF Handling, Kind
<1>7. Asked'
  BY <1>2 DEF Asked, Kind, Statuses
<1>8. SavedLocation'
  BY <1>1 DEF IInv, SavedLocation
<1>9. Walking' /\ Locating'
  BY <1>1, <1>2 DEF Walking, Locating
<1> QED
  BY <1>4, <1>5, <1>6, <1>7, <1>8, <1>9 DEF IInv

HeardSet == [table : (Clients \cup {NoClient}) \X Paths, row : (Clients \cup {NoClient}) \X Paths]

LEMMA ForgetBox ==
    ASSUME said \in [Boxes -> {"none", "checked", "unchecked"}], NEW b
    PROVE  /\ Forget({b}) \in [Boxes -> {"none", "checked", "unchecked"}]
           /\ \A d \in Boxes : Forget({b})[d] = IF d = b THEN "none" ELSE said[d]
BY DEF Forget

\* What is known when there is something to be said.
LEMMA SayFacts ==
    ASSUME IInv, at = "say"
    PROVE  /\ local \in Locals /\ local.text \in Texts
           /\ Client \in Clients /\ Client # NoClient /\ Path \in Objects /\ Path \in Paths
           /\ local.text.status \in {"none", "button", "checked", "unchecked"}
           /\ Kind = "checked" => local.text.status # "button" /\ Box \in Boxes
           /\ Kind # "focused" => local.lost = {} /\ ~local.isLocated
           /\ local.text.status \in Statuses => Path \in CheckBoxes /\ Box \in Boxes
           /\ local.text.status \in Statuses /\ "status" \notin local.lost /\ ~Due(Box) =>
                 local.text.status = Status(Client, Path)
           /\ ~local.isLocated => local.text.caption = Empty /\ local.text.row = Empty
           /\ local.isLocated =>
                 /\ savedLocation # Nowhere
                 /\ savedLocation.cell = Path
                 /\ savedLocation.table = TableOf[Path] /\ savedLocation.row = RowOf[Path]
                 /\ locationBy \in {NoClient, Client}
           /\ said \in [Boxes -> {"none", "checked", "unchecked"}] /\ heard \in HeardSet
           /\ locationBy \in Clients \cup {NoClient} /\ textBy \in Clients \cup {NoClient}
           /\ savedLocation.table \in Paths /\ savedLocation.row \in Paths
<1>1. /\ local \in Locals /\ local.text \in Texts
      /\ Client \in Clients /\ Client # NoClient /\ Path \in Objects /\ Path \in Paths
  BY InHandler, NoClientIsNone DEF Paths
<1>2. local.text.status \in {"none", "button", "checked", "unchecked"}
  BY <1>1 DEF Texts
<1>3. /\ Kind = "checked" => local.text.status # "button" /\ Path \in CheckBoxes
      /\ Kind # "focused" => local.lost = {} /\ ~local.isLocated
  BY DEF IInv, Handling
<1>4. /\ local.text.status \in Statuses => Path \in CheckBoxes
      /\ local.text.status \in Statuses /\ "status" \notin local.lost /\ ~Due(Box) =>
            local.text.status = Status(Client, Path)
  BY <1>1 DEF IInv, Asked, CheckBoxes
<1>5. Path \in CheckBoxes => Box \in Boxes
  BY <1>1 DEF Box, Boxes
<1>6. ~local.isLocated => local.text.caption = Empty /\ local.text.row = Empty
  BY DEF IInv, Locating
<1>7. local.isLocated =>
         /\ savedLocation # Nowhere
         /\ savedLocation.cell = Path
         /\ savedLocation.table = TableOf[Path] /\ savedLocation.row = RowOf[Path]
         /\ locationBy \in {NoClient, Client}
  BY DEF IInv, Locating, SavedLocation
<1>8. /\ said \in [Boxes -> {"none", "checked", "unchecked"}] /\ heard \in HeardSet
      /\ locationBy \in Clients \cup {NoClient} /\ textBy \in Clients \cup {NoClient}
      /\ savedLocation.table \in Paths /\ savedLocation.row \in Paths
  BY DEF IInv, TypeOK, HeardSet
<1> QED
  BY <1>1, <1>2, <1>3, <1>4, <1>5, <1>6, <1>7, <1>8

\* Nothing is spoken: it was heard before, or it is known not to be.
LEMMA IsToldStep ==
    ASSUME IInv, at = "say", Ends, NEW isTold \in BOOLEAN, IsTold(isTold),
           isTold => /\ local.text.status \in Statuses => said[Box] \in {"none", local.text.status}
                     /\ local.text.caption # Empty => heard.table = <<Client, TableOf[Path]>>
                     /\ local.text.row # Empty => heard.row = <<Client, RowOf[Path]>>
    PROVE  /\ Said' /\ Located' /\ heard' = heard
           /\ said' \in [Boxes -> {"none", "checked", "unchecked"}]
           /\ \A b \in Boxes : said'[b] \in {"none", said[b]}
           /\ locationBy' \in Clients \cup {NoClient}
<1>1. /\ heard' = heard
      /\ locationBy' = IF local.isLocated /\ ("location" \in local.lost \/ ~isTold)
                       THEN NoClient ELSE locationBy
      /\ said' = IF Kind = "checked" /\ ~(isTold /\ local.text.status # "none")
                 THEN Forget({Box}) ELSE said
  BY DEF IsTold, Locate
<1>2. UNCHANGED <<checked, queue, savedLocation>> /\ local' = Idle
  BY DEF Ends
<1>3. said \in [Boxes -> {"none", "checked", "unchecked"}]
  BY SayFacts
<1>4. /\ said' \in [Boxes -> {"none", "checked", "unchecked"}]
      /\ \A b \in Boxes : said'[b] \in {"none", said[b]}
  BY <1>1, <1>3, ForgetBox
<1>5. Said'
  <2>1. local'.event.kind = "none"
    BY <1>2, IdleFacts
  <2>2. ASSUME NEW b \in Boxes, ~Due(b)
        PROVE  said'[b] \in {"none", Status(b[1], b[2])}
    <3>1. CASE ~(Kind = "checked" /\ b = Box)
      BY <1>4, <2>2, <3>1 DEF IInv, Said
    <3>2. CASE Kind = "checked" /\ b = Box /\ isTold /\ local.text.status # "none"
      <4>1. local.text.status \in Statuses /\ "status" \notin local.lost
        BY <3>2, SayFacts DEF Statuses
      <4>2. local.text.status = Status(b[1], b[2])
        BY <2>2, <3>2, <4>1, SayFacts DEF Box
      <4> QED
        BY <1>4, <3>2, <4>1, <4>2
    <3>3. CASE Kind = "checked" /\ b = Box /\ ~(isTold /\ local.text.status # "none")
      BY <1>1, <1>3, <3>3, ForgetBox
    <3> QED
      BY <3>1, <3>2, <3>3
  <2>3. \A b \in Boxes : /\ Due(b)' <=> Due(b)
                        /\ Status(b[1], b[2])' = Status(b[1], b[2])
    BY <1>2 DEF Due, Status
  <2> QED
    BY <2>1, <2>2, <2>3 DEF Said, Kind
<1>6. Located'
  <2>1. ASSUME savedLocation # Nowhere, locationBy' # NoClient
        PROVE  /\ Caption[savedLocation.table] # Empty =>
                     heard.table = <<locationBy', savedLocation.table>>
               /\ savedLocation.row # NoObject /\ Name[savedLocation.row] # Empty =>
                     heard.row = <<locationBy', savedLocation.row>>
    <3>1. CASE local.isLocated
      <4>1. isTold /\ "location" \notin local.lost /\ locationBy' = Client /\ locationBy = Client
        BY <1>1, <2>1, <3>1, SayFacts
      <4>2. savedLocation.table = TableOf[Path] /\ savedLocation.row = RowOf[Path]
        BY <3>1, SayFacts
      <4>3. /\ Caption[savedLocation.table] # Empty /\ local.text.caption = Empty =>
                  heard.table = <<Client, savedLocation.table>>
            /\ savedLocation.row # NoObject /\ Name[savedLocation.row] # Empty
                  /\ local.text.row = Empty =>
                  heard.row = <<Client, savedLocation.row>>
        BY <2>1, <3>1, <4>1, <1>1 DEF IInv, Locating
      <4> QED
        BY <4>1, <4>2, <4>3
    <3>2. CASE ~local.isLocated
      BY <1>1, <2>1, <3>2 DEF IInv, Located
    <3> QED
      BY <3>1, <3>2
  <2> QED
    BY <1>1, <1>2, <2>1 DEF Located
<1>7. locationBy' \in Clients \cup {NoClient}
  BY <1>1, SayFacts
<1> QED
  BY <1>1, <1>4, <1>5, <1>6, <1>7

\* What is spoken is what the user knows then.
LEMMA HearStep ==
    ASSUME IInv, at = "say", Ends, Hear
    PROVE  /\ Said' /\ Located'
           /\ said' \in [Boxes -> {"none", "checked", "unchecked"}]
           /\ heard' \in HeardSet
           /\ locationBy' \in Clients \cup {NoClient}
           /\ local.text.status \in Statuses => said'[Box] \in {"none", local.text.status}
           /\ local.text.caption # Empty => heard'.table = <<Client, TableOf[Path]>>
           /\ local.text.row # Empty => heard'.row = <<Client, RowOf[Path]>>
           /\ Kind = "load" => heard' = heard /\ said' = said
<1> DEFINE text == local.text
           named(part, object, before) ==
              IF Kind = "focused" /\ savedLocation = Nowhere THEN <<NoClient, NoObject>>
              ELSE IF part # Empty THEN <<Client, object>> ELSE before
<1>1. /\ heard' = [table |-> named(text.caption, savedLocation.table, heard.table),
                   row |-> named(text.row, savedLocation.row, heard.row)]
      /\ said' = IF text.status \in {"checked", "unchecked"} /\ "status" \notin local.lost
                 THEN [said EXCEPT ![Box] = text.status]
                 ELSE IF Kind = "checked" \/ "status" \in local.lost THEN Forget({Box})
                 ELSE said
      /\ locationBy' = IF local.isLocated /\ "location" \in local.lost THEN NoClient
                       ELSE locationBy
  BY DEF Hear, Locate
<1>2. UNCHANGED <<checked, queue, savedLocation>> /\ local' = Idle
  BY DEF Ends
<1>3. said \in [Boxes -> {"none", "checked", "unchecked"}] /\ heard \in HeardSet
  BY SayFacts
<1>4. \/ /\ text.status \in Statuses /\ "status" \notin local.lost
         /\ said' = [said EXCEPT ![Box] = text.status]
      \/ /\ ~(text.status \in Statuses /\ "status" \notin local.lost)
         /\ Kind = "checked" \/ "status" \in local.lost
         /\ said' = Forget({Box})
      \/ /\ text.status \notin Statuses /\ Kind # "checked"
         /\ said' = said
  BY <1>1 DEF Statuses
<1>5. /\ said' \in [Boxes -> {"none", "checked", "unchecked"}]
      /\ \A b \in Boxes : b # Box => said'[b] \in {"none", said[b]}
      /\ text.status \in Statuses => said'[Box] \in {"none", text.status}
  <2>1. CASE text.status \in Statuses /\ said' = [said EXCEPT ![Box] = text.status]
    BY <1>3, <2>1, SayFacts DEF Statuses
  <2>2. CASE said' = Forget({Box})
    <3>1. text.status \in Statuses => Box \in Boxes
      BY SayFacts
    <3>2. \A d \in Boxes : said'[d] = IF d = Box THEN "none" ELSE said[d]
      BY <1>3, <2>2, ForgetBox
    <3>3. said' \in [Boxes -> {"none", "checked", "unchecked"}]
      BY <1>3, <2>2, ForgetBox
    <3> QED
      BY <3>1, <3>2, <3>3
  <2>3. CASE text.status \notin Statuses /\ said' = said
    BY <1>3, <2>3
  <2> QED
    BY <1>4, <2>1, <2>2, <2>3
<1>6. Said'
  <2>1. local'.event.kind = "none"
    BY <1>2, IdleFacts
  <2>2. ASSUME NEW b \in Boxes, ~Due(b)
        PROVE  said'[b] \in {"none", Status(b[1], b[2])}
    <3>1. CASE b # Box
      BY <1>5, <2>2, <3>1 DEF IInv, Said
    <3>2. CASE b = Box
      <4>1. CASE text.status \in Statuses /\ "status" \notin local.lost
        <5>1. text.status = Status(b[1], b[2])
          BY <2>2, <3>2, <4>1, SayFacts DEF Box
        <5> QED
          BY <1>5, <3>2, <4>1, <5>1
      <4>2. CASE said' = Forget({Box})
        BY <1>3, <3>2, <4>2, ForgetBox
      <4>3. CASE Kind # "checked" /\ said' = said
        BY <2>2, <4>3 DEF IInv, Said
      <4> QED
        BY <1>4, <4>1, <4>2, <4>3
    <3> QED
      BY <3>1, <3>2
  <2>3. \A b \in Boxes : /\ Due(b)' <=> Due(b)
                        /\ Status(b[1], b[2])' = Status(b[1], b[2])
    BY <1>2 DEF Due, Status
  <2> QED
    BY <2>1, <2>2, <2>3 DEF Said, Kind
<1>7. /\ heard'.table = named(text.caption, savedLocation.table, heard.table)
      /\ heard'.row = named(text.row, savedLocation.row, heard.row)
  BY <1>1
<1>8. heard' \in HeardSet
  <2>1. <<NoClient, NoObject>> \in (Clients \cup {NoClient}) \X Paths
    BY DEF Paths
  <2>2. /\ <<Client, savedLocation.table>> \in (Clients \cup {NoClient}) \X Paths
        /\ <<Client, savedLocation.row>> \in (Clients \cup {NoClient}) \X Paths
    BY SayFacts
  <2>3. /\ heard.table \in (Clients \cup {NoClient}) \X Paths
        /\ heard.row \in (Clients \cup {NoClient}) \X Paths
    BY <1>3 DEF HeardSet
  <2>4. /\ named(text.caption, savedLocation.table, heard.table)
                \in (Clients \cup {NoClient}) \X Paths
        /\ named(text.row, savedLocation.row, heard.row)
                \in (Clients \cup {NoClient}) \X Paths
    BY <2>1, <2>2, <2>3
  <2> HIDE DEF named
  <2> QED
    BY <1>1, <2>4 DEF HeardSet
<1>9. /\ text.caption # Empty => heard'.table = <<Client, TableOf[Path]>>
      /\ text.row # Empty => heard'.row = <<Client, RowOf[Path]>>
  BY <1>7, SayFacts
<1>10. Kind = "load" => heard' = heard /\ said' = said
  <2> SUFFICES ASSUME Kind = "load"
               PROVE  heard' = heard /\ said' = said
    OBVIOUS
  <2>1. local.lost = {} /\ text.status = "none" /\ text.caption = Empty /\ text.row = Empty
    BY SayFacts DEF IInv, Handling
  <2>2. heard' = [table |-> heard.table, row |-> heard.row]
    BY <1>1, <2>1
  <2>3. heard = [table |-> heard.table, row |-> heard.row]
    BY <1>3 DEF HeardSet
  <2>4. said' = said
    BY <1>4, <2>1 DEF Statuses
  <2> QED
    BY <2>2, <2>3, <2>4
<1>11. Located'
  <2>1. ASSUME savedLocation # Nowhere, locationBy' # NoClient
        PROVE  /\ Caption[savedLocation.table] # Empty =>
                     heard'.table = <<locationBy', savedLocation.table>>
               /\ savedLocation.row # NoObject /\ Name[savedLocation.row] # Empty =>
                     heard'.row = <<locationBy', savedLocation.row>>
    <3>1. CASE local.isLocated
      <4>1. "location" \notin local.lost /\ locationBy' = Client /\ locationBy = Client
        BY <1>1, <2>1, <3>1, SayFacts
      <4>2. savedLocation.table = TableOf[Path] /\ savedLocation.row = RowOf[Path]
        BY <3>1, SayFacts
      <4>3. /\ Caption[savedLocation.table] # Empty /\ text.caption = Empty =>
                  heard.table = <<Client, savedLocation.table>>
            /\ savedLocation.row # NoObject /\ Name[savedLocation.row] # Empty
                  /\ text.row = Empty =>
                  heard.row = <<Client, savedLocation.row>>
        BY <2>1, <3>1, <4>1, <1>1 DEF IInv, Locating
      <4> QED
        BY <1>7, <2>1, <4>1, <4>2, <4>3
    <3>2. CASE ~local.isLocated
      <4>1. heard'.table = heard.table /\ heard'.row = heard.row
        BY <1>7, <2>1, <3>2, SayFacts
      <4> QED
        BY <1>1, <2>1, <3>2, <4>1 DEF IInv, Located
    <3> QED
      BY <3>1, <3>2
  <2> QED
    BY <1>2, <2>1 DEF Located
<1>12. locationBy' \in Clients \cup {NoClient}
  BY <1>1, SayFacts
<1> QED
  BY <1>5, <1>6, <1>8, <1>9, <1>10, <1>11, <1>12

LEMMA SayNothingStep == IInv /\ SayNothing => IInv'
<1> SUFFICES ASSUME IInv, SayNothing
             PROVE  IInv'
  OBVIOUS
<1>1. /\ at = "say" /\ local.text = NoText /\ IsTold(TRUE) /\ Ends
      /\ UNCHANGED <<savedText, savedPath, textBy>>
  BY DEF SayNothing
<1>2. NoText.status = "none" /\ NoText.caption = Empty /\ NoText.row = Empty
  BY DEF NoText
<1>3. /\ Said' /\ Located' /\ heard' = heard
      /\ said' \in [Boxes -> {"none", "checked", "unchecked"}]
      /\ \A b \in Boxes : said'[b] \in {"none", said[b]}
      /\ locationBy' \in Clients \cup {NoClient}
  BY <1>1, <1>2, IsToldStep DEF Statuses
<1>4. SavedText'
  <2>1. textBy # NoClient /\ savedText.status \in Statuses => <<textBy, savedPath>> \in Boxes
    BY DEF IInv, SavedText, TypeOK, Boxes
  <2> QED
    BY <1>1, <1>3, <2>1 DEF IInv, SavedText
<1>5. savedText' \in Texts /\ savedPath' \in Paths /\ textBy' \in Clients \cup {NoClient}
  BY <1>1 DEF IInv, TypeOK
<1>6. heard' \in HeardSet
  BY <1>1, <1>3, SayFacts
<1> QED
  BY <1>1, <1>3, <1>4, <1>5, <1>6, EndsStep DEF HeardSet

\* What is a duplicate of what the same client had spoken was heard then.
LEMMA SkipDuplicateStep == IInv /\ SkipDuplicate => IInv'
<1> SUFFICES ASSUME IInv, SkipDuplicate
             PROVE  IInv'
  OBVIOUS
<1>1. /\ at = "say" /\ Ends
      /\ local.text = savedText /\ Path = savedPath
      /\ savedText' = local.text /\ savedPath' = Path
      /\ IsTold(textBy = Client)
      /\ textBy' = IF textBy = Client THEN Client ELSE NoClient
  BY DEF SkipDuplicate, IsDuplicate, SaveText
<1>2. textBy = Client =>
         /\ local.text.status \in Statuses => said[Box] \in {"none", local.text.status}
         /\ local.text.caption # Empty => heard.table = <<Client, TableOf[Path]>>
         /\ local.text.row # Empty => heard.row = <<Client, RowOf[Path]>>
  BY <1>1, SayFacts DEF IInv, SavedText, Box
<1>3. (textBy = Client) \in BOOLEAN
  OBVIOUS
<1>4. /\ Said' /\ Located' /\ heard' = heard
      /\ said' \in [Boxes -> {"none", "checked", "unchecked"}]
      /\ \A b \in Boxes : said'[b] \in {"none", said[b]}
      /\ locationBy' \in Clients \cup {NoClient}
  BY <1>1, <1>2, <1>3, IsToldStep
<1>5. SavedText'
  <2>1. CASE textBy = Client
    <3>1. savedText.status \in Statuses => <<textBy, savedPath>> \in Boxes
      BY <1>1, <2>1, SayFacts DEF Box
    <3> QED
      BY <1>1, <1>4, <2>1, <3>1, SayFacts DEF IInv, SavedText
  <2>2. CASE textBy # Client
    BY <1>1, <2>2 DEF SavedText
  <2> QED
    BY <2>1, <2>2
<1>6. /\ savedText' \in Texts /\ savedPath' \in Paths /\ textBy' \in Clients \cup {NoClient}
      /\ heard' \in HeardSet
  BY <1>1, <1>4, SayFacts
<1> QED
  BY <1>1, <1>4, <1>5, <1>6, EndsStep DEF HeardSet

LEMMA SpeakTextStep == IInv /\ SpeakText => IInv'
<1> SUFFICES ASSUME IInv, SpeakText
             PROVE  IInv'
  OBVIOUS
<1>1. /\ at = "say" /\ Ends
      /\ savedText' = local.text /\ savedPath' = Path
      /\ \/ Hear /\ textBy' = Client
         \/ IsTold(FALSE) /\ textBy' = NoClient
  BY DEF SpeakText, Say, SaveText
<1>2. savedText' \in Texts /\ savedPath' \in Paths /\ textBy' \in Clients \cup {NoClient}
  BY <1>1, SayFacts
<1>3. CASE Hear /\ textBy' = Client
  <2>1. /\ Said' /\ Located'
        /\ said' \in [Boxes -> {"none", "checked", "unchecked"}]
        /\ heard' \in HeardSet
        /\ locationBy' \in Clients \cup {NoClient}
        /\ local.text.status \in Statuses => said'[Box] \in {"none", local.text.status}
        /\ local.text.caption # Empty => heard'.table = <<Client, TableOf[Path]>>
        /\ local.text.row # Empty => heard'.row = <<Client, RowOf[Path]>>
    BY <1>1, <1>3, HearStep
  <2>2. SavedText'
    BY <1>1, <1>3, <2>1, SayFacts DEF SavedText, Box
  <2> QED
    BY <1>1, <1>2, <2>1, <2>2, EndsStep DEF HeardSet
<1>4. CASE IsTold(FALSE) /\ textBy' = NoClient
  <2>1. /\ Said' /\ Located' /\ heard' = heard
        /\ said' \in [Boxes -> {"none", "checked", "unchecked"}]
        /\ locationBy' \in Clients \cup {NoClient}
    BY <1>1, <1>4, IsToldStep
  <2>2. SavedText'
    BY <1>4 DEF SavedText
  <2>3. heard' \in HeardSet
    BY <1>1, <2>1, SayFacts
  <2> QED
    BY <1>1, <1>2, <2>1, <2>2, <2>3, EndsStep DEF HeardSet
<1> QED
  BY <1>1, <1>3, <1>4

\* The name of a document is of no account to what is known of a cell or a box.
LEMMA SpeakLoadedStep == IInv /\ SpeakLoaded => IInv'
<1> SUFFICES ASSUME IInv, SpeakLoaded
             PROVE  IInv'
  OBVIOUS
<1>1. /\ at = "say" /\ Kind = "load" /\ Ends
      /\ UNCHANGED <<savedText, savedPath, textBy>>
      /\ Hear \/ IsTold(FALSE)
  BY DEF SpeakLoaded, Say
<1>2. /\ Said' /\ Located' /\ heard' = heard
      /\ said' \in [Boxes -> {"none", "checked", "unchecked"}]
      /\ \A b \in Boxes : said'[b] \in {"none", said[b]}
      /\ locationBy' \in Clients \cup {NoClient}
  <2>1. CASE Hear
    BY <1>1, <2>1, HearStep
  <2>2. CASE IsTold(FALSE)
    BY <1>1, <2>2, IsToldStep
  <2> QED
    BY <1>1, <2>1, <2>2
<1>3. SavedText'
  <2>1. textBy # NoClient /\ savedText.status \in Statuses => <<textBy, savedPath>> \in Boxes
    BY DEF IInv, SavedText, TypeOK, Boxes
  <2> QED
    BY <1>1, <1>2, <2>1 DEF IInv, SavedText
<1>4. /\ savedText' \in Texts /\ savedPath' \in Paths /\ textBy' \in Clients \cup {NoClient}
      /\ heard' \in HeardSet
  BY <1>1, <1>2, SayFacts DEF IInv, TypeOK
<1> QED
  BY <1>1, <1>2, <1>3, <1>4, EndsStep DEF HeardSet

----------------------------------------------------------------------------
(* The theorems.                                                           *)

LEMMA InvariantInit == Init => IInv
<1> SUFFICES ASSUME Init
             PROVE  IInv
  OBVIOUS
<1>1. /\ local.event.kind = "none" /\ local.text.status = "none"
      /\ local.text.caption = Empty /\ local.text.row = Empty
      /\ local.lost = {} /\ local.isLocated = FALSE
  BY IdleFacts DEF Init
<1>2. TypeOK
  <2>1. NoText \in Texts
    BY DEF NoText, Texts, Names
  <2>2. Idle \in Locals
    BY <2>1 DEF Idle, Locals, Paths
  <2>3. NothingHeard \in [table : (Clients \cup {NoClient}) \X Paths,
                         row : (Clients \cup {NoClient}) \X Paths]
    BY DEF NothingHeard, Paths
  <2>4. Nowhere \in [cell : Paths, table : Paths, row : Paths]
    BY DEF Nowhere, Paths
  <2>5. <<>> \in Seq(Sources)
    OBVIOUS
  <2> QED
    BY <2>1, <2>2, <2>3, <2>4, <2>5 DEF Init, TypeOK, Paths
<1>3. Waiting
  BY DEF Init, Waiting, Tells
<1>4. Handling
  BY <1>1 DEF Init, Handling, Kind
<1>5. Asked
  BY <1>1 DEF Asked, Kind, Statuses
<1>6. Said
  BY DEF Init, Said
<1>7. SavedText /\ SavedLocation /\ Located
  BY DEF Init, SavedText, SavedLocation, Located
<1>8. Walking /\ Locating
  BY <1>1 DEF Init, Walking, Locating
<1> QED
  BY <1>2, <1>3, <1>4, <1>5, <1>6, <1>7, <1>8 DEF IInv

LEMMA InvariantStep == IInv /\ [Next]_vars => IInv'
<1> SUFFICES ASSUME IInv, [Next]_vars
             PROVE  IInv'
  OBVIOUS
<1>1. ASSUME NEW c \in Clients, NEW o \in Focusable, Focus(c, o)
      PROVE  IInv'
  BY <1>1, FocusStep
<1>2. ASSUME NEW c \in Clients, NEW o \in Documents, Load(c, o)
      PROVE  IInv'
  BY <1>2, LoadStep
<1>3. ASSUME NEW c \in Clients, NEW k \in CheckBoxes, Toggle(c, k)
      PROVE  IInv'
  BY <1>3, ToggleStep
<1>4. ASSUME NEW c \in Clients, CallRegistry(c)
      PROVE  IInv'
  BY <1>4, CallRegistryStep
<1>5. CASE AnswerCall \/ DropSignal \/ StartListeners \/ StopListeners \/ OnSignal
  BY <1>5, AnswerCallStep, DropSignalStep, StartListenersStep, StopListenersStep, OnSignalStep
<1>6. CASE Handler
  BY <1>6, GetNameStep, GetDescriptionStep, GetRoleNameStep, GetStateStep, GetRoleStep,
     GetParentStep, GetParentRoleStep, GetCaptionStep, GetCaptionNameStep, GetRowNameStep,
     SayNothingStep, SkipDuplicateStep, SpeakTextStep, SpeakLoadedStep
     DEF Handler
<1>7. CASE UNCHANGED vars
  <2>1. UNCHANGED <<checked, queue, enabled, at, local, savedVars, historyVars>>
    BY <1>7 DEF vars
  <2>2. TypeOK' /\ Waiting'
    BY <2>1 DEF IInv, TypeOK, Waiting, savedVars, historyVars
  <2>3. Asked' /\ Said' /\ SavedText'
    <3> USE <2>1 DEF IInv, savedVars, historyVars, Due, Kind, Path, Client, Box
    <3>1. Asked'
      BY DEF Asked, Status
    <3>2. Said'
      BY DEF Said, Status
    <3>3. SavedText'
      BY DEF SavedText
    <3> QED
      BY <3>1, <3>2, <3>3
  <2>4. (Handling /\ SavedLocation /\ Walking /\ Locating /\ Located)'
    BY <2>1, HandlerUntouched DEF historyVars
  <2> QED
    BY <2>2, <2>3, <2>4 DEF IInv
<1> QED
  BY <1>1, <1>2, <1>3, <1>4, <1>5, <1>6, <1>7 DEF Next

LEMMA InvariantHolds == Spec => []IInv
BY InvariantInit, InvariantStep, PTL DEF Spec

\* The variables have their types: whatever a handler has of its object by the
\* time a call fails is of a kind that the rest of it can deal with.
THEOREM TypeCorrect == Spec => []TypeOK
<1>1. IInv => TypeOK
  BY DEF IInv
<1> QED
  BY <1>1, InvariantHolds, PTL

\* What was remembered of a cell's location was told, in any tree and for any
\* clients: the static variables and the skipping of duplicates leave out only
\* what the same client's user has heard, but for what the model knows to be lost
\* (locationBy): names that could not be had, texts that were not spoken, and
\* cells compared with another client's.
THEOREM LocationCorrect == Spec => []LocationIsHeard
<1>1. IInv => LocationIsHeard
  <2> SUFFICES ASSUME IInv, at = "idle", savedLocation # Nowhere, locationBy # NoClient
               PROVE  LocationIsHeard
    BY DEF LocationIsHeard
  <2>1. local.isLocated = FALSE
    BY IdleFacts DEF IInv, Handling
  <2> QED
    BY <2>1 DEF IInv, SavedLocation, Located, LocationIsHeard
<1> QED
  BY <1>1, InvariantHolds, PTL

\* A text names the table and the row of its own object.
Naming ==
    /\ local.text.caption # Empty => local.text.caption = Caption[TableOf[Path]]
    /\ local.text.row # Empty => local.text.row = Name[RowOf[Path]]

\* Only two steps put a name of a table or a row into the text.
LEMMA NamingStep == IInv /\ Naming /\ [Next]_vars => Naming'
<1> SUFFICES ASSUME IInv, Naming, [Next]_vars
             PROVE  Naming'
  OBVIOUS
<1> DEFINE Kept ==
       /\ local'.event = local.event
       /\ local'.text.caption = local.text.caption /\ local'.text.row = local.text.row
<1>1. local \in Locals
  BY DEF IInv, TypeOK
<1>2. CASE Kept
  BY <1>2 DEF Naming, Path
<1>3. CASE local'.text = NoText
  BY <1>3 DEF Naming, NoText
<1>4. CASE local' = local
  BY <1>2, <1>4
<1>5. CASE GetName \/ GetDescription \/ GetRoleName \/ GetState
  <2>1. CASE GetName
    <3>1. PICK name : local' = [local EXCEPT !.text.name = name]
      BY <2>1 DEF GetName
    <3> QED
      BY <1>1, <1>2, <3>1 DEF Locals, Texts
  <2>2. CASE GetDescription
    <3>1. PICK description : local' = [local EXCEPT !.text.description = description]
      BY <2>2 DEF GetDescription
    <3> QED
      BY <1>1, <1>2, <3>1 DEF Locals, Texts
  <2>3. CASE GetRoleName
    <3>1. PICK status : local' = [local EXCEPT !.text.status = status]
      BY <2>3 DEF GetRoleName
    <3> QED
      BY <1>1, <1>2, <3>1 DEF Locals, Texts
  <2>4. CASE GetState
    <3>1. PICK status, lost : local' = [local EXCEPT !.text.status = status, !.lost = lost]
      BY <2>4 DEF GetState
    <3> QED
      BY <1>1, <1>2, <3>1 DEF Locals, Texts
  <2> QED
    BY <1>5, <2>1, <2>2, <2>3, <2>4
<1>6. CASE GetParent \/ GetParentRole \/ GetCaption
  <2>1. Kept
    BY <1>1, <1>6 DEF Locals, Texts, GetParent, GetParentRole, GetCaption, NoDescription
  <2> QED
    BY <1>2, <2>1
<1>7. CASE OnSignal \/ GetRole \/ SayNothing \/ SkipDuplicate \/ SpeakText \/ SpeakLoaded
  <2>1. local' = local \/ local' = Idle \/ OnSignal
    BY <1>7 DEF GetRole, SayNothing, SkipDuplicate, SpeakText, SpeakLoaded, Ends
  <2>2. OnSignal => local' = [Idle EXCEPT !.event = Head(queue), !.cursor = Head(queue).path]
    BY DEF OnSignal
  <2>3. Idle.text = NoText /\ (OnSignal => local'.text = NoText)
    BY <2>2 DEF Idle
  <2> QED
    BY <1>3, <1>4, <2>1, <2>3
<1>8. CASE GetCaptionName
  <2>1. PICK ok \in Outcomes(local.cursor) :
           local' = [local EXCEPT !.text.caption = Output(ok, Caption[local.cursor]),
                                  !.lost = IF ok THEN @ ELSE @ \cup {"location"}]
    BY <1>8 DEF GetCaptionName
  <2>2. TableOf[Path] = local.cursor
    BY <1>8 DEF GetCaptionName, IInv, Walking
  <2>3. /\ local'.event = local.event /\ local'.text.row = local.text.row
        /\ local'.text.caption \in {Empty, Caption[TableOf[Path]]}
    BY <1>1, <2>1, <2>2 DEF Locals, Texts, Output
  <2> QED
    BY <2>3 DEF Naming, Path
<1>9. CASE GetRowName
  <2> DEFINE Described(row, lost) ==
                [local EXCEPT !.cursor = NoObject, !.row = NoObject, !.isLocated = TRUE,
                              !.text.row = row, !.lost = @ \cup lost]
  <2>3. PICK row \in {Empty, Name[local.row]}, lost \in SUBSET {"location"} :
           local' = Described(row, lost)
    <3>1. CASE IsNew(local.row, savedLocation.row)
      <4>1. PICK ok \in Outcomes(local.row) :
               local' = Described(Output(ok, Name[local.row]), IF ok THEN {} ELSE {"location"})
        BY <1>9, <3>1 DEF GetRowName
      <4> QED
        BY <4>1 DEF Output
    <3>2. CASE ~IsNew(local.row, savedLocation.row)
      BY <1>9, <3>2 DEF GetRowName
    <3> QED
      BY <3>1, <3>2
  <2>1. /\ local'.event = local.event /\ local'.text.caption = local.text.caption
        /\ local'.text.row = row
    BY <1>1, <2>3 DEF Locals, Texts
  <2>2. RowOf[Path] = local.row
    BY <1>9 DEF GetRowName, IInv, Walking
  <2> QED
    BY <2>1, <2>2, <2>3 DEF Naming, Path
<1>10. CASE AnswerCall \/ DropSignal \/ StartListeners \/ StopListeners \/ UNCHANGED vars
  BY <1>4, <1>10 DEF AnswerCall, DropSignal, StartListeners, StopListeners, vars
<1>11. ASSUME NEW c \in Clients, NEW o \in Objects,
              Focus(c, o) \/ Load(c, o) \/ Toggle(c, o) \/ CallRegistry(c)
       PROVE  Naming'
  BY <1>4, <1>11 DEF Focus, Load, Toggle, CallRegistry
<1>12. CASE \E c \in Clients : CallRegistry(c)
  BY <1>4, <1>12 DEF CallRegistry
<1> QED
  BY <1>5, <1>6, <1>7, <1>8, <1>9, <1>10, <1>11, <1>12
     DEF Next, Handler, Focusable, Documents, CheckBoxes

\* Where the last cell is, and what is said of an object, is found whole, in any
\* tree and whatever calls fail: getCellDescription saves the cell, the table and
\* the row together, at the end of a walk of which nothing is missing.
THEOREM LocationWholeCorrect == Spec => []LocationIsWhole
<1>1. Init => Naming
  BY DEF Init, Idle, NoText, Naming
<1>2. IInv /\ Naming => LocationIsWhole
  BY DEF IInv, SavedLocation, Naming, LocationIsWhole
<1> QED
  BY <1>1, <1>2, InvariantHolds, InvariantStep, NamingStep, PTL DEF Spec

\* What was said of a check box is what it is, when no event of it waits: the
\* answer to GetState may be newer than the events in the queue, but the last of
\* them tells what the box is.
THEOREM StatusCorrect == Spec => []StatusIsHeard
<1>1. IInv => StatusIsHeard
  <2> SUFFICES ASSUME IInv, at = "idle", NEW b \in Boxes, ~Due(b)
               PROVE  said[b] \in {"none", Status(b[1], b[2])}
    BY DEF StatusIsHeard, Due, DueIn, IsCheckedOf
  <2>1. Kind # "checked"
    BY IdleFacts DEF IInv, Handling, Kind
  <2> QED
    BY <2>1 DEF IInv, Said
<1> QED
  BY <1>1, InvariantHolds, PTL
=============================================================================
