---------------------------- MODULE MCAtkEvents ----------------------------
(* Two tables, the second in a cell of the first and with a row in a row;   *)
(* rows and cells with the same names; a check box; a document.            *)
EXTENDS AtkEvents

MCObjects == {"frame", "table", "row1", "row2", "a", "b", "c",
              "inner", "group", "subrow", "d", "k"}

MCNoObject == "none"

MCParent == [o \in MCObjects |->
    CASE o = "frame" -> "none"
      [] o \in {"row1", "row2"} -> "table"
      [] o \in {"a", "b"} -> "row1"
      [] o = "c" -> "row2"
      [] o = "inner" -> "c"
      [] o = "group" -> "inner"
      [] o = "subrow" -> "group"
      [] o = "d" -> "subrow"
      [] OTHER -> "frame"]

MCRole == [o \in MCObjects |->
    CASE o = "frame" -> "document frame"
      [] o \in {"table", "inner"} -> "table"
      [] o \in {"row1", "row2", "group", "subrow"} -> "row"
      [] o \in {"a", "b", "c", "d"} -> "cell"
      [] OTHER -> "check box"]

MCName == [o \in MCObjects |->
    CASE o \in {"row1", "row2"} -> "row"
      [] o \in {"a", "c"} -> "cell"
      [] o \in {"table", "inner", "subrow"} -> ""
      [] OTHER -> o]

MCDescription == [o \in MCObjects |-> IF o = "k" THEN "described" ELSE ""]

MCCaption == [o \in MCObjects |-> IF o = "table" THEN "caption" ELSE ""]
=============================================================================
