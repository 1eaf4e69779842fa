--------------------------- MODULE MCSpeechEvents ---------------------------
(* A table of two rows, the second with a row in it, a check box and a      *)
(* document in the application's own; and a smaller tree, for two clients.  *)
EXTENDS SpeechEvents, TLC

Symmetry == Permutations(Clients)

MCNoObject == "none"

MCObjects == {"frame", "table", "row1", "row2", "subrow", "a", "c", "k", "web"}

MCSmallObjects == {"frame", "table", "row1", "subrow", "a", "k"}

MCParent == [o \in MCObjects |->
    CASE o = "frame" -> "none"
      [] o \in {"row1", "row2"} -> "table"
      [] o = "subrow" -> "row2"
      [] o = "a" -> "row1"
      [] o = "c" -> "subrow"
      [] OTHER -> "frame"]

MCSmallParent == [o \in MCSmallObjects |->
    CASE o = "subrow" -> "row1"
      [] o = "a" -> "subrow"
      [] OTHER -> MCParent[o]]

MCRole == [o \in MCObjects |->
    CASE o = "frame" -> "document frame"
      [] o = "table" -> "table"
      [] o \in {"row1", "row2", "subrow"} -> "row"
      [] o \in {"a", "c"} -> "cell"
      [] o = "web" -> "document web"
      [] OTHER -> "check box"]

MCName == [o \in MCObjects |->
    CASE o \in {"row1", "row2"} -> "row"
      [] o \in {"k", "web"} -> o
      [] OTHER -> ""]

MCDescription == [o \in MCObjects |-> ""]

MCCaption == [o \in MCObjects |-> IF o = "table" THEN "caption" ELSE ""]
=============================================================================
