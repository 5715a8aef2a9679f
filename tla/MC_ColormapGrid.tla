--------------------------- MODULE MC_ColormapGrid ---------------------------
(* The styler's grid with one loaded entry (quantity 1) and one that the  *)
(* Add button creates (quantity '0.0', label ''), so that the new entry is *)
(* appended out of order and a commit sorts it first.                      *)
EXTENDS ColormapGrid, TLC

CONSTANTS r1, r2

MCRecs == {r1, r2}
MCInitRows == <<r1>>
MCCols == {"quantity", "label"}
MCTexts == {"0.0", "0", "1", ""}
\* parseFloat then String(): '0.0' reads back as '0'.
MCNumberText == [t \in MCTexts |-> IF t = "0.0" THEN "0" ELSE t]
\* The numeric value the store's sort compares ('' only ever in a field).
MCQuantity == [t \in MCTexts |-> IF t = "1" THEN 1 ELSE 0]
MCInitData == (r1 :> [quantity |-> "1", label |-> "1"]) @@
              (r2 :> [quantity |-> "0.0", label |-> ""])
MCCodec == [t \in MCTexts |-> t]
=============================================================================
