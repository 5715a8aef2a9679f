---------------------------- MODULE MC_RowEditor ----------------------------
(* The row editor as the raster styler configures it: a numberfield column *)
(* "quantity" (allowBlank: false) and a textfield column "label"           *)
(* (allowBlank: true), autoEncode unset.  r1 holds the entry that          *)
(* createEmptyEntry adds (quantity '0.0', label ''), r2 a loaded entry.   *)
EXTENDS RowEditorSession, TLC

CONSTANTS r1, r2

MCRecs == {r1, r2}
MCInitRows == <<r1, r2>>
MCCols == {"quantity", "label"}
MCTexts == {"0.0", "0", ""}
\* parseFloat then String(): '0.0' reads back as '0', '' as ''.
MCNumberText == [t \in MCTexts |-> IF t = "0.0" THEN "0" ELSE t]
MCInitData == (r1 :> [quantity |-> "0.0", label |-> ""]) @@
              (r2 :> [quantity |-> "0", label |-> "0"])
\* autoEncode is unset, so the codec is never applied here.
MCCodec == [t \in MCTexts |-> t]
=============================================================================
