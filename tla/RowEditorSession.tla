-------------------------- MODULE RowEditorSession --------------------------
(***************************************************************************)
(* The row editor implements the edit session of EditSession.  The        *)
(* abstract session is the record being edited while this.editing is set; *)
(* its snapshot is this.values and its draft is what the fields return.   *)
(* The overlay, the poll tasks, the Save button, the selection, the click *)
(* index and the column model are implementation detail: the steps that   *)
(* touch only them are stuttering steps of the session.                   *)
(***************************************************************************)
EXTENDS RowEditor

\* isValid, applied to a draft: every field's validator accepts it.
ValidDraft(d) == \A c \in Cols : FieldValid(c, d[c])

Session == INSTANCE EditSession
             WITH session  <- IF editing THEN record ELSE NoRec,
                  snapshot <- values,
                  draft    <- fields,
                  Pre      <- PreEditValue,
                  Post     <- PostEditValue,
                  Valid    <- ValidDraft

\* Every behaviour of the row editor under any interleaving of clicks,
\* keys, edits, store removals, view refreshes, column toggles and poll
\* ticks is a behaviour of the session: it opens only on a stored record
\* and never over a dirty session, writes only a valid draft into its own
\* live record, and ends on every removal.
RefinesEditSession == Session!Spec

=============================================================================
