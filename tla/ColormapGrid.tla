---------------------------- MODULE ColormapGrid ----------------------------
(***************************************************************************)
(* The raster styler's colour-map grid with its row editor plugged in     *)
(* (GEOR_rasterstyler.js, initStyler lines 380-523): the RowEditor of     *)
(* RowEditor.tla, the store listeners that mark the styler dirty, the     *)
(* editor's afteredit listener that sorts the store by quantity, and the  *)
(* grid's "Add colormap entry" and "Remove colormap entry" buttons.       *)
(*                                                                         *)
(* JavaScript runs every handler to its end before the next event, so a   *)
(* handler and the listeners it triggers are one step.  A commit runs:    *)
(* r.endEdit() fires the store's 'update' (setDirty), fireEvent           *)
(* ('afteredit') sorts the store, the sort refreshes the view, the        *)
(* view's 'refresh' listener re-enters stopEditing() while the overlay is *)
(* still shown, and only then does the outer call reach this.hide().      *)
(* Stopped(save, rs) is the state stopEditing(save) leaves, computed from *)
(* the current one, so that a handler can go on from it.                  *)
(*                                                                         *)
(* The editor's session mapping of RowEditorSession applies unchanged:    *)
(* the styler's listeners and buttons must keep the edit-session contract *)
(* of EditSession, where adding an entry is AddRec and removing the       *)
(* selected one is RemoveRec.                                              *)
(***************************************************************************)
EXTENDS RowEditorSession

CONSTANTS
    QuantityCol,  \* the column whose values the store is sorted by
    Quantity,     \* [Texts -> Nat]: the numeric order of a quantity text
    MaxAdded      \* bound on the entries created by createEmptyEntry

ASSUME QuantityCol \in NumberCols /\ Quantity \in [Texts -> Nat]

VARIABLES
    dirty,        \* the styler's closure variable dirty
    added         \* the records created by createEmptyEntry so far

gridState == <<vars, dirty, added>>

-----------------------------------------------------------------------------
(* The store and the styler's listeners.                                   *)

\* colormapStore.sort("quantity", "ASC"): MixedCollection._sort keeps the
\* order of entries with equal quantities.
SortByQuantity(rs, d) ==
    LET key(r) == Quantity[d[r][QuantityCol]]
        pos(r) == CHOOSE i \in DOMAIN rs : rs[i] = r
    IN SortSeq(rs, LAMBDA a, b : key(a) < key(b)
                                 \/ (key(a) = key(b) /\ pos(a) < pos(b)))

\* The view's 'refresh' re-enters stopEditing() after a commit: the overlay
\* is still shown and the fields valid, so it compares them with the data
\* just written.
Reentry(d) ==
    IF \E c \in Cols : ~hidden[c] /\ d[record][c] # PostEditValue(fields[c])
    THEN "afteredit" ELSE "canceledit"

\* Mutant: stopEditing(save) without its isValid() check.
StoppedNoValidCheck(save, rs) ==
    LET commit == visible /\ save # "false" /\ Changes # {}
        d      == IF commit THEN Commit(Changes) ELSE data
    IN [data  |-> d,
        rows  |-> IF commit THEN SortByQuantity(rs, d) ELSE rs,
        dirty |-> dirty \/ commit,
        fired |-> CASE ~visible -> <<>>
                    [] commit -> <<"afteredit", Reentry(d)>>
                    [] save = "false" -> <<"canceledit-forced">>
                    [] OTHER -> <<"canceledit">>]

\* What stopEditing(save) leaves of the grid's rows rs, the record data,
\* the styler's dirty flag and the events fired.  Editing is cleared and
\* the overlay hidden in every case (onHide stops monitoring).
Stopped(save, rs) ==
    LET commit == visible /\ save # "false" /\ IsValid /\ Changes # {}
        d      == IF commit THEN Commit(Changes) ELSE data
    IN [data  |-> d,
        rows  |-> IF commit THEN SortByQuantity(rs, d) ELSE rs,
        dirty |-> dirty \/ commit,
        fired |-> CASE ~visible -> <<>>
                    [] commit -> <<"afteredit", Reentry(d)>>
                    [] save = "false" -> <<"canceledit-forced">>
                    [] OTHER -> <<"canceledit">>]

\* Take over the result of stopEditing; editing and monitoring state are
\* cleared, the snapshot and the fields are left as they were.
StopTo(s) ==
    /\ data' = s.data
    /\ dirty' = s.dirty
    /\ fired' = s.fired
    /\ editing' = FALSE
    /\ visible' = FALSE
    /\ bound' = (bound /\ ~visible)

-----------------------------------------------------------------------------
(* Handlers.                                                               *)

\* ENTER in a field, or the Update button: stopEditing(true).
CommitKey ==
    LET s == Stopped("true", rows) IN
    /\ visible
    /\ StopTo(s) /\ rows' = s.rows
    /\ UNCHANGED <<hidden, selected, lastClick, record, rowIndex, values,
                   fields, tasks, saveDisabled, added>>

UpdateClick ==
    /\ ~saveDisabled
    /\ CommitKey

\* A click on a sortable column header (quantity, opacity): the store is
\* sorted in either direction and the view's 'refresh' calls stopEditing(),
\* whose own afteredit sort runs on the header's order.
HeaderSort ==
    /\ \E order \in SetToSeqs(ToSet(rows)) :
         LET s == Stopped("none", order) IN StopTo(s) /\ rows' = s.rows
    /\ UNCHANGED <<hidden, selected, lastClick, record, rowIndex, values,
                   fields, tasks, saveDisabled, added>>

\* "Remove colormap entry": editor.stopEditing(), then colormapStore.remove
\* of each selected record; its 'remove' listeners setDirty and call
\* stopEditing(false), which finds the overlay already hidden.
RemoveEntryClick ==
    LET s == Stopped("none", rows) IN
    /\ StopTo(s)
    /\ rows' = IF selected = NoRec THEN s.rows ELSE Remove(s.rows, selected)
    /\ dirty' = (s.dirty \/ selected # NoRec)
    /\ selected' = NoRec
    /\ UNCHANGED <<hidden, lastClick, record, rowIndex, values, fields,
                   tasks, saveDisabled, added>>

\* Mutant: createEmptyEntry adding a record object the store already holds
\* (the entry built once and reused) instead of a new ColormapEntry.
AddEntryReused ==
    \E e \in Recs \ added :
      LET s   == Stopped("none", rows)
          rs  == Append(s.rows, e)
      IN /\ Cardinality(added) < MaxAdded
         /\ tasks < MaxTasks
         /\ data' = s.data /\ dirty' = s.dirty /\ fired' = s.fired
         /\ rows' = rs
         /\ added' = added \cup {e}
         /\ selected' = e
         /\ editing' = TRUE
         /\ visible' = TRUE
         /\ record' = e
         /\ rowIndex' = Len(rs)
         /\ values' = [c \in Cols |-> PreEditValue(s.data[e][c])]
         /\ fields' = [c \in Cols |-> FieldText(c, PreEditValue(s.data[e][c]))]
         /\ bound' = TRUE
         /\ tasks' = tasks + 1
         /\ UNCHANGED <<hidden, lastClick, saveDisabled>>

\* createEmptyEntry: editor.stopEditing(); colormapStore.add(e) (no
\* listener on 'add'); view refresh (stopEditing() finds the overlay
\* hidden); selectLastRow(); editor.startEditing(e), which shows the
\* overlay again and registers a new poll task.
AddEntry ==
    \E e \in Recs \ (ToSet(InitRows) \cup added) :
      LET s   == Stopped("none", rows)
          rs  == Append(s.rows, e)
      IN /\ Cardinality(added) < MaxAdded
         /\ tasks < MaxTasks
         /\ data' = s.data /\ dirty' = s.dirty /\ fired' = s.fired
         /\ rows' = rs
         /\ added' = added \cup {e}
         /\ selected' = e
         /\ editing' = TRUE
         /\ visible' = TRUE
         /\ record' = e
         /\ rowIndex' = Len(rs)
         /\ values' = [c \in Cols |-> PreEditValue(s.data[e][c])]
         /\ fields' = [c \in Cols |-> FieldText(c, PreEditValue(s.data[e][c]))]
         /\ bound' = TRUE
         /\ tasks' = tasks + 1
         /\ UNCHANGED <<hidden, lastClick, saveDisabled>>

-----------------------------------------------------------------------------
ColormapInit ==
    /\ Init
    /\ dirty = FALSE
    /\ added = {}

\* The row editor's own handlers, which no styler listener reacts to.
EditorOnly ==
    /\ \/ \E i \in DOMAIN rows : RowClick(i)
       \/ GridEnter
       \/ CancelClick
       \/ \E c \in Cols, t \in Texts : EditField(c, t)
       \/ \E c \in Cols : ToggleColumn(c)
       \/ PollTick
    /\ UNCHANGED <<dirty, added>>

ColormapNext ==
    \/ EditorOnly
    \/ CommitKey \/ UpdateClick \/ HeaderSort
    \/ RemoveEntryClick \/ AddEntry

ColormapSpec == ColormapInit /\ [][ColormapNext]_gridState /\ WF_gridState(PollTick /\ UNCHANGED <<dirty, added>>)

-----------------------------------------------------------------------------
(* Properties.                                                             *)

GridTypeOK ==
    /\ TypeOK
    /\ dirty \in BOOLEAN
    /\ added \subseteq Recs \ ToSet(InitRows)

\* Spec section 4.1: ending a session fires exactly one notification, an
\* "edit applied" one when the record changed.
GridCloseNotifiesOnce ==
    [][(visible /\ ~visible') => Len(fired') = 1]_gridState

\* The edit-session contract survives the styler around the editor: the
\* afteredit sort, the refresh that re-enters stopEditing, the Add button's
\* stop-add-start sequence and the Remove button's stop-then-remove never
\* write an invalid draft, write into a record other than the one being
\* edited, or open a session whose snapshot is not the new record's data.
\* It is Session!Spec with the stuttering disjunct first: TLC tries the
\* disjuncts in order, and most grid steps leave the session alone.
GridRefinesEditSession ==
    Session!Init /\ [][UNCHANGED Session!vars \/ Session!Next]_Session!vars

=============================================================================
