------------------------------ MODULE RowEditor ------------------------------
(***************************************************************************)
(* Ext.ux.grid.RowEditor, the inline row editor plugin bundled at the end  *)
(* of mapfishapp/.../GEOR_rasterstyler.js (lines 762-1287).                *)
(*                                                                         *)
(* One editor overlay is bound to one grid.  The model keeps the editor's  *)
(* own state (editing, visible, record, rowIndex, the snapshot "values",   *)
(* the monitoring flag "bound"), the values its fields return, the         *)
(* validation poll tasks registered with Ext.TaskMgr, and the part of the  *)
(* grid it reads and writes: the store's rows and record data, the hidden  *)
(* flags of the column model, the selected record and lastClickIndex.      *)
(* Layout, focus and tooltips change nothing the properties tell apart     *)
(* and are left out.  Every value is represented by its String() text,     *)
(* which is what isDirty and stopEditing compare.                          *)
(***************************************************************************)
EXTENDS Naturals, Sequences, SequencesExt, FiniteSets

CONSTANTS
    Recs,        \* the records of the grid's store
    InitRows,    \* the store's order of Recs at load
    InitData,    \* the data of every record at load: [Recs -> [Cols -> Texts]]
    Cols,        \* the columns; a column is named by its dataIndex
    NumberCols,  \* columns edited by a numberfield
    BlankOk,     \* columns whose editor has allowBlank: true
    Texts,       \* the texts a record field or an editor field can hold
    NumberText,  \* [Texts -> Texts]: the text of a numberfield's getValue()
                 \* after setValue(t), i.e. parseFloat(t) written back
    AutoEncode,  \* the editor's autoEncode option
    HtmlDecode,  \* [Texts -> Texts], Ext.util.Format.htmlDecode
    HtmlEncode,  \* [Texts -> Texts], Ext.util.Format.htmlEncode
    NoRec,       \* no record (model value)
    MaxTasks     \* bound on the poll tasks registered at once

ASSUME /\ IsInjective(InitRows) /\ ToSet(InitRows) \subseteq Recs
       /\ InitData \in [Recs -> [Cols -> Texts]]
       /\ NumberCols \subseteq Cols /\ BlankOk \subseteq Cols
       /\ NumberText \in [Texts -> Texts]
       /\ HtmlDecode \in [Texts -> Texts] /\ HtmlEncode \in [Texts -> Texts]
       /\ AutoEncode \in BOOLEAN /\ NoRec \notin Recs /\ MaxTasks \in Nat

VARIABLES
    rows,          \* the store's records in order
    data,          \* record data, r.data[dataIndex]
    hidden,        \* cm.isHidden(i) per column
    selected,      \* the selection model's selected record, or NoRec
    lastClick,     \* lastClickIndex (0 = never clicked)
    editing,       \* this.editing
    visible,       \* this.isVisible()
    record,        \* this.record
    rowIndex,      \* this.rowIndex
    values,        \* this.values, the snapshot taken by startEditing
    fields,        \* the getValue() of each field of the overlay
    bound,         \* this.bound, cleared by stopMonitoring
    tasks,         \* poll tasks registered with Ext.TaskMgr
    saveDisabled,  \* the saveBtn's disabled state
    fired          \* the events the last step fired, in order

gridVars   == <<rows, data, hidden, selected, lastClick>>
editorVars == <<editing, visible, record, rowIndex, values, fields,
                bound, tasks, saveDisabled, fired>>
vars == <<gridVars, editorVars>>

Event == {"canceledit-forced", "canceledit", "afteredit"}

-----------------------------------------------------------------------------
(* Value conversions and field behaviour.                                 *)

\* preEditValue: htmlDecode of the stored value when autoEncode is on.
PreEditValue(t) == IF AutoEncode THEN HtmlDecode[t] ELSE t

\* postEditValue: htmlEncode of the field's value when autoEncode is on.
PostEditValue(t) == IF AutoEncode THEN HtmlEncode[t] ELSE t

\* Mutant: a numberfield returning String(parseFloat('')), i.e. "NaN",
\* for an empty field instead of ''.
FieldTextNaN(c, t) ==
    IF c \in NumberCols THEN (IF t = "" THEN "NaN" ELSE NumberText[t]) ELSE t

\* What a column's field returns after setValue(t) or after t is typed.
FieldText(c, t) == IF c \in NumberCols THEN NumberText[t] ELSE t

\* f.isValid(true) for the editors of the column model: allowBlank: false
\* rejects the empty value.
FieldValid(c, t) == t # "" \/ c \in BlankOk

\* isValid: every field of the overlay, hidden ones included.
IsValid == \A c \in Cols : FieldValid(c, fields[c])

\* isDirty: a field whose String(getValue()) differs from the snapshot.
IsDirty == \E c \in Cols : values[c] # fields[c]

\* The visible columns whose post-edit value differs from r.data.
Changes == {c \in Cols : /\ ~hidden[c]
                         /\ data[record][c] # PostEditValue(fields[c])}

\* r.beginEdit(); r.set(name, value) for each change; r.endEdit().
Commit(ch) == [data EXCEPT ![record] =
                 [c \in Cols |-> IF c \in ch THEN PostEditValue(fields[c])
                                 ELSE @[c]]]

-----------------------------------------------------------------------------
(* Monitoring.                                                             *)

\* startMonitoring: register a new poll task unless bound is set.
StartMonitoring ==
    IF bound THEN UNCHANGED <<bound, tasks>>
    ELSE /\ bound' = TRUE
         /\ tasks' = tasks + 1

\* Mutant: onHide without stopMonitoring, bound stays set.
HideKeepsBound == /\ visible' = FALSE
                  /\ UNCHANGED bound

\* stopMonitoring: clear bound; the registered tasks stay registered
\* until their next run.
StopMonitoring == bound' = FALSE

\* hide() and its onHide, which calls stopMonitoring.
Hide == /\ visible' = FALSE
        /\ StopMonitoring

-----------------------------------------------------------------------------
(* startEditing and stopEditing.                                           *)

\* Mutant: onShow without startMonitoring; only the first render (no
\* record edited yet) starts the poll.
ActivateNoMonitor(i) ==
    LET r == rows[i] IN
    /\ ~visible => (bound \/ tasks < MaxTasks)
    /\ editing' = TRUE
    /\ record' = r
    /\ rowIndex' = i
    /\ values' = [c \in Cols |-> PreEditValue(data[r][c])]
    /\ fields' = [c \in Cols |-> FieldText(c, PreEditValue(data[r][c]))]
    /\ visible' = TRUE
    /\ IF record = NoRec THEN StartMonitoring ELSE UNCHANGED <<bound, tasks>>
    /\ UNCHANGED saveDisabled

\* The body of startEditing past its dirty check: take the snapshot,
\* fill the fields, show the overlay (onShow starts monitoring; on the
\* first call afterRender does the same).
Activate(i) ==
    LET r == rows[i] IN
    /\ ~visible => (bound \/ tasks < MaxTasks)
    /\ editing' = TRUE
    /\ record' = r
    /\ rowIndex' = i
    /\ values' = [c \in Cols |-> PreEditValue(data[r][c])]
    /\ fields' = [c \in Cols |-> FieldText(c, PreEditValue(data[r][c]))]
    /\ visible' = TRUE
    /\ IF visible THEN UNCHANGED <<bound, tasks>> ELSE StartMonitoring
    /\ UNCHANGED saveDisabled

\* Mutant: startEditing without its isDirty check.
StartEditingNoDirtyCheck(i) ==
    /\ fired' = <<>>
    /\ Activate(i)

\* startEditing(rowIndex): a dirty session only shows a tooltip.
StartEditing(i) ==
    /\ fired' = <<>>
    /\ \/ /\ editing /\ IsDirty
          /\ UNCHANGED <<editing, visible, record, rowIndex, values, fields,
                         bound, tasks, saveDisabled>>
       \/ /\ ~(editing /\ IsDirty)
          /\ Activate(i)

\* Mutant: stopEditing commits without checking isValid.
StopEditingNoValidCheck(save) ==
    /\ editing' = FALSE
    /\ UNCHANGED <<record, rowIndex, values, fields, tasks, saveDisabled>>
    /\ \/ /\ ~visible
          /\ fired' = <<>>
          /\ UNCHANGED <<visible, bound, data>>
       \/ /\ visible /\ save = "false"
          /\ Hide
          /\ fired' = <<"canceledit-forced">>
          /\ UNCHANGED data
       \/ /\ visible /\ save # "false"
          /\ Hide
          /\ IF Changes # {}
               THEN data' = Commit(Changes) /\ fired' = <<"afteredit">>
               ELSE fired' = <<"canceledit">> /\ UNCHANGED data

\* Mutant: an empty change set closes the overlay without canceledit.
StopEditingSilentEmpty(save) ==
    /\ editing' = FALSE
    /\ UNCHANGED <<record, rowIndex, values, fields, tasks, saveDisabled>>
    /\ \/ /\ ~visible
          /\ fired' = <<>>
          /\ UNCHANGED <<visible, bound, data>>
       \/ /\ visible /\ (save = "false" \/ ~IsValid)
          /\ Hide
          /\ fired' = IF save = "false" THEN <<"canceledit-forced">>
                                        ELSE <<"canceledit">>
          /\ UNCHANGED data
       \/ /\ visible /\ save # "false" /\ IsValid
          /\ Hide
          /\ IF Changes # {}
               THEN data' = Commit(Changes) /\ fired' = <<"afteredit">>
               ELSE fired' = <<>> /\ UNCHANGED data

\* stopEditing(saveChanges); save is "true", "false" or "none" (called
\* with no argument).  Only saveChanges === false cancels unconditionally.
StopEditing(save) ==
    /\ editing' = FALSE
    /\ UNCHANGED <<record, rowIndex, values, fields, tasks, saveDisabled>>
    /\ \/ /\ ~visible
          /\ fired' = <<>>
          /\ UNCHANGED <<visible, bound, data>>
       \/ /\ visible
          /\ save = "false" \/ ~IsValid
          /\ Hide
          /\ fired' = IF save = "false" THEN <<"canceledit-forced">>
                                        ELSE <<"canceledit">>
          /\ UNCHANGED data
       \/ /\ visible
          /\ save # "false" /\ IsValid
          /\ Hide
          /\ IF Changes # {}
               THEN /\ data' = Commit(Changes)
                    /\ fired' = <<"afteredit">>
               ELSE /\ fired' = <<"canceledit">>
                    /\ UNCHANGED data

-----------------------------------------------------------------------------
(* Handlers.                                                               *)

\* A click on row i: the selection model selects it, then onRowClick
\* (clicksToEdit 'auto') edits only a second click on the same row or a
\* click while the overlay is shown.
RowClick(i) ==
    /\ selected' = rows[i]
    /\ lastClick' = i
    /\ \/ /\ lastClick # i /\ ~visible
          /\ fired' = <<>>
          /\ UNCHANGED <<editing, visible, record, rowIndex, values, fields,
                         bound, tasks, saveDisabled>>
       \/ /\ lastClick = i \/ visible
          /\ StartEditing(i)
    /\ UNCHANGED <<rows, data, hidden>>

\* onGridKey: ENTER on the grid while the overlay is hidden edits the
\* selected row.
GridEnter ==
    /\ ~visible
    /\ selected # NoRec
    /\ \E i \in DOMAIN rows : rows[i] = selected /\ StartEditing(i)
    /\ UNCHANGED gridVars

\* onKey: ENTER in a field of the overlay commits.
FieldEnter ==
    /\ visible
    /\ StopEditing("true")
    /\ UNCHANGED <<rows, hidden, selected, lastClick>>

\* The Save button (enabled unless the last poll found the fields invalid).
SaveClick ==
    /\ visible /\ ~saveDisabled
    /\ StopEditing("true")
    /\ UNCHANGED <<rows, hidden, selected, lastClick>>

\* The Cancel button.
CancelClick ==
    /\ visible
    /\ StopEditing("false")
    /\ UNCHANGED <<rows, hidden, selected, lastClick>>

\* The user types t into the field of a shown column.
EditField(c, t) ==
    /\ visible /\ ~hidden[c]
    /\ fields' = [fields EXCEPT ![c] = FieldText(c, t)]
    /\ fired' = <<>>
    /\ UNCHANGED <<gridVars, editing, visible, record, rowIndex, values,
                   bound, tasks, saveDisabled>>

\* Mutant: the store's 'remove' listener is not registered.
StoreRemoveKeepsEditing(r) ==
    /\ r \in ToSet(rows)
    /\ rows' = Remove(rows, r)
    /\ selected' = IF selected = r THEN NoRec ELSE selected
    /\ fired' = <<>>
    /\ UNCHANGED <<data, hidden, lastClick, editing, visible, record, rowIndex,
                   values, fields, bound, tasks, saveDisabled>>

\* A record leaves the store: the selection model drops it and the
\* editor's 'remove' listener calls stopEditing(false).
StoreRemove(r) ==
    /\ r \in ToSet(rows)
    /\ rows' = Remove(rows, r)
    /\ selected' = IF selected = r THEN NoRec ELSE selected
    /\ StopEditing("false")
    /\ UNCHANGED <<hidden, lastClick>>

\* The grid view refreshes (a header sort reorders the rows): the
\* editor's 'refresh' listener calls stopEditing() with no argument.
ViewRefresh ==
    /\ \E order \in SetToSeqs(ToSet(rows)) : rows' = order
    /\ StopEditing("none")
    /\ UNCHANGED <<hidden, selected, lastClick>>

\* The column menu hides or shows a column; 'hiddenchange' only lays the
\* fields out again.  The last shown column cannot be hidden.
ToggleColumn(c) ==
    /\ hidden[c] \/ \E d \in Cols \ {c} : ~hidden[d]
    /\ hidden' = [hidden EXCEPT ![c] = ~@]
    /\ fired' = <<>>
    /\ UNCHANGED <<rows, data, selected, lastClick, editing, visible, record,
                   rowIndex, values, fields, bound, tasks, saveDisabled>>

\* A run of a poll task (bindHandler): it removes itself when bound is
\* clear, otherwise it enables the Save button iff the fields are valid.
PollTick ==
    /\ tasks > 0
    /\ \/ /\ ~bound
          /\ tasks' = tasks - 1
          /\ UNCHANGED saveDisabled
       \/ /\ bound
          /\ saveDisabled' = ~IsValid
          /\ UNCHANGED tasks
    /\ fired' = <<>>
    /\ UNCHANGED <<gridVars, editing, visible, record, rowIndex, values,
                   fields, bound>>

-----------------------------------------------------------------------------
Init ==
    /\ rows = InitRows
    /\ data = InitData
    /\ hidden = [c \in Cols |-> FALSE]
    /\ selected = NoRec
    /\ lastClick = 0
    /\ editing = FALSE
    /\ visible = FALSE
    /\ record = NoRec
    /\ rowIndex = 0
    /\ values = [c \in Cols |-> ""]
    /\ fields = [c \in Cols |-> ""]
    /\ bound = FALSE
    /\ tasks = 0
    /\ saveDisabled = FALSE
    /\ fired = <<>>

UserNext ==
    \/ \E i \in DOMAIN rows : RowClick(i)
    \/ GridEnter
    \/ FieldEnter
    \/ SaveClick
    \/ CancelClick
    \/ \E c \in Cols, t \in Texts : EditField(c, t)
    \/ \E c \in Cols : ToggleColumn(c)

GridNext ==
    \/ \E r \in Recs : StoreRemove(r)
    \/ ViewRefresh

Next == UserNext \/ GridNext \/ PollTick

\* Ext.TaskMgr runs every registered task every 200 ms.
Spec == Init /\ [][Next]_vars /\ WF_vars(PollTick)

-----------------------------------------------------------------------------
(* Properties.                                                             *)

TypeOK ==
    /\ rows \in Seq(Recs) /\ IsInjective(rows)
    /\ data \in [Recs -> [Cols -> Texts]]
    /\ hidden \in [Cols -> BOOLEAN]
    /\ selected \in Recs \cup {NoRec}
    /\ lastClick \in Nat
    /\ editing \in BOOLEAN /\ visible \in BOOLEAN /\ bound \in BOOLEAN
    /\ record \in Recs \cup {NoRec}
    /\ rowIndex \in Nat
    /\ values \in [Cols -> Texts] /\ fields \in [Cols -> Texts]
    /\ tasks \in 0..MaxTasks
    /\ saveDisabled \in BOOLEAN
    /\ fired \in Seq(Event)

\* Spec section 8: whatever the user or the grid does, a record's data only
\* changes when every field of the overlay is valid.  stopEditing is
\* reached with saveChanges true (Enter, Save), absent (view refresh) or
\* false, and the Save button may still be enabled from a stale poll.
NoInvalidCommit == [][data' # data => IsValid]_vars

\* A change to the store's data is a commit of the session's own record,
\* still in the store, touching only shown columns and writing exactly
\* what their fields hold.  Breaks if a removed record can still be
\* committed, or if hidden columns leak into the change set.
CommitTargetsEditedRecord ==
    [][data' # data =>
         /\ record \in ToSet(rows)
         /\ \A r \in Recs \ {record} : data'[r] = data[r]
         /\ \A c \in Cols : data'[record][c] # data[record][c] =>
                               /\ ~hidden[c]
                               /\ data'[record][c] = PostEditValue(fields[c])]_vars

\* Spec section 8: while the session has unsaved edits, no step replaces
\* it with another row's session; it ends only by being hidden (commit,
\* cancel, store removal or refresh).
DirtySessionKept ==
    [][(editing /\ IsDirty /\ visible') => UNCHANGED <<record, values>>]_vars

\* Spec section 8: every step that closes the overlay fires exactly one
\* notification, and it is afteredit exactly when the record changed (an
\* empty change set is reported as a cancellation).
CloseNotifiesOnce ==
    [][(visible /\ ~visible') =>
          /\ Len(fired') = 1
          /\ (fired'[1] = "afteredit") <=> (data' # data)]_vars

\* Spec section 4.1: while the overlay is shown, the poll brings the Save
\* button in line with the fields' validity.
PollerSyncsSaveButton ==
    [](visible => <>(~visible \/ saveDisabled = ~IsValid))

\* Every poll task registered by startMonitoring stops once the overlay is
\* hidden (bindHandler returns false when bound is clear).
PollersStopWhenHidden ==
    [](~visible => <>(visible \/ tasks = 0))

\* Spec section 3: the snapshot is taken at activation, so a session that
\* has just started, before any field is touched, is not dirty.
CleanOnActivation == [][(~visible /\ visible') => ~(IsDirty')]_vars

\* Spec section 4.1: a refresh of the underlying view cancels any active
\* session; it never writes the record.
RefreshCancels == [][ViewRefresh => UNCHANGED data]_vars

\* stopMonitoring is meant to stop the poll ("stops binding"): at most one
\* poll task is registered at any time.
SinglePoller == tasks <= 1

=============================================================================
