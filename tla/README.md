# TLA+ models of the geOrchestra raster styler

This directory holds TLA+ models of the client-side editing logic in
`src/mapfishapp/src/main/webapp/app/js/GEOR_rasterstyler.js`. That file holds
two components:

* **`Ext.ux.grid.RowEditor`** (lines 773-1232). This is the Ext JS 3.4 row editor plugin
  bundled with the styler. It shows an overlay of fields over one grid
  row. It takes a snapshot of the row's values when editing starts
  (`startEditing`) and commits or cancels when editing stops (`stopEditing`).
  While the overlay is visible, an `Ext.TaskMgr` task polls `isValid` to
  enable or disable the Update button (`startMonitoring` / `bindHandler` /
  `stopMonitoring`). Grid events also drive it: a row click (`onRowClick`),
  Enter on the grid or in a field (`onGridKey`, `onKey`), the store's `remove`
  event, the view's `refresh` event, and column hiding.
* **`GEOR.rasterstyler`** (lines 1-760). This is the window that builds a
  colour-map SLD for a WCS raster layer. Its state lives in the module's
  closure variables (`win`, `mask`, `wmsLayerRecord`, `dirty`, `sldURL`,
  `colormapStore`, `colormapTypeComboValue`). These are shared by every window
  the module opens. Opening the window (`create`) sends DescribeCoverage.
  Its answer builds the panel (`initStyler`), which may GET an existing SLD
  (`getSLD`). *Apply* and *Download* POST the colour map to `ws/sld`
  (`saveSLD`) unless the panel is clean (`dirty` false). A save answer
  records the new `sldURL` and, for Apply, fires `sldready` for the current
  layer. Every request shows the single shared `LoadMask`, and every answer
  hides it.

The two components interact through the colour-map store. The editor edits
its records. The styler's `afteredit` listener sorts the store, and the sort
refreshes the grid view, which the editor listens to.

The repository's other source file is the analytics `Extractor` controller
(`src/analytics/src/main/webapp/js/app/controller/Extractor.js`). When the
month or mode changes, it reloads three stores through
`this.loadStoreWithDate`. That method, and `handleExport`, live in
`Analytics.controller.Base`, which this repository does not contain (see
"Not modelled").

## Modules

| Module | Models | Notes |
|---|---|---|
| `RowEditor.tla` | the RowEditor plugin over a grid and its store | one action per handler |
| `MC_RowEditor.tla` | 2 records, 2 columns (a numberfield `quantity`, a blank-allowed `label`), 3 texts | `"0.0"` parses to `"0"`, as createEmptyEntry's value does |
| `RasterStyler.tla` | the styler module's closure state, its windows and its requests | servers are the environment |
| `MC_RasterStyler.tla` | 2 layers, one preset SLD for the first layer | |
| `EditSession.tla` | the abstract edit session the row editor promises | written from spec sections 3 and 4.1; not mapped to code; `AddRec` and the write in `RemoveRec` are the styler grid's steps |
| `RowEditorSession.tla` | the refinement mapping from `RowEditor` to `EditSession` | `INSTANCE EditSession WITH ...` |
| `ColormapGrid.tla` | `RowEditor` composed with the styler's colour-map grid | store listeners, afteredit sort, Add/Remove buttons; extends `RowEditorSession` for the refinement |
| `MC_ColormapGrid.tla` | 1 loaded entry (quantity 1) plus the entry the Add button creates | |

### RowEditor

The variables are the grid (`rows`, `data`, `hidden` columns, `selected`,
`lastClick`) and the editor's fields (`editing`, `visible`, `record`,
`rowIndex`, the snapshot `values`, the `fields` the user sees, `bound`). It
also has `tasks`, the number of live `Ext.TaskMgr` poll tasks, along with
`saveDisabled` and `fired`, the events of the last step. The actions are:

* `StartEditing(i)` for `startEditing`. If the current session is dirty, it
  only shows the overlay. Otherwise `Activate(i)` takes the snapshot, fills
  the fields through `preEditValue` and the column editor's conversion
  (`FieldText`), and shows the overlay. Showing runs `onShow`, which starts
  monitoring.
* `StopEditing(save)` for `stopEditing`, with `save` being true, false or
  absent. It computes the change set over the visible columns, commits it if
  the fields are valid and no one vetoes, fires `afteredit` or `canceledit`,
  and hides the overlay. Hiding runs `onHide`, which stops monitoring.
* `RowClick`, `GridEnter`, `FieldEnter`, `SaveClick`, `CancelClick`,
  `EditField` are the user's inputs.
* `StoreRemove`, `ViewRefresh`, `ToggleColumn` are the grid's events.
  `ViewRefresh` reorders the rows, as a sort does.
* `PollTick` is one run of a poll task (`bindHandler`). It ends its task
  when `bound` is false. Otherwise it sets the Update button from `isValid`.

### EditSession and the refinement

`EditSession` holds the store's `rows` and `data`, the `session` record (or
none), its `snapshot` and the user's `draft`. It has the following actions:

* `Open(r)`: only on a stored record, and only when no session is open or
  the open one is clean.
* `Type`.
* `Commit`: writes some columns of a valid draft into the session's own
  live record.
* `Cancel`.
* `RemoveRec(r)`: ends any session, as a write or not, then removes `r`;
  a write may re-sort the store first.
* `AddRec(r)`: ends any session the same way, appends a new record `r` and
  opens a session on it, with the snapshot taken from its data.
* `Reorder`: ends the session by a commit or a cancellation.

The plugin alone never adds a record; `AddRec` is the step of the styler's
Add button, and `RemoveRec` with a write the step of its Remove button.

`RowEditorSession` maps the plugin onto it:

* `session` is `record` while `editing` is set, and none otherwise.
* `snapshot` is `values`.
* `draft` is the fields' values.
* `Pre`, `Post` and `Valid` are `preEditValue`, `postEditValue` and
  `isValid`.

The overlay, poll tasks, Save button, selection and column model are left
out, so the steps that touch only them are stuttering steps of the session.

### ColormapGrid

This module extends `RowEditor` (through `RowEditorSession`) with two variables: the styler's `dirty`, and
`added`, the records `createEmptyEntry` created. A JavaScript handler and
every listener it triggers run to completion before the next event, so each
handler is one step. `Stopped(save, rs)` computes what `stopEditing(save)`
leaves once the styler's listeners have run:

1. `r.endEdit()` fires the store's `update` event, which calls `setDirty`.
2. The `afteredit` listener sorts the store by quantity; the sort is stable,
   like Ext's `MixedCollection._sort`.
3. The sort refreshes the view, whose `refresh` listener re-enters
   `stopEditing()` while the overlay is still shown (`Reentry`).
4. Only then does the outer call hide the overlay.

The handlers are:

* `CommitKey` / `UpdateClick`: Enter or the Update button.
* `HeaderSort`: a header click sorts the store, then the view's refresh
  stops the edit.
* `RemoveEntryClick`: `stopEditing()`, then the store removes the selected
  record.
* `AddEntry`: `createEmptyEntry`, that is `stopEditing()`, `add`,
  `refresh`, `selectLastRow` and `startEditing(e)`.

The plugin's other handlers are reused from `RowEditor` unchanged.

`ColormapGrid` extends `RowEditorSession`, so the same refinement mapping
applies to the composed grid. `GridRefinesEditSession` checks that the
styler's listeners and buttons keep the editor's contract: `CommitKey`,
`UpdateClick` and `HeaderSort` are `Commit`, `Cancel` or `Reorder`;
`RemoveEntryClick` is `RemoveRec` (or, with nothing selected, a `Reorder`);
`AddEntry` is `AddRec`. It is written as `Session!Spec` with the stuttering
disjunct first, which TLC evaluates faster.

### RasterStyler

The variables are the closure state (`win` none, disabled or enabled;
`mask`; `layer` for `wmsLayerRecord`; `dirty`; `sldURL`; the store `cmap`;
`cmType`; `comboValue` for `colormapTypeComboValue`). The environment adds
`docs`, the SLDs held by `ws/sld` (URL = index), and `net`, a bag of requests
in flight. `ready` records the `sldready` events, and `opened` counts the
windows. `create` replaces `win` without closing the window it named, and the
window is not modal, so three more variables describe the window it leaves
open: `older` (none, or disabled, masked or usable as it was then), `shared`
(no `initStyler` has run since, so `colormapStore`, `grid` and `editor` are
still that window's) and `storeLayer` (the `wmsLayerRecord` that
`colormapStore` was built for). Only the latest older window is kept, which is
exact for `MaxOpen = 2`. The actions are:

* `Create(l)` for `create`.
* `DCSuccess` for the DescribeCoverage success callback and `initStyler`,
  which GETs `sldURL` through `GetSLD` when there is one.
* `DCFailure` for the failure callback. It throws at the undefined `giveup`
  before doing anything.
* `GetSuccess`, `GetFailure` for `getSLD`'s callbacks.
* `Apply`, `Download` for `applyStyling`, `dlStyle`. When dirty, both send
  through `SaveSLD` (`saveSLD`). Each save answer may add a server document,
  so `SaveSLD` is enabled only while `docs` plus the saves in flight
  (`SavesInFlight`) stay under `MaxDocs`; GETs and DescribeCoverage requests
  in flight do not count.
* `SaveSuccess`, `SaveFailure` for `saveSLD`'s callbacks.
* `AddEntry` (`createEmptyEntry`), `RemoveEntry`, `EditEntry` (store update +
  `afteredit` sort), `ChangeType` (combo `change`), `Close` (the Close
  button or the close tool: `win.close()`, which leaves the mask shown), and
  `Deactivate` (`deactivate`: `mask.hide()`, then `win.close()`). The Add and Remove handlers use the closure `grid` and
  `colormapStore`, so the older window's buttons act on the store the
  closure names (`UserInput \/ OlderInput`). Edits in the older window's
  own grid or combo change the store only while `shared` holds.
* `OlderEdit`: an edit in the older window's own grid or combo after a newer
  `initStyler` replaced the store. Its listeners still call `setDirty`.
* `OlderCloseButton`: the older window's Close button runs `win.close()`,
  which closes the newer window. `OlderCloseTool`: its title-bar close.
* The older window's Apply and Download buttons call `applyStyling` and
  `dlStyle`, which read only closure state; they are `Apply` and `Download`
  enabled by `ButtonsUsable`.

## Runs

| Run | Config | Expect | What it shows |
|---|---|---|---|
| roweditor_lifecycle | `MC_RowEditor.cfg` | pass | These hold under every interleaving of user input, store and view events and poll ticks. Only valid fields are committed (`NoInvalidCommit`), and only into the record being edited, which is still in the store (`CommitTargetsEditedRecord`). A dirty session is never replaced (`DirtySessionKept`). Every close fires exactly one of `afteredit`/`canceledit` (`CloseNotifiesOnce`), and the whole plugin refines `EditSession` (`RefinesEditSession`). While visible, the poll eventually syncs the Update button (`PollerSyncsSaveButton`). Once hidden, all poll tasks eventually end (`PollersStopWhenHidden`). About 325k states. |
| roweditor_clean_activation | `MC_RowEditor_CleanOnActivation.cfg` | violation | A session starting on `'0.0'` is dirty at once (snapshot vs numberfield). |
| roweditor_refresh_commits | `MC_RowEditor_RefreshCancels.cfg` | violation | A view refresh during an edit commits it. |
| roweditor_poller_leak | `MC_RowEditor_SinglePoller.cfg` | violation | hide + show before the next tick leaves two poll tasks. |
| colormap_grid | `MC_ColormapGrid.cfg` | pass | With the styler's listeners, the afteredit sort and its re-entrant `stopEditing`, and the Add and Remove buttons attached, the composed grid still refines `EditSession` (`GridRefinesEditSession`): only valid drafts are written, only into the edited live record, and a session opens with `Pre(data)` as its snapshot. `AddRec` and `RemoveRec` allow a dirty session to be committed or discarded first, because `createEmptyEntry` and the Remove button do that (line 357); that is a hazard no run checks. 3.69M states, about 2 minutes. |
| colormap_double_notify | `MC_ColormapGrid_CloseNotifiesOnce.cfg` | violation | A commit in the styler's grid fires `afteredit` and then `canceledit`, through the afteredit sort, the refresh and the re-entrant stopEditing. |
| styler_mask | `MC_RasterStyler.cfg` | pass | With answers in any order over two windows, and the buttons and grid of the window `create` left open, the mask over an enabled window is always lifted (`MaskEventuallyLifted`). About 2.6M states, three minutes. |
| styler_cross_session | `MC_RasterStyler_SldReadyForOwnLayer.cfg` | violation | `sldready` fires for layer L2 with an SLD made for L1. |
| styler_add_not_dirty | `MC_RasterStyler_DirtyMeansUnsaved.cfg` | violation | `dirty` is false while the panel differs from the SLD at `sldURL`. TLC reaches it in five steps in two ways, and which one it prints depends on its search order. In one, Apply saves, the save answer clears `dirty`, and `createEmptyEntry` adds an entry, whose `add` does not call `setDirty`. In the other, Apply saves the empty store while the preset SLD's GET is in flight; the GET answer fills the store and clears `dirty`, and the save answer then points `sldURL` at the empty colormap. |
| styler_older_window | `MC_RasterStyler_SaveShowsItsLayer.cfg` | violation | After a second `create`, the first window's Apply posts an SLD naming the new layer's coverage with the colormap loaded for the old layer. With Apply limited to the newest window the property holds (4.9M states), so the older window is the cause. |
| styler_double_load | `MC_RasterStyler_LoadShowsDocument.cfg` | violation | Reopening while DescribeCoverage is pending loads the SLD's entries twice into one store. |
| styler_coverage_failure | `MC_RasterStyler_WindowEventuallyUsable.cfg` | violation | A DescribeCoverage failure leaves the window masked and disabled forever. |

The findings behind the violation runs are listed in `PROJECT.json`.

## Bounds

* **RowEditor.** Two records are the fewest that allow switching rows and
  removing one record while the other is edited. Two columns, one numeric and
  one that allows blanks, cover both a hidden and a visible invalid field. The
  three texts (`"0.0"`, `"0"`, `""`) cover normalisation, a valid value and an
  invalid value. `MaxTasks = 2` leaves room for the leaked second poll task.
* **ColormapGrid.** One loaded entry (quantity `"1"`) and one that Add
  creates (quantity `"0.0"`). An added entry is therefore out of order until a
  commit sorts it, and the stable sort has equal keys (`"0.0"`/`"0"`) to keep
  in order. The four texts `"0.0"`, `"0"`, `"1"` and `""` cover
  normalisation, both sort keys and an invalid value. `MaxAdded = 1`, and
  `MaxTasks = 2` leaves room for the task that `createEmptyEntry` leaks.
  Liveness is not checked here. With a temporal property the run took close
  to four minutes before the refinement was added. The poll properties are
  checked in roweditor_lifecycle, whose `StartEditing` and `StopEditing`
  already hide and show the overlay the way `createEmptyEntry` does.
* **RasterStyler.** Two layers and `MaxOpen = 2` windows allow a request from
  one session to be answered in the next. `MaxDocs = 3` server documents (one
  preset) allow two saves. `MaxEntries = 1` colour-map entry with quantities
  {0,1} lets a save and a later edit differ. The violation runs that need
  only one window use `MaxOpen = 1`. The passing run declares a `VIEW`
  without `ready` and `storeLayer`: no guard reads them and
  `MaskEventuallyLifted` does not mention them, so two states that differ
  only there have the same futures. `TypeOK` does mention them; with the view
  its conjuncts on those two are checked on one state of each class. Both are
  assigned only from `layer` and `sldURL`, whose types `TypeOK` checks in
  every state, and the violation runs, which have no view, explore them in
  full. Without the view the run takes over five minutes.

## Fairness

* `WF_vars(PollTick)`: `Ext.TaskMgr` runs every registered task on its
  interval for as long as it returns anything but false.
* `WF_vars(Respond)`: every `Ext.Ajax.request` ends in a success or a failure
  callback, because Ext.Ajax's timeout turns a lost answer into a failure.
* No fairness is assumed for the user.

## Not modelled

* Focus handling, layout, tooltips and the error summary of the RowEditor.
* The band combo and the dialogs of the styler, and the SLD XML text.
  `createSLD` is abstracted to the document's content (layer, entries, type).
* The `autoEncode` codec. The styler's `RowEditor` is built without
  `autoEncode`, so `preEditValue`/`postEditValue` return the value unchanged,
  and the MC models set `AutoEncode = FALSE`. `Ext.util.Format.htmlEncode`
  and `htmlDecode` are library code that this program never calls. Spec
  section 8's round trip (decode, then encode, of an untouched value)
  therefore has nothing in this program to check. As Ext 3.4 writes them, it
  would also fail for a stored `"&"`.
* The `TypeError` of `getSLD`'s success handler (line 309) for an SLD whose
  first rule has no Raster `colorMap`: it would skip `mask.hide()`.
  `GetSuccess` takes every document to be a raster SLD this styler wrote, or
  malformed, so `MaskEventuallyLifted` does not cover that input.
* More than one older window. Only the latest window `create` left open is
  kept; with `MaxOpen = 2` there is only one. No caller in this repository
  calls `create`, so whether two windows can be open at all depends on code
  outside it.
* A property for `colormapTypeComboValue` (line 319). `GetSuccess` sets
  `comboValue`, and the next `InitStyler` builds its combo (`cmType`) from
  it, for whatever layer that window is for. The FIXME at line 319 already
  says the loaded type misses its own combo, and no run is spent on where it
  lands instead.
* `beforedestroy` (lines 872-877). It unregisters `this.onStoreRemove`,
  which does not exist, so the anonymous store `remove` listener outlives a
  destroyed editor. Nothing removes records from a closed window's store
  (the only `remove` call is the grid's Remove button), so that listener
  never runs again.
* `saveSLD`'s extra `callback(ok)` right after sending (line 247). Both
  callers' callbacks do nothing unless they are also given a URL.
* The analytics `Extractor` controller. Its handlers only set `this.month`
  and `this.year` and call `this.loadStoreWithDate` for three stores.
  Loading and exporting are done by `Analytics.controller.Base`, which is not
  in this repository. Whether a later load cancels an earlier one, and what
  an export sends, cannot be read from the code here.
* `ColormapGrid` and `RasterStyler` are not joined into one module. Together
  they exceed TLC's reach at bounds where their cases happen. Each
  abstracts the other to the store events they share: the `dirty` flag and
  the order of entries.
* The Ext JS and OpenLayers libraries and the servers, beyond the answers
  they give.

## Plan

Done so far:

* the `RowEditor` ⇒ `EditSession` refinement;
* the `ColormapGrid` composition, and its refinement of `EditSession`;
* a property for the double load;
* the older window that `create` leaves open, and a property showing that its
  Apply saves an SLD for the wrong layer.

Next:

1. Find a cheaper configuration of `ColormapGrid` in which the poll
   liveness properties fit the time limit.

Not planned: an abstract save protocol refined by `RasterStyler` for a
single window. With one window the layer never changes, so the refinement
would hold by construction. With two windows it fails as
styler_cross_session shows.
