---------------------------- MODULE RasterStyler ----------------------------
(***************************************************************************)
(* GEOR.rasterstyler (mapfishapp/.../GEOR_rasterstyler.js, lines 28-752): *)
(* the raster styling window.  create() opens a window for a WMS layer     *)
(* and asks the WCS for DescribeCoverage; initStyler builds the colormap   *)
(* store, the type combo and the grid, and loads the layer's SLD (getSLD). *)
(* Apply and Download post the colormap as an SLD to ws/sld (saveSLD).     *)
(*                                                                         *)
(* Everything is held in closure variables of the module, shared by every  *)
(* window it ever opens: win, mask, wmsLayerRecord, wcsInfo, sldURL,       *)
(* dirty, colormapStore, colormapTypeComboValue.  HTTP requests are in     *)
(* flight as a bag and are answered in any order, each exactly once (Ext's *)
(* Ajax timeout turns a lost answer into a failure).                       *)
(*                                                                         *)
(* A colormap entry is abstracted to its quantity; the grid's row editor  *)
(* is abstracted to the store events it causes (RowEditor.tla models it). *)
(***************************************************************************)
EXTENDS Naturals, Sequences, SequencesExt, Bags, FiniteSets

CONSTANTS
    Layers,          \* the WMS layers that can be styled
    Quantities,      \* the quantities a colormap entry can hold
    Types,           \* the colormap types of colormapTypeStore
    DefaultType,     \* colormapTypeStore.getAt(0)
    PresetDocs,      \* the SLD documents on the server at start
    PresetSLD,       \* [Layers -> URLs]: layer.params.SLD, or NoURL
    MaskBlocksInput, \* whether the load mask keeps the user off the grid
    NoLayer, NoURL, NoType, NoDoc,
    MaxOpen,         \* bound on create() calls
    MaxDocs,         \* bound on the documents the server holds
    MaxEntries       \* bound on the colormap's length

Doc == [layer : Layers, cmap : Seq(Quantities), type : Types]

ASSUME /\ DefaultType \in Types
       /\ PresetDocs \in Seq(Doc)
       /\ PresetSLD \in [Layers -> (1..Len(PresetDocs)) \cup {NoURL}]
       /\ MaskBlocksInput \in BOOLEAN
       /\ MaxOpen \in Nat /\ MaxDocs \in Nat /\ MaxEntries \in Nat

VARIABLES
    win,         \* the window win points to: "none", "disabled", "enabled"
    mask,        \* whether the mask that mask points to is shown
    layer,       \* wmsLayerRecord (wcsInfo names the same layer)
    dirty,       \* dirty
    sldURL,      \* sldURL, an index into docs, or NoURL
    cmap,        \* the entries of colormapStore, in store order
    cmType,      \* colormapTypeCombo.getValue()
    comboValue,  \* colormapTypeComboValue
    docs,        \* the SLD files the ws/sld service holds; a URL is an index
    net,         \* bag of requests in flight
    ready,       \* the "sldready" events fired: [layer, url]
    opened,      \* create() calls so far
    older,       \* the window an earlier create() left open: "none", or
                 \* "disabled", "masked", "usable" as it was then
    shared,      \* colormapStore, grid and editor are still the older
                 \* window's (no initStyler since create replaced win)
    storeLayer   \* wmsLayerRecord when initStyler built colormapStore

vars == <<win, mask, layer, dirty, sldURL, cmap, cmType, comboValue, docs,
          net, ready, opened, older, shared, storeLayer>>

windowVars == <<older, shared, storeLayer>>

URLs == 1..MaxDocs

\* A request: the DescribeCoverage GET, the SLD GET, or the SLD POST.
Request == [kind : {"dc", "get", "save"}, url : URLs \cup {NoURL},
            doc : Doc \cup {NoDoc}, apply : BOOLEAN]

DCReq        == [kind |-> "dc", url |-> NoURL, doc |-> NoDoc, apply |-> FALSE]
GetReq(u)    == [kind |-> "get", url |-> u, doc |-> NoDoc, apply |-> FALSE]
SaveReq(d, a) == [kind |-> "save", url |-> NoURL, doc |-> d, apply |-> a]

Send(r)    == net' = net (+) SetToBag({r})
\* Each POST in flight may add a document: the MaxDocs bound counts them.
SavesInFlight ==
    MapThenSumSet(LAMBDA r : CopiesIn(r, net),
                  {r \in BagToSet(net) : r.kind = "save"})
Deliver(r) == net' = net (-) SetToBag({r})

\* The SLD createSLD writes from the store, the combo and wcsInfo.
Content == [layer |-> layer, cmap |-> cmap, type |-> cmType]

\* The grid, the combo and the bottom bar sit under the load mask; the
\* window's buttons (Close, Download, Apply) do not.
UserInput == win = "enabled" /\ (~MaskBlocksInput \/ ~mask)

\* The grid and combo of the older window.  Its LoadMask stays as it was
\* when create() pointed mask at the new window's, so nothing hides it.
OlderInput == older = "usable" \/ (older = "masked" /\ ~MaskBlocksInput)

\* Close, Download and Apply of the window win names, or of the older
\* window; their handlers use only the closure state.
ButtonsUsable == win = "enabled" \/ older \in {"masked", "usable"}

-----------------------------------------------------------------------------
(* create(layerRecord): reset mask, wmsLayerRecord and bands, open a new   *)
(* disabled window whose afterrender shows a fresh mask, and send the     *)
(* DescribeCoverage request.  dirty, sldURL, the store and                 *)
(* colormapTypeComboValue are left as they are.                            *)
Create(l) ==
    /\ opened < MaxOpen
    /\ opened' = opened + 1
    /\ layer' = l
    /\ win' = "disabled"
    /\ mask' = TRUE
    /\ Send(DCReq)
    /\ older' = CASE win = "none"     -> older
                   [] win = "disabled" -> "disabled"
                   [] mask             -> "masked"
                   [] OTHER            -> "usable"
    /\ shared' = (shared \/ win # "none")
    /\ UNCHANGED <<dirty, sldURL, cmap, cmType, comboValue, docs, ready,
                   storeLayer>>

\* getSLD(url): show the mask and send the GET; rest is the bag of
\* requests in flight before it.
GetSLD(u, rest) ==
    /\ mask' = TRUE
    /\ net' = rest (+) SetToBag({GetReq(u)})

\* initStyler: a new empty store, the combo set from
\* colormapTypeComboValue, getSLD on the current layer's SLD param (or
\* hide the mask when it has none), then win.enable() (a closed window
\* stays closed).
InitStyler(rest) ==
    /\ cmap' = <<>>
    /\ cmType' = IF comboValue # NoType THEN comboValue ELSE DefaultType
    /\ IF PresetSLD[layer] # NoURL
         THEN GetSLD(PresetSLD[layer], rest)
         ELSE mask' = FALSE /\ net' = rest
    /\ win' = IF win = "none" THEN "none" ELSE "enabled"
    /\ shared' = FALSE
    /\ storeLayer' = layer

\* The DescribeCoverage success handler runs initStyler for whatever
\* layer wmsLayerRecord names when the answer arrives.
DCSuccess ==
    /\ DCReq \in DOMAIN net
    /\ InitStyler(net (-) SetToBag({DCReq}))
    /\ UNCHANGED <<layer, dirty, sldURL, comboValue, docs, ready, opened,
                   older>>

\* The DescribeCoverage failure handler first calls giveup(), which no
\* scope of this module defines: the ReferenceError ends the handler
\* before mask.hide() and win.close().
DCFailure ==
    /\ DCReq \in DOMAIN net
    /\ Deliver(DCReq)
    /\ UNCHANGED <<win, mask, layer, dirty, sldURL, cmap, cmType, comboValue,
                   docs, ready, opened>>
    /\ UNCHANGED windowVars

\* getSLD success: a document whose named layer is wcsInfo's identifier
\* has its entries added to the store; the type goes to
\* colormapTypeComboValue only.  Any other document is "Malformed SLD".
GetSuccess(u) ==
    /\ GetReq(u) \in DOMAIN net
    /\ Deliver(GetReq(u))
    /\ mask' = FALSE
    /\ IF docs[u].layer = layer
         THEN /\ cmap' = cmap \o docs[u].cmap
              /\ comboValue' = docs[u].type
              /\ dirty' = FALSE
              /\ sldURL' = u
         ELSE UNCHANGED <<cmap, comboValue, dirty, sldURL>>
    /\ UNCHANGED <<win, layer, cmType, docs, ready, opened>>
    /\ UNCHANGED windowVars

\* Mutant: the getSLD failure handler leaves the mask shown.
GetFailureKeepsMask(u) ==
    /\ GetReq(u) \in DOMAIN net
    /\ Deliver(GetReq(u))
    /\ UNCHANGED <<win, mask, layer, dirty, sldURL, cmap, cmType, comboValue,
                   docs, ready, opened>>
    /\ UNCHANGED windowVars

\* getSLD failure: hide the mask.
GetFailure(u) ==
    /\ GetReq(u) \in DOMAIN net
    /\ Deliver(GetReq(u))
    /\ mask' = FALSE
    /\ UNCHANGED <<win, layer, dirty, sldURL, cmap, cmType, comboValue, docs,
                   ready, opened>>
    /\ UNCHANGED windowVars

-----------------------------------------------------------------------------
(* Saving.                                                                 *)

\* saveSLD(callback, scope, applySLD): show the mask and POST the SLD of
\* the current store.  Its trailing callback(ok) only reaches callbacks
\* that do nothing with ok alone.
SaveSLD(apply) ==
    /\ Len(docs) + SavesInFlight < MaxDocs
    /\ mask' = TRUE
    /\ Send(SaveReq(Content, apply))

\* The Apply button: applyStyling saves a dirty colormap, otherwise it
\* fires "sldready" for the current sldURL, if any.
Apply ==
    /\ ButtonsUsable
    /\ \/ /\ dirty
          /\ SaveSLD(TRUE)
          /\ UNCHANGED ready
       \/ /\ ~dirty /\ sldURL # NoURL
          /\ ready' = ready \cup {[layer |-> layer, url |-> sldURL]}
          /\ UNCHANGED <<mask, net>>
    /\ UNCHANGED <<win, layer, dirty, sldURL, cmap, cmType, comboValue, docs,
                   opened>>
    /\ UNCHANGED windowVars

\* The Download button: dlStyle saves a dirty colormap without applying
\* it; a clean one only shows the URL in a dialog.
Download ==
    /\ ButtonsUsable
    /\ dirty
    /\ SaveSLD(FALSE)
    /\ UNCHANGED <<win, layer, dirty, sldURL, cmap, cmType, comboValue, docs,
                   ready, opened>>
    /\ UNCHANGED windowVars

\* Mutant: the success handler takes the URL one past the new file.
SaveSuccessOffByOne(d, a) ==
    LET u == Len(docs) + 2 IN
    /\ SaveReq(d, a) \in DOMAIN net
    /\ Deliver(SaveReq(d, a))
    /\ docs' = Append(docs, d)
    /\ sldURL' = u
    /\ ready' = IF a THEN ready \cup {[layer |-> layer, url |-> u]} ELSE ready
    /\ dirty' = FALSE
    /\ mask' = FALSE
    /\ UNCHANGED <<win, layer, cmap, cmType, comboValue, opened>>
    /\ UNCHANGED windowVars

\* The POST succeeds: the service stores the document and answers its
\* path; sldURL is set, "sldready" fires for the current wmsLayerRecord
\* when applySLD, dirty is cleared and the mask hidden.
SaveSuccess(d, a) ==
    LET u == Len(docs) + 1 IN
    /\ SaveReq(d, a) \in DOMAIN net
    /\ Deliver(SaveReq(d, a))
    /\ docs' = Append(docs, d)
    /\ sldURL' = u
    /\ ready' = IF a THEN ready \cup {[layer |-> layer, url |-> u]} ELSE ready
    /\ dirty' = FALSE
    /\ mask' = FALSE
    /\ UNCHANGED <<win, layer, cmap, cmType, comboValue, opened>>
    /\ UNCHANGED windowVars

\* The POST fails: hide the mask.
SaveFailure(d, a) ==
    /\ SaveReq(d, a) \in DOMAIN net
    /\ Deliver(SaveReq(d, a))
    /\ mask' = FALSE
    /\ UNCHANGED <<win, layer, dirty, sldURL, cmap, cmType, comboValue, docs,
                   ready, opened>>
    /\ UNCHANGED windowVars

-----------------------------------------------------------------------------
(* Editing the colormap.                                                   *)

\* createEmptyEntry: add an entry of quantity 0 ('0.0') at the end of the
\* store and start editing it.  The store fires "add", which nothing
\* listens to.  It uses the closure's colormapStore, grid and editor, so
\* the older window's Add button acts on them too.
AddEntry ==
    /\ UserInput \/ OlderInput
    /\ Len(cmap) < MaxEntries
    /\ cmap' = Append(cmap, 0)
    /\ UNCHANGED <<win, mask, layer, dirty, sldURL, cmType, comboValue, docs,
                   net, ready, opened>>
    /\ UNCHANGED windowVars

\* The remove button: remove the selected entry; "remove" calls setDirty.
\* Like Add, its handler uses the closure's grid and store.
RemoveEntry(i) ==
    /\ UserInput \/ OlderInput
    /\ cmap' = RemoveAt(cmap, i)
    /\ dirty' = TRUE
    /\ UNCHANGED <<win, mask, layer, sldURL, cmType, comboValue, docs, net,
                   ready, opened>>
    /\ UNCHANGED windowVars

\* The row editor commits a quantity: "update" calls setDirty, then the
\* "afteredit" listener sorts the store by quantity.
EditEntry(i, q) ==
    /\ UserInput \/ (OlderInput /\ shared)
    /\ cmap' = SortSeq([cmap EXCEPT ![i] = q], LAMBDA x, y : x < y)
    /\ dirty' = TRUE
    /\ UNCHANGED <<win, mask, layer, sldURL, cmType, comboValue, docs, net,
                   ready, opened>>
    /\ UNCHANGED windowVars

\* The colormap type combo changes: "change" calls setDirty.
ChangeType(t) ==
    /\ UserInput \/ (OlderInput /\ shared)
    /\ t # cmType
    /\ cmType' = t
    /\ dirty' = TRUE
    /\ UNCHANGED <<win, mask, layer, sldURL, cmap, comboValue, docs, net,
                   ready, opened>>
    /\ UNCHANGED windowVars

\* The Close button (win.close()) or the window's close tool.  Neither
\* hides the mask; requests in flight go on.
Close ==
    /\ win # "none"
    /\ win' = "none"
    /\ UNCHANGED <<mask, layer, dirty, sldURL, cmap, cmType, comboValue, docs,
                   net, ready, opened>>
    /\ UNCHANGED windowVars

\* deactivate(): mask && mask.hide(); win && win.close().  mask is null
\* only before the first create().
Deactivate ==
    /\ opened > 0
    /\ mask' = FALSE
    /\ win' = "none"
    /\ UNCHANGED <<layer, dirty, sldURL, cmap, cmType, comboValue, docs,
                   net, ready, opened, older, shared, storeLayer>>

\* The older window's own row editor commits into its own store, or its
\* own combo changes, once initStyler has replaced the closure's: the
\* store's "update" and the combo's "change" still call setDirty.
OlderEdit ==
    /\ OlderInput
    /\ ~shared
    /\ dirty' = TRUE
    /\ UNCHANGED <<win, mask, layer, sldURL, cmap, cmType, comboValue, docs,
                   net, ready, opened, older, shared, storeLayer>>

\* The older window's Close button: its handler's win.close() closes the
\* window win names, not its own.
OlderCloseButton ==
    /\ older \in {"masked", "usable"}
    /\ win # "none"
    /\ win' = "none"
    /\ UNCHANGED <<mask, layer, dirty, sldURL, cmap, cmType, comboValue, docs,
                   net, ready, opened, older, shared, storeLayer>>

\* The older window's close tool closes it.
OlderCloseTool ==
    /\ older \in {"masked", "usable"}
    /\ older' = "none"
    /\ UNCHANGED <<win, mask, layer, dirty, sldURL, cmap, cmType, comboValue,
                   docs, net, ready, opened, shared, storeLayer>>

-----------------------------------------------------------------------------
Init ==
    /\ win = "none"
    /\ mask = FALSE
    /\ layer = NoLayer
    /\ dirty = TRUE
    /\ sldURL = NoURL
    /\ cmap = <<>>
    /\ cmType = DefaultType
    /\ comboValue = NoType
    /\ docs = PresetDocs
    /\ net = EmptyBag
    /\ ready = {}
    /\ opened = 0
    /\ older = "none"
    /\ shared = FALSE
    /\ storeLayer = NoLayer

\* The answers of the servers.
Respond ==
    \/ DCSuccess
    \/ DCFailure
    \/ \E u \in URLs : GetSuccess(u) \/ GetFailure(u)
    \/ \E r \in DOMAIN net : r.kind = "save" /\
          (SaveSuccess(r.doc, r.apply) \/ SaveFailure(r.doc, r.apply))

UserNext ==
    \/ \E l \in Layers : Create(l)
    \/ Apply
    \/ Download
    \/ Close
    \/ Deactivate
    \/ AddEntry
    \/ \E i \in DOMAIN cmap : RemoveEntry(i)
    \/ \E i \in DOMAIN cmap, q \in Quantities : EditEntry(i, q)
    \/ \E t \in Types : ChangeType(t)
    \/ OlderEdit
    \/ OlderCloseButton
    \/ OlderCloseTool

Next == UserNext \/ Respond

\* Every request is answered: by the server, or by Ext.Ajax's timeout as a
\* failure.  The user owes nothing.
Spec == Init /\ [][Next]_vars /\ WF_vars(Respond)

-----------------------------------------------------------------------------
(* Properties.                                                             *)

TypeOK ==
    /\ win \in {"none", "disabled", "enabled"}
    /\ mask \in BOOLEAN /\ dirty \in BOOLEAN
    /\ layer \in Layers \cup {NoLayer}
    /\ sldURL \in URLs \cup {NoURL}
    /\ cmap \in Seq(Quantities)
    /\ cmType \in Types /\ comboValue \in Types \cup {NoType}
    /\ Len(docs) <= MaxDocs /\ \A u \in DOMAIN docs : docs[u] \in Doc
    /\ IsABag(net) /\ BagToSet(net) \subseteq Request
    /\ ready \subseteq [layer : Layers, url : URLs]
    /\ opened \in 0..MaxOpen
    /\ older \in {"none", "disabled", "masked", "usable"}
    /\ shared \in BOOLEAN /\ storeLayer \in Layers \cup {NoLayer}

\* The comment on dirty (lines 75-78): when dirty is false the SLD at
\* sldURL matches the colormap the open window shows.
DirtyMeansUnsaved ==
    (win = "enabled" /\ ~dirty) => (sldURL # NoURL /\ docs[sldURL] = Content)

\* "sldready" tells the map to style a layer with an SLD: every event
\* names an SLD written for that layer.
SldReadyForOwnLayer == \A e \in ready : docs[e.url].layer = e.layer

\* getSLD's success handler is meant to "build the store again" from the
\* loaded rules (line 308): a successful load of a document for the shown
\* layer leaves the store holding exactly that document's entries.  Two
\* DescribeCoverage answers (a window closed and reopened while loading)
\* run initStyler twice and send two GETs, whose answers append to the
\* same store.
LoadShowsDocument ==
    [][\A u \in URLs : (GetSuccess(u) /\ docs[u].layer = layer) =>
                           cmap' = docs[u].cmap]_vars

\* createSLD names the layer by wcsInfo but writes the entries of
\* colormapStore: every SLD the styler posts holds the colormap that was
\* built for the layer it names.  An older window left open by create()
\* can press Apply while the new window still waits for DescribeCoverage.
SaveShowsItsLayer ==
    [][\A r \in DOMAIN net' :
         (r.kind = "save" /\ CopiesIn(r, net') > CopiesIn(r, net))
             => r.doc.layer = storeLayer]_vars

\* Once the window is usable, a shown mask is eventually hidden: every
\* path that shows it sends a request whose answer hides it.
MaskEventuallyLifted ==
    [](win = "enabled" /\ mask => <>(~mask \/ win # "enabled"))

\* A window that create() opens is eventually enabled or closed.
WindowEventuallyUsable ==
    [](win = "disabled" => <>(win # "disabled"))

=============================================================================
