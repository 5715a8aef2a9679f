-------------------------- MODULE MC_RasterStyler --------------------------
(* Two layers: L1 already styled by an SLD on the server (a ramp with one *)
(* entry of quantity 1), L2 unstyled.                                     *)
EXTENDS RasterStyler, TLC

CONSTANTS L1, L2

MCLayers == {L1, L2}
MCPresetDocs == << [layer |-> L1, cmap |-> <<1>>, type |-> "ramp"] >>
MCPresetSLD == (L1 :> 1) @@ (L2 :> NoURL)
\* ready (the sldready events so far) and storeLayer are only read by
\* properties this run does not check; no guard reads them, so states
\* that differ only in them have the same behaviours.
MCView == <<win, mask, layer, dirty, sldURL, cmap, cmType, comboValue, docs,
            net, opened, older, shared>>
=============================================================================
