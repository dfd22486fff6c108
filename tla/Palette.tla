------------------------------- MODULE Palette -------------------------------
(***************************************************************************)
(* The palette of the site: the state kept in localStorage                 *)
(* (palette-storage.ts), the inline script that paints it while the HTML   *)
(* is parsed (palette-boot.tsx), the picker that takes over when React has *)
(* mounted (colour-picker.tsx), `?palette=' links (palette.ts) and the     *)
(* WebGL scene, which has to be told (loop-scene.tsx).                     *)
(*                                                                         *)
(* The tabs of one browser share the storage and nothing else: no tab      *)
(* listens to what another one stores.  A palette is one value for its     *)
(* seven colours; None is `no overrides', what globals.css ships.          *)
(***************************************************************************)
EXTENDS Naturals

CONSTANTS
    Tab,
    Colours,        \* palettes
    Preset,         \* ids of PRESETS
    Shipped,        \* SHIPPED_PRESET_ID
    PresetPalette,  \* the palettes of the others
    Scheme,
    DefaultScheme,
    None,
    Malformed,      \* a palette that is partial or not of hexes
    OldPresets      \* whether storage may hold a preset as an older release had it

Custom == "custom"

ASSUME PaletteAssumption ==
    /\ Shipped \in Preset /\ Custom \notin Preset
    /\ PresetPalette \in [Preset \ {Shipped} -> Colours]
    /\ DefaultScheme \in Scheme
    /\ None \notin Colours \cup Preset \cup Scheme /\ Preset \cap Colours = {}
    /\ Malformed \notin Colours \cup {None}
    /\ OldPresets \in BOOLEAN

VARIABLES
    stored,     \* localStorage
    clip,       \* the link last copied, and the palette of who copied it
    life,       \* Tab -> how far its page is
    link,       \* Tab -> the link it was opened with, until it has mounted
    html,       \* Tab -> the custom properties and data-li-scheme of <html>
    panel,      \* Tab -> the state of ColourPicker
    undisturbed,\* Tab -> what it boots on is well-formed and still what is stored
    scene       \* Tab -> the WebGL scene

vars == <<stored, clip, life, link, html, panel, undisturbed, scene>>

Ids == Preset \cup {Custom}

\* What JSON.parse gives; a palette id or a scheme that is not one of ours is
\* None here, and Malformed stands for all that is no object of this shape.
State(palette, id, scheme) == [palette |-> palette, presetId |-> id, scheme |-> scheme]
Raw == [palette: Colours \cup {None, Malformed}, presetId: Ids \cup {None}, scheme: Scheme \cup {None}]
DefaultState == State(None, Shipped, None)

ASSUME NoStateAssumption ==
    /\ {None, Malformed} \cap Raw = {}
    /\ None \notin [palette: Colours \cup {None}, presetId: Ids]

NoLink == [code |-> None, sent |-> None]
Link == [code: Preset \cup Colours \cup {None}, sent: Colours \cup {None}]

NoScene == [at |-> "none"]
Importing == [at |-> "importing"]

\* What the mark's colour, like every token, derives from.
Worn == [palette: Colours \cup {None}, scheme: Scheme \cup {None}]

TypeOK ==
    /\ stored \in Raw \cup {None, Malformed}
    /\ clip \in Link
    /\ life \in [Tab -> {"closed", "booted", "mounted"}]
    /\ link \in [Tab -> Link]
    /\ html \in [Tab -> Worn]
    /\ panel \in [Tab -> [palette: Colours \cup {None}, presetId: Ids, scheme: Scheme]]
    /\ undisturbed \in [Tab -> BOOLEAN]
    /\ \A t \in Tab : scene[t] \in
          {NoScene, Importing} \cup [at: {"up"}, mark: Worn]

Unpainted == [palette |-> None, scheme |-> None]
FreshPanel == [palette |-> None, presetId |-> Shipped, scheme |-> DefaultScheme]

(***************************************************************************)
(* Storage.                                                                *)
(***************************************************************************)
WellFormed(raw) == raw # Malformed /\ (raw # None => raw.palette # Malformed)

Normalised(s) ==
    State(s.palette,
          IF s.palette = None THEN Shipped ELSE IF s.presetId = None THEN Custom ELSE s.presetId,
          s.scheme)

\* null when nothing is stored or what is does not validate, which is removed.
Read(raw) == IF raw # None /\ WellFormed(raw) THEN Normalised(raw) ELSE None
Cleaned(raw) == IF WellFormed(raw) THEN raw ELSE None

Base(raw) == IF Read(raw) = None THEN DefaultState ELSE Read(raw)

\* setItem, or a quota, private mode, disabled storage.
Saved(raw, next) == {Normalised(next), Cleaned(raw)}

\* Slip: the patch of apply() without its preset id.
SavedPaletteWithoutId(raw, palette, id) ==
    Saved(raw, [Base(raw) EXCEPT !.palette = palette])

SavedPalette(raw, palette, id) ==
    Saved(raw, [Base(raw) EXCEPT !.palette = palette, !.presetId = id])

SavedScheme(raw, scheme) == Saved(raw, [Base(raw) EXCEPT !.scheme = scheme])

(***************************************************************************)
(* Links.                                                                  *)
(***************************************************************************)
PaletteOf(p) == IF p = Shipped THEN None ELSE PresetPalette[p]

\* `preset.id', or the seven hexes.
Code(palette, id) == IF id \in Preset THEN id ELSE palette

\* null for what is neither.
Decoded(code) ==
    IF code \in Preset THEN [palette |-> PaletteOf(code), presetId |-> code]
    ELSE IF code \in Colours THEN [palette |-> code, presetId |-> Custom]
    ELSE None

(***************************************************************************)
(* A page.                                                                 *)
(***************************************************************************)

\* What an earlier visit of this browser, an older release or a hand has left.
Init ==
    /\ stored \in Raw \cup {None, Malformed}
    /\ stored \in Raw /\ stored.presetId \in Preset /\ stored.palette # Malformed /\ ~OldPresets
          => stored.palette = PaletteOf(stored.presetId)
    /\ clip = NoLink
    /\ life = [t \in Tab |-> "closed"]
    /\ link = [t \in Tab |-> NoLink]
    /\ html = [t \in Tab |-> Unpainted]
    /\ panel = [t \in Tab |-> FreshPanel]
    /\ undisturbed = [t \in Tab |-> FALSE]
    /\ scene = [t \in Tab |-> NoScene]

\* The inline script validates by itself: the scheme first, then the palette.
Boot(raw) ==
    IF raw \in {None, Malformed} THEN Unpainted
    ELSE [palette |-> IF raw.palette = Malformed THEN None ELSE raw.palette, scheme |-> raw.scheme]

\* The page is opened, with or without a link, and parsed.
Open(t) ==
    /\ life[t] = "closed"
    /\ life' = [life EXCEPT ![t] = "booted"]
    /\ \E l \in {NoLink, clip} : link' = [link EXCEPT ![t] = l]
    /\ html' = [html EXCEPT ![t] = Boot(stored)]
    /\ panel' = [panel EXCEPT ![t] = FreshPanel]
    /\ undisturbed' = [undisturbed EXCEPT ![t] = WellFormed(stored)]
    /\ UNCHANGED <<stored, clip, scene>>

\* For the tabs that have booted and not mounted.
Disturbs ==
    undisturbed' = [t \in Tab |-> undisturbed[t] /\ (life[t] = "booted" => stored' = stored)]

\* Slip: the scene listens to the OS scheme and not to PALETTE_EVENT.
ToldNothing(s, worn) == s

\* onPalette, the scene's handler of PALETTE_EVENT: the next frame has the colour,
\* or one is drawn now if the loop does not run.
Told(s, worn) == IF s.at = "up" THEN [s EXCEPT !.mark = worn] ELSE s

\* apply(): writeVars, which tells the scene, and the panel's state.
Wears(t, palette, id) ==
    /\ html' = [html EXCEPT ![t].palette = palette]
    /\ panel' = [panel EXCEPT ![t].palette = palette, ![t].presetId = id]
    /\ scene' = [scene EXCEPT ![t] = Told(@, html'[t])]

\* The effect on mount: a link wins over what is saved, the scheme is saved's.
Mount(t) ==
    LET saved == Read(stored)
        shared == Decoded(link[t].code)
        worn == IF shared # None THEN shared
                ELSE IF saved # None /\ saved.palette # None
                     THEN [palette |-> saved.palette, presetId |-> saved.presetId]
                     ELSE None
        schemed == saved # None /\ saved.scheme # None IN
    /\ life[t] = "booted"
    /\ life' = [life EXCEPT ![t] = "mounted"]
    /\ html' = [html EXCEPT ![t] =
                  [palette |-> IF worn = None THEN @.palette ELSE worn.palette,
                   scheme  |-> IF schemed THEN saved.scheme ELSE @.scheme]]
    /\ panel' = [panel EXCEPT ![t] =
                  [palette  |-> IF worn = None THEN @.palette ELSE worn.palette,
                   presetId |-> IF worn = None THEN @.presetId ELSE worn.presetId,
                   scheme   |-> IF schemed THEN saved.scheme ELSE @.scheme]]
    /\ \E first \in IF worn = None THEN {Cleaned(stored)}
                    ELSE SavedPalette(Cleaned(stored), worn.palette, worn.presetId) :
          stored' \in IF schemed THEN SavedScheme(first, saved.scheme) ELSE {first}
    /\ undisturbed' =
          [u \in Tab |-> undisturbed[u] /\ (u # t /\ life[u] = "booted" => stored' = stored)]
    /\ link' = [link EXCEPT ![t] = NoLink]
    /\ UNCHANGED <<clip, scene>>

Close(t) ==
    /\ life[t] # "closed"
    /\ life' = [life EXCEPT ![t] = "closed"]
    /\ link' = [link EXCEPT ![t] = NoLink]
    /\ html' = [html EXCEPT ![t] = Unpainted]
    /\ panel' = [panel EXCEPT ![t] = FreshPanel]
    /\ undisturbed' = [undisturbed EXCEPT ![t] = FALSE]
    /\ scene' = [scene EXCEPT ![t] = NoScene]
    /\ UNCHANGED <<stored, clip>>

(***************************************************************************)
(* The panel.                                                              *)
(***************************************************************************)
Apply(t, palette, id) ==
    /\ life[t] = "mounted"
    /\ Wears(t, palette, id)
    /\ stored' \in SavedPalette(stored, palette, id)
    /\ Disturbs
    /\ UNCHANGED <<clip, life, link>>

\* A preset, of which the shipped one is also "Reset".
ChoosePreset(t) == \E p \in Preset : Apply(t, PaletteOf(p), p)

\* A colour well, or "Surprise me".
Mix(t) == \E c \in Colours : Apply(t, c, Custom)

ChooseScheme(t) ==
    /\ life[t] = "mounted"
    /\ \E s \in Scheme :
          /\ html' = [html EXCEPT ![t].scheme = s]
          /\ panel' = [panel EXCEPT ![t].scheme = s]
          /\ stored' \in SavedScheme(stored, s)
    /\ scene' = [scene EXCEPT ![t] = Told(@, html'[t])]
    /\ Disturbs
    /\ UNCHANGED <<clip, life, link>>

CopyLink(t) ==
    /\ life[t] = "mounted"
    /\ clip' = [code |-> Code(panel[t].palette, panel[t].presetId), sent |-> panel[t].palette]
    /\ UNCHANGED <<stored, life, link, html, panel, undisturbed, scene>>

(***************************************************************************)
(* The scene of the landing page.                                          *)
(***************************************************************************)
Staged(t, s) ==
    /\ scene' = [scene EXCEPT ![t] = s]
    /\ UNCHANGED <<stored, clip, life, link, html, panel, undisturbed>>

\* import("three") begins.
Import(t) ==
    /\ life[t] = "mounted" /\ scene[t].at = "none"
    /\ Staged(t, Importing)

Up(mark) == [at |-> "up", mark |-> mark]

\* The module is there: the mark is made and drawn, and the handlers are added in
\* the same turn.
Raised(t) ==
    /\ scene[t].at = "importing"
    /\ Staged(t, Up(html[t]))

\* The landing page is left: disposed, or torn down; or there is no WebGL.
Leave(t) == scene[t].at # "none" /\ Staged(t, NoScene)

Next ==
    \E t \in Tab :
        \/ Open(t) \/ Mount(t) \/ Close(t)
        \/ ChoosePreset(t) \/ Mix(t) \/ ChooseScheme(t) \/ CopyLink(t)
        \/ Import(t) \/ Raised(t) \/ Leave(t)

Spec == Init /\ [][Next]_vars

(***************************************************************************)
(* Properties.                                                             *)
(***************************************************************************)

\* In a page that has mounted, the panel says what <html> wears (the inline
\* script has "put the same values on <html>", colour-picker.tsx:94-97) if what
\* it booted on was well-formed and not replaced from another tab in between;
\* and the scene has it, whenever its import came.
InStep ==
    \A t \in Tab :
        life[t] = "mounted" =>
            /\ undisturbed[t] =>
                  /\ panel[t].palette = html[t].palette
                  /\ panel[t].scheme =
                        IF html[t].scheme = None THEN DefaultScheme ELSE html[t].scheme
            /\ scene[t].at = "up" => scene[t].mark = html[t]

\* A page opened on a link wears the palette of whoever copied it, however that
\* palette had come about there, and whatever is stored in this browser
\* (colour-picker.tsx:100).
LinkShowsSender ==
    [][\A t \in Tab :
          life[t] = "booted" /\ life'[t] = "mounted" /\ link[t].code # None
          => html'[t].palette = link[t].sent]_vars
=============================================================================
