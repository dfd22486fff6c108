--------------------------- MODULE PaletteProofs ---------------------------
(***************************************************************************)
(* Theorems about Palette, for every number of tabs, palettes, presets and *)
(* schemes.                                                                *)
(***************************************************************************)
EXTENDS Palette, TLAPS

Palettes == Colours \cup {None}
Schemes == Scheme \cup {None}
Storable == Raw \cup {None, Malformed}

\* What readPickerState returns, when it is not null.
Kept == [palette: Palettes, presetId: Ids, scheme: Schemes]

\* What apply() patches: Kept, but for an id that is missing.
Patchable == [palette: Palettes, presetId: Ids \cup {None}, scheme: Schemes]

Panels == [palette: Palettes, presetId: Ids, scheme: Scheme]

(***************************************************************************)
(* Storage.                                                                *)
(***************************************************************************)

\* A palette and a preset id that go together.
Agrees(palette, id) == id \in Preset => palette = PaletteOf(id)

AgreesRaw(raw) ==
    raw \in Raw /\ raw.palette # Malformed => Agrees(raw.palette, raw.presetId)

LEMMA PaletteOfType == \A p \in Preset : PaletteOf(p) \in Palettes
  BY PaletteAssumption DEF PaletteOf, Palettes

LEMMA NormalisedKept ==
    ASSUME NEW s \in Patchable
    PROVE  /\ Normalised(s) \in Kept
           /\ Normalised(s).palette = s.palette /\ Normalised(s).scheme = s.scheme
           /\ Agrees(s.palette, s.presetId) => AgreesRaw(Normalised(s))
  <1> DEFINE id == IF s.palette = None THEN Shipped ELSE IF s.presetId = None THEN Custom ELSE s.presetId
  <1>1. Normalised(s) = [palette |-> s.palette, presetId |-> id, scheme |-> s.scheme]
    BY DEF Normalised, State
  <1>2. s.palette \in Palettes /\ s.scheme \in Schemes /\ id \in Ids
    BY PaletteAssumption DEF Patchable, Ids
  <1>3. Agrees(s.palette, s.presetId) => Agrees(s.palette, id)
    BY PaletteAssumption DEF Agrees, PaletteOf
  <1> HIDE DEF id
  <1> QED  BY <1>1, <1>2, <1>3 DEF Kept, AgreesRaw

LEMMA KeptIsStorable == Kept \subseteq Patchable /\ Kept \subseteq Raw /\ None \notin Kept
  BY NoStateAssumption DEF Kept, Patchable, Raw, Palettes, Schemes

LEMMA ReadKept ==
    ASSUME NEW raw \in Storable
    PROVE  \/ Read(raw) = None /\ (raw = None \/ ~WellFormed(raw))
           \/ /\ Read(raw) \in Kept /\ Read(raw) # None /\ raw \in Raw /\ raw.palette # Malformed
              /\ Read(raw).palette = raw.palette /\ Read(raw).scheme = raw.scheme
              /\ AgreesRaw(raw) => AgreesRaw(Read(raw))
  <1>1. CASE raw \in Raw /\ raw.palette # Malformed
    <2>1. raw \in Patchable
      BY <1>1 DEF Raw, Patchable, Palettes, Schemes
    <2>2. Read(raw) = Normalised(raw)
      BY <1>1, NoStateAssumption DEF Read, WellFormed
    <2> QED  BY <1>1, <2>1, <2>2, NormalisedKept, KeptIsStorable DEF AgreesRaw
  <1>2. CASE ~(raw \in Raw /\ raw.palette # Malformed)
    BY <1>2, NoStateAssumption DEF Storable, Read, WellFormed
  <1> QED  BY <1>1, <1>2

LEMMA CleanedStorable ==
    ASSUME NEW raw \in Storable
    PROVE  Cleaned(raw) \in Storable /\ (AgreesRaw(raw) => AgreesRaw(Cleaned(raw)))
  BY NoStateAssumption DEF Cleaned, Storable, AgreesRaw

LEMMA BaseKept ==
    ASSUME NEW raw \in Storable
    PROVE  Base(raw) \in Kept /\ (AgreesRaw(raw) => AgreesRaw(Base(raw)))
  <1>1. DefaultState \in Kept /\ AgreesRaw(DefaultState)
    BY PaletteAssumption DEF DefaultState, State, Kept, Palettes, Schemes, Ids, AgreesRaw, Agrees, PaletteOf
  <1> QED  BY <1>1, ReadKept DEF Base

LEMMA SavedStorable ==
    ASSUME NEW raw \in Storable, NEW next \in Patchable, NEW s \in Saved(raw, next)
    PROVE  /\ s \in Storable
           /\ AgreesRaw(raw) /\ Agrees(next.palette, next.presetId) => AgreesRaw(s)
  BY CleanedStorable, NormalisedKept, KeptIsStorable DEF Saved, Storable

PatchPalette(s, p, id) == [s EXCEPT !.palette = p, !.presetId = id]

LEMMA PatchedPalette ==
    ASSUME NEW s \in Kept, NEW p \in Palettes, NEW id \in Ids
    PROVE  /\ PatchPalette(s, p, id) \in Patchable
           /\ PatchPalette(s, p, id).palette = p
           /\ PatchPalette(s, p, id).presetId = id
  <1>1. [s EXCEPT !.palette = p] = [palette |-> p, presetId |-> s.presetId, scheme |-> s.scheme]
    BY DEF Kept
  <1>2. [[palette |-> p, presetId |-> s.presetId, scheme |-> s.scheme] EXCEPT !.presetId = id]
         = [palette |-> p, presetId |-> id, scheme |-> s.scheme]
    OBVIOUS
  <1>3. PatchPalette(s, p, id) = [palette |-> p, presetId |-> id, scheme |-> s.scheme]
    BY <1>1, <1>2 DEF PatchPalette
  <1>4. s.scheme \in Schemes
    BY DEF Kept
  <1> QED  BY <1>3, <1>4 DEF Patchable

LEMMA PatchedScheme ==
    ASSUME NEW s \in Kept, NEW c \in Scheme
    PROVE  /\ [s EXCEPT !.scheme = c] \in Patchable
           /\ [s EXCEPT !.scheme = c].palette = s.palette
           /\ [s EXCEPT !.scheme = c].presetId = s.presetId
  BY DEF Kept, Schemes, Patchable

LEMMA SavedPaletteStorable ==
    ASSUME NEW raw \in Storable, NEW p \in Palettes, NEW id \in Ids, NEW s \in SavedPalette(raw, p, id)
    PROVE  s \in Storable /\ (AgreesRaw(raw) /\ Agrees(p, id) => AgreesRaw(s))
  <1>1. Base(raw) \in Kept
    BY BaseKept
  <1>2. /\ PatchPalette(Base(raw), p, id) \in Patchable
        /\ PatchPalette(Base(raw), p, id).palette = p
        /\ PatchPalette(Base(raw), p, id).presetId = id
    BY <1>1, PatchedPalette
  <1>3. s \in Saved(raw, PatchPalette(Base(raw), p, id))
    BY DEF SavedPalette, PatchPalette
  <1> QED  BY <1>2, <1>3, SavedStorable

LEMMA SavedSchemeStorable ==
    ASSUME NEW raw \in Storable, NEW c \in Scheme, NEW s \in SavedScheme(raw, c)
    PROVE  s \in Storable /\ (AgreesRaw(raw) => AgreesRaw(s))
  <1>1. Base(raw) \in Kept /\ (AgreesRaw(raw) => AgreesRaw(Base(raw)))
    BY BaseKept
  <1>2. [Base(raw) EXCEPT !.scheme = c] \in Patchable
        /\ [Base(raw) EXCEPT !.scheme = c].palette = Base(raw).palette
        /\ [Base(raw) EXCEPT !.scheme = c].presetId = Base(raw).presetId
    BY <1>1, PatchedScheme
  <1>3. Base(raw) \in Raw /\ Base(raw).palette # Malformed
    BY <1>1, KeptIsStorable, PaletteAssumption DEF Kept, Palettes
  <1> QED  BY <1>1, <1>2, <1>3, SavedStorable DEF SavedScheme, AgreesRaw

(***************************************************************************)
(* Links.                                                                  *)
(***************************************************************************)

\* A link of somebody's: it decodes, to what its sender wore.
Honest(l) ==
    l \in Link /\ (l.code # None => Decoded(l.code) # None /\ Decoded(l.code).palette = l.sent)

Choices == [palette: Palettes, presetId: Ids]

LEMMA DecodedTypes ==
    ASSUME NEW code \in Preset \cup Colours \cup {None}, Decoded(code) # None
    PROVE  /\ Decoded(code) \in Choices /\ code # None
           /\ Agrees(Decoded(code).palette, Decoded(code).presetId)
  BY PaletteOfType, PaletteAssumption DEF Decoded, Choices, Palettes, Ids, Agrees

LEMMA CodeHonest ==
    ASSUME NEW p \in Palettes, NEW id \in Ids, Agrees(p, id)
    PROVE  Honest([code |-> Code(p, id), sent |-> p])
  <1>1. Code(p, id) \in Preset \cup Colours \cup {None}
    BY DEF Code, Ids, Palettes
  <1>2. CASE id \in Preset
    <2>1. Decoded(id) = [palette |-> p, presetId |-> id]
      BY <1>2 DEF Decoded, Agrees
    <2>2. Decoded(id) # None
      BY <2>1, NoStateAssumption DEF Ids, Palettes
    <2> QED  BY <1>1, <1>2, <2>1, <2>2 DEF Honest, Link, Code, Palettes
  <1>3. CASE id \notin Preset /\ p \in Colours
    <2>1. Decoded(p) = [palette |-> p, presetId |-> Custom]
      BY <1>3, PaletteAssumption DEF Decoded
    <2>2. Decoded(p) # None
      BY <1>3, <2>1, NoStateAssumption DEF Ids
    <2> QED  BY <1>1, <1>3, <2>1, <2>2 DEF Honest, Link, Code, Palettes
  <1>4. CASE id \notin Preset /\ p = None
    BY <1>1, <1>4 DEF Honest, Link, Code, Palettes
  <1> QED  BY <1>2, <1>3, <1>4 DEF Palettes

(***************************************************************************)
(* The invariant, tab by tab.                                              *)
(***************************************************************************)
Typed ==
    /\ stored \in Storable
    /\ life \in [Tab -> {"closed", "booted", "mounted"}]
    /\ link \in [Tab -> Link]
    /\ html \in [Tab -> Worn]
    /\ panel \in [Tab -> Panels]
    /\ undisturbed \in [Tab -> BOOLEAN]
    /\ DOMAIN scene = Tab /\ scene = [t \in Tab |-> scene[t]]

\* Between boot and mount <html> shows what is stored, and the panel nothing yet.
Booted(t) == life[t] = "booted" =>
    /\ panel[t] = FreshPanel
    /\ undisturbed[t] => WellFormed(stored) /\ html[t] = Boot(stored)

Mounted(t) == life[t] = "mounted" /\ undisturbed[t] =>
    /\ panel[t].palette = html[t].palette
    /\ panel[t].scheme = IF html[t].scheme = None THEN DefaultScheme ELSE html[t].scheme

Lit(t) ==
    /\ scene[t] \in {NoScene, Importing} \cup [at: {"up"}, mark: Worn]
    /\ scene[t].at # "none" => life[t] = "mounted"
    /\ scene[t].at = "up" => scene[t].mark = html[t]

PaletteInv == Typed /\ \A t \in Tab : Booted(t) /\ Mounted(t) /\ Lit(t)

LEMMA WornFresh == Unpainted \in Worn /\ FreshPanel \in Panels
  BY PaletteAssumption DEF Unpainted, FreshPanel, Worn, Panels, Palettes, Ids

LEMMA BootWorn ==
    ASSUME NEW raw \in Storable
    PROVE  Boot(raw) \in Worn
  BY NoStateAssumption DEF Boot, Storable, Raw, Worn, Unpainted

LEMMA PaletteInit == Init => PaletteInv
  <1> SUFFICES ASSUME Init PROVE PaletteInv
    OBVIOUS
  <1>1. Typed
    BY WornFresh, PaletteAssumption DEF Init, Typed, Storable, NoLink, Link
  <1>2. ASSUME NEW t \in Tab PROVE Booted(t) /\ Mounted(t) /\ Lit(t)
    BY DEF Init, Booted, Mounted, Lit, NoScene
  <1> QED  BY <1>1, <1>2 DEF PaletteInv

\* Nothing that happens in one tab shows in the pages of the others; what it
\* stores disturbs those that have not mounted.
ElsewhereSame(t) == \A u \in Tab \ {t} :
    /\ life'[u] = life[u] /\ html'[u] = html[u] /\ panel'[u] = panel[u] /\ scene'[u] = scene[u]
    /\ undisturbed'[u] => undisturbed[u] /\ (life[u] = "booted" => stored' = stored)

LEMMA Elsewhere ==
    ASSUME PaletteInv, NEW t \in Tab, ElsewhereSame(t), NEW u \in Tab \ {t}
    PROVE  Booted(u)' /\ Mounted(u)' /\ Lit(u)'
  <1>1. Booted(u) /\ Mounted(u) /\ Lit(u)
    BY DEF PaletteInv
  <1>2. /\ life'[u] = life[u] /\ html'[u] = html[u] /\ panel'[u] = panel[u] /\ scene'[u] = scene[u]
        /\ undisturbed'[u] => undisturbed[u] /\ (life[u] = "booted" => stored' = stored)
    BY DEF ElsewhereSame
  <1>3. Booted(u)'
    BY <1>1, <1>2 DEF Booted
  <1>4. Mounted(u)'
    BY <1>1, <1>2 DEF Mounted
  <1>5. Lit(u)'
    BY <1>1, <1>2 DEF Lit
  <1> QED  BY <1>3, <1>4, <1>5

(***************************************************************************)
(* The panel's steps.                                                      *)
(***************************************************************************)
ChosenPanel(f, t, p, id) == [f EXCEPT ![t].palette = p, ![t].presetId = id]

LEMMA PanelChosen ==
    ASSUME NEW f \in [Tab -> Panels], NEW t \in Tab, NEW p \in Palettes, NEW id \in Ids
    PROVE  /\ ChosenPanel(f, t, p, id) \in [Tab -> Panels]
           /\ ChosenPanel(f, t, p, id)[t] = [palette |-> p, presetId |-> id, scheme |-> f[t].scheme]
           /\ \A u \in Tab \ {t} : ChosenPanel(f, t, p, id)[u] = f[u]
  <1> DEFINE q == [palette |-> p, presetId |-> f[t].presetId, scheme |-> f[t].scheme]
             r == [palette |-> p, presetId |-> id, scheme |-> f[t].scheme]
  <1>1. [f[t] EXCEPT !.palette = p] = q
    BY DEF Panels
  <1>2. [q EXCEPT !.presetId = id] = r
    OBVIOUS
  <1>3. [f EXCEPT ![t].palette = p] = [f EXCEPT ![t] = q]
    BY <1>1
  <1>4. [[f EXCEPT ![t] = q] EXCEPT ![t].presetId = id] = [f EXCEPT ![t] = r]
    <2>1. [f EXCEPT ![t] = q][t] = q
      OBVIOUS
    <2>2. [[f EXCEPT ![t] = q] EXCEPT ![t] = r] = [f EXCEPT ![t] = r]
      OBVIOUS
    <2> QED  BY <1>2, <2>1, <2>2
  <1>5. ChosenPanel(f, t, p, id) = [f EXCEPT ![t] = r]
    BY <1>3, <1>4 DEF ChosenPanel
  <1>6. r \in Panels
    BY DEF Panels
  <1> HIDE DEF r
  <1>7. [f EXCEPT ![t] = r] \in [Tab -> Panels] /\ [f EXCEPT ![t] = r][t] = r
        /\ \A u \in Tab \ {t} : [f EXCEPT ![t] = r][u] = f[u]
    BY <1>6
  <1> QED  BY <1>5, <1>7 DEF r

\* What a choice in the panel of a mounted page does.
Chooses(t) ==
    /\ life[t] = "mounted" /\ life' = life /\ link' = link /\ clip' = clip
    /\ html' \in [Tab -> Worn] /\ panel' \in [Tab -> Panels] /\ stored' \in Storable
    /\ undisturbed' \in [Tab -> BOOLEAN]
    /\ scene' = [scene EXCEPT ![t] = Told(@, html'[t])]
    /\ undisturbed'[t] => undisturbed[t]
    /\ Mounted(t)'
    /\ ElsewhereSame(t)

LEMMA ApplyChooses ==
    ASSUME PaletteInv, NEW t \in Tab, NEW p \in Palettes, NEW id \in Ids, Apply(t, p, id)
    PROVE  /\ Chooses(t)
           /\ panel'[t].palette = p /\ panel'[t].presetId = id /\ html'[t].palette = p
           /\ AgreesRaw(stored) /\ Agrees(p, id) => AgreesRaw(stored')
  <1>1. Typed /\ Mounted(t)
    BY DEF PaletteInv
  <1>2. /\ panel' = ChosenPanel(panel, t, p, id) /\ html' = [html EXCEPT ![t].palette = p]
        /\ scene' = [scene EXCEPT ![t] = Told(@, html'[t])]
        /\ stored' \in SavedPalette(stored, p, id) /\ life[t] = "mounted"
        /\ UNCHANGED <<clip, life, link>>
        /\ undisturbed' = [u \in Tab |-> undisturbed[u] /\ (life[u] = "booted" => stored' = stored)]
    BY DEF Apply, Wears, ChosenPanel, Disturbs
  <1>3. /\ panel' \in [Tab -> Panels]
        /\ panel'[t] = [palette |-> p, presetId |-> id, scheme |-> panel[t].scheme]
        /\ \A u \in Tab \ {t} : panel'[u] = panel[u]
    BY <1>1, <1>2, PanelChosen DEF Typed
  <1>4. /\ html' \in [Tab -> Worn]
        /\ html'[t].palette = p /\ html'[t].scheme = html[t].scheme
        /\ \A u \in Tab \ {t} : html'[u] = html[u]
    BY <1>1, <1>2 DEF Typed, Worn, Palettes
  <1>5. stored' \in Storable /\ (AgreesRaw(stored) /\ Agrees(p, id) => AgreesRaw(stored'))
    BY <1>1, <1>2, SavedPaletteStorable DEF Typed
  <1>6. /\ undisturbed' \in [Tab -> BOOLEAN]
        /\ undisturbed'[t] => undisturbed[t]
        /\ \A u \in Tab : undisturbed'[u] => undisturbed[u] /\ (life[u] = "booted" => stored' = stored)
    BY <1>1, <1>2 DEF Typed
  <1>7. \A u \in Tab \ {t} : scene'[u] = scene[u]
    BY <1>1, <1>2 DEF Typed
  <1>8. ElsewhereSame(t)
    BY <1>2, <1>3, <1>4, <1>6, <1>7 DEF ElsewhereSame
  <1>9. Mounted(t)'
    BY <1>1, <1>2, <1>3, <1>4, <1>6 DEF Mounted
  <1> QED  BY <1>2, <1>3, <1>4, <1>5, <1>6, <1>8, <1>9 DEF Chooses

LEMMA SchemeChooses ==
    ASSUME PaletteInv, NEW t \in Tab, ChooseScheme(t)
    PROVE  /\ Chooses(t)
           /\ panel'[t].palette = panel[t].palette /\ panel'[t].presetId = panel[t].presetId
           /\ AgreesRaw(stored) => AgreesRaw(stored')
  <1>1. Typed /\ Mounted(t)
    BY DEF PaletteInv
  <1>2. PICK s \in Scheme : /\ html' = [html EXCEPT ![t].scheme = s]
                            /\ panel' = [panel EXCEPT ![t].scheme = s]
                            /\ stored' \in SavedScheme(stored, s)
    BY DEF ChooseScheme
  <1>3. /\ scene' = [scene EXCEPT ![t] = Told(@, html'[t])]
        /\ life[t] = "mounted" /\ UNCHANGED <<clip, life, link>>
        /\ undisturbed' = [u \in Tab |-> undisturbed[u] /\ (life[u] = "booted" => stored' = stored)]
    BY DEF ChooseScheme, Disturbs
  <1>4. /\ panel' \in [Tab -> Panels] /\ panel'[t].scheme = s
        /\ panel'[t].palette = panel[t].palette /\ panel'[t].presetId = panel[t].presetId
        /\ \A u \in Tab \ {t} : panel'[u] = panel[u]
    BY <1>1, <1>2 DEF Typed, Panels
  <1>5. /\ html' \in [Tab -> Worn]
        /\ html'[t].palette = html[t].palette /\ html'[t].scheme = s
        /\ \A u \in Tab \ {t} : html'[u] = html[u]
    BY <1>1, <1>2 DEF Typed, Worn
  <1>6. stored' \in Storable /\ (AgreesRaw(stored) => AgreesRaw(stored'))
    BY <1>1, <1>2, SavedSchemeStorable DEF Typed
  <1>7. /\ undisturbed' \in [Tab -> BOOLEAN]
        /\ undisturbed'[t] => undisturbed[t]
        /\ \A u \in Tab : undisturbed'[u] => undisturbed[u] /\ (life[u] = "booted" => stored' = stored)
    BY <1>1, <1>3 DEF Typed
  <1>8. \A u \in Tab \ {t} : scene'[u] = scene[u]
    BY <1>1, <1>3 DEF Typed
  <1>9. ElsewhereSame(t)
    BY <1>3, <1>4, <1>5, <1>7, <1>8 DEF ElsewhereSame
  <1>10. Mounted(t)'
    BY <1>1, <1>3, <1>4, <1>5, <1>7, PaletteAssumption DEF Mounted
  <1> QED  BY <1>3, <1>4, <1>5, <1>6, <1>7, <1>9, <1>10 DEF Chooses

LEMMA ChoicePreserves ==
    ASSUME PaletteInv, NEW t \in Tab, Chooses(t)
    PROVE  PaletteInv'
  <1>1. Typed /\ Lit(t)
    BY DEF PaletteInv
  <1>2. scene' = [u \in Tab |-> scene'[u]] /\ scene'[t] = Told(scene[t], html'[t]) /\ DOMAIN scene' = Tab
    BY <1>1 DEF Chooses, Typed
  <1>3. Typed'
    BY <1>1, <1>2 DEF Chooses, Typed
  <1>4. Booted(t)' /\ Mounted(t)'
    BY DEF Chooses, Booted
  <1>5. Lit(t)'
    <2>1. html'[t] \in Worn /\ life'[t] = "mounted"
      BY DEF Chooses
    <2>2. CASE scene[t].at = "up"
      <3>1. scene[t] \in [at: {"up"}, mark: Worn]
        BY <1>1, <2>2 DEF Lit, NoScene, Importing
      <3>2. scene'[t] = [at |-> "up", mark |-> html'[t]]
        BY <1>2, <2>2, <3>1 DEF Told
      <3> QED  BY <2>1, <3>2 DEF Lit
    <2>3. CASE scene[t].at # "up"
      BY <1>1, <1>2, <2>1, <2>3 DEF Lit, Told
    <2> QED  BY <2>2, <2>3
  <1> QED  BY <1>3, <1>4, <1>5, Elsewhere DEF PaletteInv, Chooses

(***************************************************************************)
(* A page is opened, closed, or mounts.                                    *)
(***************************************************************************)
LEMMA OpenPreserves ==
    ASSUME PaletteInv, clip \in Link, NEW t \in Tab, Open(t)
    PROVE  PaletteInv'
  <1>1. Typed /\ Lit(t)
    BY DEF PaletteInv
  <1>2. /\ life[t] = "closed" /\ life' = [life EXCEPT ![t] = "booted"]
        /\ html' = [html EXCEPT ![t] = Boot(stored)] /\ panel' = [panel EXCEPT ![t] = FreshPanel]
        /\ undisturbed' = [undisturbed EXCEPT ![t] = WellFormed(stored)]
        /\ stored' = stored /\ scene' = scene
    BY DEF Open
  <1>3. link' \in [Tab -> Link]
    BY <1>1 DEF Open, Typed, NoLink, Link
  <1>4. Boot(stored) \in Worn /\ FreshPanel \in Panels /\ WellFormed(stored) \in BOOLEAN
    BY <1>1, BootWorn, WornFresh DEF Typed, WellFormed
  <1>5. Typed'
    BY <1>1, <1>2, <1>3, <1>4 DEF Typed
  <1>6. ElsewhereSame(t)
    BY <1>1, <1>2 DEF Typed, ElsewhereSame
  <1>7. Booted(t)' /\ Mounted(t)'
    BY <1>1, <1>2 DEF Typed, Booted, Mounted
  <1>8. Lit(t)'
    BY <1>1, <1>2 DEF Typed, Lit, NoScene
  <1> QED  BY <1>5, <1>6, <1>7, <1>8, Elsewhere DEF PaletteInv

LEMMA ClosePreserves ==
    ASSUME PaletteInv, NEW t \in Tab, Close(t)
    PROVE  PaletteInv'
  <1>1. Typed
    BY DEF PaletteInv
  <1>2. /\ life' = [life EXCEPT ![t] = "closed"] /\ link' = [link EXCEPT ![t] = NoLink]
        /\ html' = [html EXCEPT ![t] = Unpainted] /\ panel' = [panel EXCEPT ![t] = FreshPanel]
        /\ undisturbed' = [undisturbed EXCEPT ![t] = FALSE]
        /\ scene' = [scene EXCEPT ![t] = NoScene] /\ stored' = stored
    BY DEF Close
  <1>3. Typed'
    BY <1>1, <1>2, WornFresh DEF Typed, NoLink, Link
  <1>4. ElsewhereSame(t)
    BY <1>1, <1>2 DEF Typed, ElsewhereSame
  <1>5. Booted(t)' /\ Mounted(t)' /\ Lit(t)'
    BY <1>1, <1>2 DEF Typed, Booted, Mounted, Lit, NoScene
  <1> QED  BY <1>3, <1>4, <1>5, Elsewhere DEF PaletteInv

\* What the page decides when it mounts (colour-picker.tsx:92-118).
Shared(t) == Decoded(link[t].code)
Resumed == LET saved == Read(stored) IN
    IF saved # None /\ saved.palette # None
    THEN [palette |-> saved.palette, presetId |-> saved.presetId] ELSE None
Decides(t) == IF Shared(t) # None THEN Shared(t) ELSE Resumed
Schemed == Read(stored) # None /\ Read(stored).scheme # None

LEMMA MountDecides ==
    ASSUME Typed, NEW t \in Tab
    PROVE  /\ Decides(t) = None \/ Decides(t) \in Choices
           /\ Schemed => Read(stored).scheme \in Scheme
           /\ AgreesRaw(stored) /\ Decides(t) # None =>
                 Agrees(Decides(t).palette, Decides(t).presetId)
  <1>1. link[t].code \in Preset \cup Colours \cup {None}
    BY DEF Typed, Link
  <1>2. Shared(t) # None => Shared(t) \in Choices /\ Agrees(Shared(t).palette, Shared(t).presetId)
    BY <1>1, DecodedTypes DEF Shared
  <1>3. Read(stored) = None \/ (Read(stored) \in Kept /\ (AgreesRaw(stored) => AgreesRaw(Read(stored))))
    BY ReadKept DEF Typed
  <1>4. Resumed # None => Resumed \in Choices /\ (AgreesRaw(stored) => Agrees(Resumed.palette, Resumed.presetId))
    <2>1. CASE Resumed # None
      <3>1. /\ Read(stored) \in Kept /\ Resumed = [palette |-> Read(stored).palette, presetId |-> Read(stored).presetId]
            /\ AgreesRaw(stored) => AgreesRaw(Read(stored))
        BY <1>3, <2>1 DEF Resumed
      <3>2. Read(stored) \in Raw /\ Read(stored).palette # Malformed
        BY <3>1, KeptIsStorable, PaletteAssumption DEF Kept, Palettes
      <3> QED  BY <3>1, <3>2 DEF Kept, Choices, AgreesRaw
    <2> QED  BY <2>1
  <1>5. Schemed => Read(stored).scheme \in Scheme
    BY <1>3 DEF Schemed, Kept, Schemes
  <1> QED  BY <1>2, <1>4, <1>5 DEF Decides

MountStores(t) ==
    \E first \in IF Decides(t) = None THEN {Cleaned(stored)}
                 ELSE SavedPalette(Cleaned(stored), Decides(t).palette, Decides(t).presetId) :
       stored' \in IF Schemed THEN SavedScheme(first, Read(stored).scheme) ELSE {first}

LEMMA MountStorable ==
    ASSUME Typed, NEW t \in Tab, MountStores(t)
    PROVE  stored' \in Storable /\ (AgreesRaw(stored) => AgreesRaw(stored'))
  <1>1. PICK first \in IF Decides(t) = None THEN {Cleaned(stored)}
                       ELSE SavedPalette(Cleaned(stored), Decides(t).palette, Decides(t).presetId) :
          stored' \in IF Schemed THEN SavedScheme(first, Read(stored).scheme) ELSE {first}
    BY DEF MountStores
  <1>2. Cleaned(stored) \in Storable /\ (AgreesRaw(stored) => AgreesRaw(Cleaned(stored)))
    BY CleanedStorable DEF Typed
  <1>3. first \in Storable /\ (AgreesRaw(stored) => AgreesRaw(first))
    <2>1. CASE Decides(t) = None
      BY <1>1, <1>2, <2>1
    <2>2. CASE Decides(t) # None
      <3>1. /\ Decides(t).palette \in Palettes /\ Decides(t).presetId \in Ids
            /\ AgreesRaw(stored) => Agrees(Decides(t).palette, Decides(t).presetId)
        BY <2>2, MountDecides DEF Choices
      <3>2. first \in SavedPalette(Cleaned(stored), Decides(t).palette, Decides(t).presetId)
        BY <1>1, <2>2
      <3> QED  BY <1>2, <3>1, <3>2, SavedPaletteStorable
    <2> QED  BY <2>1, <2>2
  <1>4. CASE Schemed
    <2>1. Read(stored).scheme \in Scheme /\ stored' \in SavedScheme(first, Read(stored).scheme)
      BY <1>1, <1>4, MountDecides
    <2> QED  BY <1>3, <2>1, SavedSchemeStorable
  <1>5. CASE ~Schemed
    BY <1>1, <1>3, <1>5
  <1> QED  BY <1>4, <1>5

MountedHtml(t) ==
    [palette |-> IF Decides(t) = None THEN html[t].palette ELSE Decides(t).palette,
     scheme  |-> IF Schemed THEN Read(stored).scheme ELSE html[t].scheme]

MountedPanel(t) ==
    [palette  |-> IF Decides(t) = None THEN panel[t].palette ELSE Decides(t).palette,
     presetId |-> IF Decides(t) = None THEN panel[t].presetId ELSE Decides(t).presetId,
     scheme   |-> IF Schemed THEN Read(stored).scheme ELSE panel[t].scheme]

LEMMA MountMeans ==
    ASSUME Typed, NEW t \in Tab, Mount(t)
    PROVE  /\ life[t] = "booted" /\ life' = [life EXCEPT ![t] = "mounted"]
           /\ html' = [html EXCEPT ![t] = MountedHtml(t)]
           /\ panel' = [panel EXCEPT ![t] = MountedPanel(t)]
           /\ MountStores(t)
           /\ undisturbed' =
                 [u \in Tab |-> undisturbed[u] /\ (u # t /\ life[u] = "booted" => stored' = stored)]
           /\ link' = [link EXCEPT ![t] = NoLink]
           /\ clip' = clip /\ scene' = scene
  BY DEF Mount, MountedHtml, MountedPanel, MountStores, Decides, Shared, Resumed, Schemed, Typed

LEMMA MountPreserves ==
    ASSUME PaletteInv, NEW t \in Tab, Mount(t)
    PROVE  PaletteInv'
  <1>1. Typed /\ Lit(t) /\ Booted(t)
    BY DEF PaletteInv
  <1>2. /\ life[t] = "booted" /\ life' = [life EXCEPT ![t] = "mounted"]
        /\ html' = [html EXCEPT ![t] = MountedHtml(t)]
        /\ panel' = [panel EXCEPT ![t] = MountedPanel(t)]
        /\ MountStores(t)
        /\ undisturbed' =
              [u \in Tab |-> undisturbed[u] /\ (u # t /\ life[u] = "booted" => stored' = stored)]
        /\ link' = [link EXCEPT ![t] = NoLink] /\ scene' = scene
    BY <1>1, MountMeans
  <1>3. MountedHtml(t) \in Worn
    BY <1>1, MountDecides DEF MountedHtml, Typed, Worn, Choices, Palettes
  <1>4. MountedPanel(t) \in Panels
    BY <1>1, MountDecides DEF MountedPanel, Typed, Panels, Choices
  <1>5. Typed'
    <2>1. stored' \in Storable
      BY <1>1, <1>2, MountStorable
    <2>2. link' \in [Tab -> Link]
      BY <1>1, <1>2 DEF Typed, Link, NoLink
    <2> QED  BY <1>1, <1>2, <1>3, <1>4, <2>1, <2>2 DEF Typed
  <1>6. ElsewhereSame(t)
    BY <1>1, <1>2 DEF Typed, ElsewhereSame
  <1>7. Booted(t)' /\ Lit(t)'
    BY <1>1, <1>2 DEF Typed, Booted, Lit, NoScene
  <1>8. Mounted(t)'
    <2> SUFFICES ASSUME undisturbed[t]
                 PROVE  /\ panel'[t].palette = html'[t].palette
                        /\ panel'[t].scheme =
                              IF html'[t].scheme = None THEN DefaultScheme ELSE html'[t].scheme
      BY <1>1, <1>2 DEF Typed, Mounted
    <2>1. panel[t] = FreshPanel /\ WellFormed(stored) /\ html[t] = Boot(stored)
      BY <1>1, <1>2 DEF Booted
    <2>2. html'[t] = MountedHtml(t) /\ panel'[t] = MountedPanel(t)
      BY <1>1, <1>2 DEF Typed
    <2>3. panel[t].palette = None /\ panel[t].scheme = DefaultScheme
      BY <2>1 DEF FreshPanel
    <2>4. CASE stored = None
      <3>1. Read(stored) = None /\ html[t].palette = None /\ html[t].scheme = None
        BY <2>1, <2>4 DEF Read, Boot, Unpainted
      <3> QED  BY <2>2, <2>3, <3>1 DEF MountedHtml, MountedPanel, Schemed
    <2>5. CASE stored # None
      <3>1. /\ Read(stored) # None /\ Read(stored).palette = stored.palette
            /\ Read(stored).scheme = stored.scheme /\ stored \in Raw /\ stored.palette # Malformed
        BY <1>1, <2>1, <2>5, ReadKept DEF Typed
      <3>2. html[t].palette = stored.palette /\ html[t].scheme = stored.scheme
        BY <2>1, <3>1, NoStateAssumption DEF Boot
      <3>3. Decides(t) = None => stored.palette = None
        <4>1. SUFFICES ASSUME stored.palette # None PROVE Decides(t) # None
          OBVIOUS
        <4>2. Resumed = [palette |-> Read(stored).palette, presetId |-> Read(stored).presetId]
          BY <3>1, <4>1 DEF Resumed
        <4>3. Read(stored) \in Kept
          BY <1>1, <3>1, ReadKept DEF Typed
        <4>4. Resumed \in [palette: Colours \cup {None}, presetId: Ids]
          BY <4>2, <4>3 DEF Kept, Palettes
        <4> QED  BY <4>4, NoStateAssumption DEF Decides
      <3>4. Schemed => stored.scheme # None
        BY <3>1 DEF Schemed
      <3>5. ~Schemed => stored.scheme = None
        BY <3>1 DEF Schemed
      <3> QED  BY <2>2, <2>3, <3>1, <3>2, <3>3, <3>4, <3>5 DEF MountedHtml, MountedPanel
    <2> QED  BY <2>4, <2>5
  <1> QED  BY <1>5, <1>6, <1>7, <1>8, Elsewhere DEF PaletteInv

(***************************************************************************)
(* The scene, and all steps.                                               *)
(***************************************************************************)
LEMMA ScenePreserves ==
    ASSUME PaletteInv, NEW t \in Tab, Import(t) \/ Raised(t) \/ Leave(t)
    PROVE  PaletteInv'
  <1>1. Typed /\ Lit(t) /\ html[t] \in Worn
    BY DEF PaletteInv, Typed
  <1>2. PICK s : /\ scene' = [scene EXCEPT ![t] = s]
                 /\ UNCHANGED <<stored, life, link, html, panel, undisturbed>>
                 /\ s = NoScene \/ (s \in {Importing, Up(html[t])} /\ life[t] = "mounted")
    BY <1>1 DEF Import, Raised, Leave, Staged, Lit
  <1>3. Typed' /\ scene'[t] = s /\ \A u \in Tab \ {t} : scene'[u] = scene[u]
    BY <1>1, <1>2 DEF Typed
  <1>4. ASSUME NEW u \in Tab PROVE Booted(u)' /\ Mounted(u)'
    BY <1>2 DEF PaletteInv, Booted, Mounted
  <1>5. ASSUME NEW u \in Tab PROVE Lit(u)'
    BY <1>1, <1>2, <1>3 DEF PaletteInv, Lit, NoScene, Importing, Up
  <1> QED  BY <1>3, <1>4, <1>5 DEF PaletteInv

SomeStep(t) ==
    \/ Open(t) \/ Mount(t) \/ Close(t) \/ ChoosePreset(t) \/ Mix(t) \/ ChooseScheme(t)
    \/ CopyLink(t) \/ Import(t) \/ Raised(t) \/ Leave(t)

\* Both ways to a palette go through apply().
LEMMA ChoiceApplies ==
    ASSUME NEW t \in Tab, ChoosePreset(t) \/ Mix(t)
    PROVE  \E p \in Palettes, id \in Ids : Apply(t, p, id) /\ Agrees(p, id)
  <1>1. CASE ChoosePreset(t)
    BY <1>1, PaletteOfType DEF ChoosePreset, Agrees, Ids
  <1>2. CASE Mix(t)
    BY <1>2, PaletteAssumption DEF Mix, Agrees, Ids, Palettes
  <1> QED  BY <1>1, <1>2

\* Only CopyLink changes the clipboard, to a code.
LEMMA ClipStep == PaletteInv /\ clip \in Link /\ [Next]_vars => clip' \in Link
  <1> SUFFICES ASSUME PaletteInv, clip \in Link, [Next]_vars PROVE clip' \in Link
    OBVIOUS
  <1>1. ASSUME NEW t \in Tab, CopyLink(t) PROVE clip' \in Link
    <2>1. panel[t].palette \in Palettes /\ panel[t].presetId \in Ids
      BY DEF PaletteInv, Typed, Panels
    <2> QED  BY <1>1, <2>1 DEF CopyLink, Code, Ids, Palettes, Link
  <1>2. ASSUME NEW t \in Tab, SomeStep(t), ~CopyLink(t) PROVE clip' = clip
    BY <1>2 DEF SomeStep, Open, Mount, Close, ChoosePreset, Mix, Apply, ChooseScheme, Import, Raised,
       Leave, Staged
  <1> QED  BY <1>1, <1>2 DEF Next, SomeStep, vars

LEMMA PaletteStep == PaletteInv /\ clip \in Link /\ [Next]_vars => PaletteInv'
  <1> SUFFICES ASSUME PaletteInv, clip \in Link, [Next]_vars PROVE PaletteInv'
    OBVIOUS
  <1>1. ASSUME NEW t \in Tab, SomeStep(t) PROVE PaletteInv'
    <2>1. CASE ChoosePreset(t) \/ Mix(t)
      BY <2>1, ChoiceApplies, ApplyChooses, ChoicePreserves
    <2>2. CASE ChooseScheme(t)
      BY <2>2, SchemeChooses, ChoicePreserves
    <2>3. CASE CopyLink(t)
      BY <2>3 DEF CopyLink, PaletteInv, Typed, Booted, Mounted, Lit
    <2> QED  BY <1>1, <2>1, <2>2, <2>3, OpenPreserves, MountPreserves, ClosePreserves, ScenePreserves
             DEF SomeStep
  <1>2. CASE UNCHANGED vars
    BY <1>2 DEF vars, PaletteInv, Typed, Booted, Mounted, Lit
  <1> QED  BY <1>1, <1>2 DEF Next, SomeStep

(***************************************************************************)
(* Links tell the palette of their sender.                                 *)
(***************************************************************************)
AgreeInv ==
    /\ AgreesRaw(stored) /\ Honest(clip)
    /\ \A t \in Tab : Agrees(panel[t].palette, panel[t].presetId) /\ Honest(link[t])

LEMMA HonestNone == Honest(NoLink)
  BY DEF Honest, NoLink, Link

LEMMA AgreeInit == ~OldPresets /\ Init => AgreeInv
  <1> SUFFICES ASSUME ~OldPresets, Init PROVE AgreeInv
    OBVIOUS
  <1>1. AgreesRaw(stored)
    BY DEF Init, AgreesRaw, Agrees
  <1>2. Agrees(None, Shipped)
    BY DEF Agrees, PaletteOf
  <1> QED  BY <1>1, <1>2, HonestNone DEF Init, AgreeInv, FreshPanel

LEMMA AgreeStep == PaletteInv /\ AgreeInv /\ [Next]_vars => AgreeInv'
  <1> SUFFICES ASSUME PaletteInv, AgreeInv, [Next]_vars PROVE AgreeInv'
    OBVIOUS
  <1>1. Typed
    BY DEF PaletteInv
  <1>2. ASSUME NEW t \in Tab, SomeStep(t) PROVE AgreeInv'
    <2>0. Agrees(None, Shipped)
      BY DEF Agrees, PaletteOf
    <2>1. ASSUME ChoosePreset(t) \/ Mix(t) PROVE AgreeInv'
      <3>1. PICK p \in Palettes, id \in Ids : Apply(t, p, id) /\ Agrees(p, id)
        BY <2>1, ChoiceApplies
      <3>2. /\ Chooses(t) /\ panel'[t].palette = p /\ panel'[t].presetId = id
            /\ AgreesRaw(stored) /\ Agrees(p, id) => AgreesRaw(stored')
        BY <3>1, ApplyChooses
      <3>3. AgreesRaw(stored)'
        BY <3>1, <3>2 DEF AgreeInv, AgreesRaw
      <3> QED  BY <3>1, <3>2, <3>3 DEF AgreeInv, Chooses, ElsewhereSame
    <2>2. CASE ChooseScheme(t)
      <3>1. /\ Chooses(t) /\ panel'[t].palette = panel[t].palette /\ panel'[t].presetId = panel[t].presetId
            /\ AgreesRaw(stored) => AgreesRaw(stored')
        BY <2>2, SchemeChooses
      <3> QED  BY <3>1 DEF AgreeInv, Chooses, ElsewhereSame
    <2>3. CASE CopyLink(t)
      <3>1. Honest(clip')
        BY <1>1, <2>3, CodeHonest DEF CopyLink, AgreeInv, Typed, Panels
      <3> QED  BY <2>3, <3>1 DEF CopyLink, AgreeInv
    <2>4. CASE Open(t)
      BY <1>1, <2>0, <2>4, HonestNone DEF Open, AgreeInv, Typed, FreshPanel
    <2>5. CASE Close(t)
      BY <1>1, <2>0, <2>5, HonestNone DEF Close, AgreeInv, Typed, FreshPanel
    <2>6. CASE Mount(t)
      <3>1. /\ panel' = [panel EXCEPT ![t] = MountedPanel(t)]
            /\ link' = [link EXCEPT ![t] = NoLink] /\ clip' = clip /\ MountStores(t)
        BY <1>1, <2>6, MountMeans
      <3>2. AgreesRaw(stored')
        BY <1>1, <3>1, MountStorable DEF AgreeInv
      <3>3. Agrees(MountedPanel(t).palette, MountedPanel(t).presetId)
        BY <1>1, MountDecides DEF AgreeInv, MountedPanel
      <3> QED  BY <1>1, <3>1, <3>2, <3>3, HonestNone DEF AgreeInv, Typed
    <2>7. CASE Import(t) \/ Raised(t) \/ Leave(t)
      BY <2>7 DEF Import, Raised, Leave, Staged, AgreeInv
    <2> QED  BY <1>2, <2>1, <2>2, <2>3, <2>4, <2>5, <2>6, <2>7 DEF SomeStep
  <1>3. CASE UNCHANGED vars
    BY <1>3 DEF vars, AgreeInv
  <1> QED  BY <1>2, <1>3 DEF Next, SomeStep

LEMMA PaletteInvariant == Spec => []PaletteInv
  <1> DEFINE Inv == PaletteInv /\ clip \in Link
  <1>1. Init => Inv
    BY PaletteInit DEF Init, NoLink, Link
  <1>2. Inv /\ [Next]_vars => Inv'
    BY PaletteStep, ClipStep
  <1>3. Inv => PaletteInv
    OBVIOUS
  <1> HIDE DEF Inv
  <1> QED  BY <1>1, <1>2, <1>3, PTL DEF Spec

LEMMA AgreeInvariant == ASSUME ~OldPresets PROVE Spec => []AgreeInv
  BY PaletteInvariant, AgreeInit, AgreeStep, PTL DEF Spec

\* In a page that has mounted the panel tells what <html> wears, also where the
\* inline script and the picker each read the storage for themselves
\* (palette-boot.tsx, colour-picker.tsx:92-118), and the scene has been told of it
\* whenever its import came (loop-scene.tsx).
THEOREM PanelInStep == Spec => []InStep
  <1>1. PaletteInv => InStep
    BY DEF PaletteInv, Mounted, Lit, InStep
  <1> QED  BY <1>1, PaletteInvariant, PTL

\* Whoever opens a link wears what its sender wore (colour-picker.tsx:100): the
\* panel, the storage and the link keep a preset's id and its colours together.
THEOREM LinksShowTheirSender ==
    ASSUME ~OldPresets PROVE Spec => LinkShowsSender
  <1> DEFINE Shows(t) == life[t] = "booted" /\ life'[t] = "mounted" /\ link[t].code # None
                         => html'[t].palette = link[t].sent
  <1>1. PaletteInv /\ AgreeInv /\ [Next]_vars => [\A t \in Tab : Shows(t)]_vars
    <2> SUFFICES ASSUME PaletteInv, AgreeInv, Next, NEW t \in Tab,
                        life[t] = "booted", life'[t] = "mounted", link[t].code # None
                 PROVE  html'[t].palette = link[t].sent
      OBVIOUS
    <2>1. Typed /\ Honest(link[t])
      BY DEF PaletteInv, AgreeInv
    <2>2. Mount(t)
      <3>1. PICK u \in Tab : SomeStep(u)
        BY DEF Next, SomeStep
      <3>2. life' # life
        OBVIOUS
      <3>3. Open(u) \/ Mount(u) \/ Close(u)
        BY <3>1, <3>2 DEF SomeStep, ChoosePreset, Mix, Apply, ChooseScheme, CopyLink, Import, Raised,
           Leave, Staged
      <3> QED  BY <2>1, <3>3 DEF Typed, Open, Mount, Close
    <2>3. html'[t].palette = Decides(t).palette /\ Decides(t) = Decoded(link[t].code)
      BY <2>1, <2>2, MountMeans DEF MountedHtml, Decides, Shared, Honest, Typed
    <2> QED  BY <2>1, <2>3 DEF Honest
  <1> QED  BY <1>1, PaletteInvariant, AgreeInvariant, PTL DEF Spec, LinkShowsSender
=============================================================================
