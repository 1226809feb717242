--------------------------- MODULE NametableProofs --------------------------
(***************************************************************************)
(* Proofs about the nametable pipeline: no invalidation is missed, and the *)
(* incremental renderer shows exact snapshots, for every set of pages,     *)
(* quadrants, rows and contents.                                           *)
(***************************************************************************)
EXTENDS NametableCache, NametableDma, FiniteSetTheorems, TLAPS

\* What a shadow row was last meant to hold: the routes of the last render.
OldRoute(s) == IF s = Hud THEN oldtop ELSE oldmirror[s]
OldImage(s, r) ==
    IF OldRoute(s) = Fill THEN <<fctile, fccolor>>
    ELSE <<tile[OldRoute(s)][r], attr[OldRoute(s)][Group(r)]>>
Marked(s, r) == OldRoute(s) # Fill /\ dirty[OldRoute(s)][r]

\* The first render converts everything: OLDTOP is no route, and OLDMIRROR
\* equals $5105 only when every quadrant is filled.
FirstInv == ~fcvalid => oldtop = None /\ oldmirror = [q \in Quads |-> Fill]

MarksInv == \A p \in Pages, r \in Rows : dirty[p][r] => dirtyany

\* A shadow row is what it was meant to be, or its page row is marked.
ShadowInv ==
    fcvalid =>
        /\ oldtop # None
        /\ \A s \in Surfaces, r \in Rows : Marked(s, r) \/ shadow[s][r] = OldImage(s, r)

\* A VRAM row is the shadow row, or it is flagged for upload.
VramInv ==
    /\ \A s \in Surfaces, r \in Rows : upload[s][r] => uploadany
    /\ fcvalid => \A s \in Surfaces, r \in Rows : upload[s][r] \/ vram[s][r] = shadow[s][r]

PhaseInv == ready <=> phase = "main" /\ fcvalid

CInv == TypeOK /\ FirstInv /\ MarksInv /\ ShadowInv /\ VramInv /\ PhaseInv

-----------------------------------------------------------------------------
\* Every route a surface can have is a route.
LEMMA RouteType ==
    ASSUME TypeOK, NEW s \in Surfaces
    PROVE  RouteOf(s) \in Routes
  BY NamesAssumption DEF TypeOK, RouteOf, TopRoute, Surfaces

\* Clearing marks keeps their type.
LEMMA UnmarkedType == \A X : Unmarked(X) \in MarkType(X)
  BY DEF Unmarked, MarkType

\* A converted row is an image.
LEMMA ImageType ==
    ASSUME TypeOK, NEW s \in Surfaces, NEW r \in Rows
    PROVE  ImageOf(s, r) \in Images
  <1>1. RouteOf(s) \in Pages \cup {Fill}
    BY RouteType DEF Routes
  <1>2. Group(r) \in Groups
    BY DEF Groups
  <1>3. QED BY <1>1, <1>2 DEF TypeOK, ImageOf, Images

\* Storing to a page row keeps every other row, marks what it changes, and
\* forgets no mark.
LEMMA StoreFacts ==
    ASSUME CInv, NEW p \in Pages,
           \/ \E r \in Rows, v \in Tiles : StoreTile(p, r, v)
           \/ \E g \in Groups, v \in Colors : StoreAttr(p, g, v)
    PROVE  /\ tile' \in [Pages -> [Rows -> Tiles]] /\ attr' \in [Pages -> [Groups -> Colors]]
           /\ dirty' \in MarkType(Pages) /\ dirtyany' = TRUE
           /\ \A o \in Pages, r \in Rows :
                 /\ dirty[o][r] => dirty'[o][r]
                 /\ dirty'[o][r] \/ (tile'[o][r] = tile[o][r]
                                     /\ attr'[o][Group(r)] = attr[o][Group(r)])
  <1>1. CASE \E r \in Rows, v \in Tiles : StoreTile(p, r, v)
    <2>1. PICK r \in Rows, v \in Tiles : StoreTile(p, r, v)
      BY <1>1
    <2>2. QED BY <2>1 DEF StoreTile, MarkPhysicalRow, CInv, TypeOK, MarkType
  <1>2. CASE \E g \in Groups, v \in Colors : StoreAttr(p, g, v)
    <2>1. PICK g \in Groups, v \in Colors : StoreAttr(p, g, v)
      BY <1>2
    <2>2. attr' \in [Pages -> [Groups -> Colors]] /\ tile' \in [Pages -> [Rows -> Tiles]]
      BY <2>1 DEF StoreAttr, CInv, TypeOK
    <2>3. dirty' \in MarkType(Pages) /\ dirtyany' = TRUE
      BY <2>1 DEF StoreAttr, MarkPhysicalRow, CInv, TypeOK, MarkType
    <2>4. \A o \in Pages, r \in Rows : dirty[o][r] => dirty'[o][r]
      BY <2>1 DEF StoreAttr, MarkPhysicalRow, CInv, TypeOK, MarkType
    <2>5. ASSUME NEW o \in Pages, NEW r \in Rows
          PROVE  dirty'[o][r] \/ attr'[o][Group(r)] = attr[o][Group(r)]
      <3>1. CASE o = p /\ Group(r) = g
        BY <2>1, <3>1 DEF StoreAttr, MarkPhysicalRow, CInv, TypeOK, MarkType
      <3>2. CASE ~(o = p /\ Group(r) = g)
        <4>1. Group(r) \in Groups
          BY DEF Groups
        <4>2. QED BY <2>1, <3>2, <4>1 DEF StoreAttr, CInv, TypeOK
      <3>3. QED BY <3>1, <3>2
    <2>6. QED BY <2>1, <2>2, <2>3, <2>4, <2>5 DEF StoreAttr
  <1>3. QED BY <1>1, <1>2

\* Storing a tile or an attribute keeps the invariant: a changed byte marks its rows.
LEMMA StoreStep ==
    ASSUME CInv, NEW p \in Pages,
           \/ \E r \in Rows, v \in Tiles : StoreTile(p, r, v)
           \/ \E g \in Groups, v \in Colors : StoreAttr(p, g, v),
           UNCHANGED <<route, filltile, fillcolor, top, olds, output, screen, phase>>
    PROVE  CInv'
  <1>1. /\ tile' \in [Pages -> [Rows -> Tiles]] /\ attr' \in [Pages -> [Groups -> Colors]]
        /\ dirty' \in MarkType(Pages) /\ dirtyany' = TRUE
        /\ \A o \in Pages, r \in Rows :
              /\ dirty[o][r] => dirty'[o][r]
              /\ dirty'[o][r] \/ (tile'[o][r] = tile[o][r]
                                  /\ attr'[o][Group(r)] = attr[o][Group(r)])
    BY StoreFacts
  <1>2. TypeOK'
    BY <1>1 DEF CInv, TypeOK, top, olds, output, screen
  <1>3. FirstInv' /\ MarksInv' /\ PhaseInv' /\ VramInv'
    BY <1>1 DEF CInv, FirstInv, MarksInv, PhaseInv, VramInv, olds, output, screen
  <1>4. ShadowInv'
    <2>9. oldtop' # None \/ ~fcvalid'
      BY DEF CInv, ShadowInv, olds
    <2> SUFFICES ASSUME fcvalid', NEW s \in Surfaces, NEW r \in Rows
                 PROVE  Marked(s, r)' \/ shadow'[s][r] = OldImage(s, r)'
      BY <2>9 DEF ShadowInv
    <2>1. OldRoute(s) \in Routes /\ OldRoute(s)' = OldRoute(s)
      BY NamesAssumption DEF CInv, ShadowInv, TypeOK, OldRoute, Surfaces, olds
    <2>2. Marked(s, r) \/ shadow[s][r] = OldImage(s, r)
      BY DEF CInv, ShadowInv, olds
    <2>3. CASE OldRoute(s) = Fill
      BY <2>1, <2>2, <2>3 DEF Marked, OldImage, olds, output, CInv, ShadowInv
    <2>4. CASE OldRoute(s) \in Pages
      <3>1. OldRoute(s) # Fill
        BY <2>4, NamesAssumption
      <3>2. shadow' = shadow
        BY DEF output
      <3>3. CASE Marked(s, r)
        BY <1>1, <2>1, <2>4, <3>3 DEF Marked
      <3>4. CASE ~dirty'[OldRoute(s)][r] /\ shadow[s][r] = OldImage(s, r)
        BY <1>1, <2>1, <2>4, <3>1, <3>2, <3>4 DEF OldImage
      <3>5. CASE dirty'[OldRoute(s)][r]
        BY <2>1, <3>1, <3>5 DEF Marked
      <3>6. QED BY <2>2, <3>3, <3>4, <3>5
    <2>5. QED BY <2>1, <2>3, <2>4 DEF Routes
  <1>5. QED BY <1>2, <1>3, <1>4 DEF CInv

\* A step that leaves pages, marks, old routes and outputs alone.
LEMMA QuietStep ==
    ASSUME CInv, TypeOK', UNCHANGED <<tile, attr, marks, olds, output, screen, phase>>
    PROVE  CInv'
  <1>1. FirstInv' /\ MarksInv' /\ PhaseInv' /\ VramInv'
    BY DEF CInv, FirstInv, MarksInv, PhaseInv, VramInv, olds, output, screen, marks
  <1>2. ShadowInv'
    BY DEF CInv, ShadowInv, Marked, OldRoute, OldImage, olds, output, marks
  <1>3. QED BY <1>1, <1>2 DEF CInv

\* Presenting copies exactly the rows that differ.
LEMMA PresentStep ==
    ASSUME CInv, PresentPendingFrame
    PROVE  CInv' /\ (ready => vram' = shadow) /\ (~ready => vram' = vram)
  <1>1. TypeOK'
    <2>1. vram' \in MapType /\ upload' \in MarkType(Surfaces) /\ uploadany' \in BOOLEAN
      <3>1. CASE ready /\ uploadany
        <4>1. \A s \in Surfaces, r \in Rows :
                 shadow[s][r] \in Images /\ vram[s][r] \in Images
          BY DEF CInv, TypeOK, MapType
        <4>2. vram' = [s \in Surfaces |-> [r \in Rows |->
                          IF upload[s][r] THEN shadow[s][r] ELSE vram[s][r]]]
          BY <3>1 DEF PresentPendingFrame
        <4>3. vram' \in MapType
          BY <4>1, <4>2 DEF MapType
        <4>4. upload' \in MarkType(Surfaces)
          BY <3>1, UnmarkedType DEF PresentPendingFrame
        <4>5. uploadany' = FALSE
          BY <3>1 DEF PresentPendingFrame
        <4>6. QED BY <4>3, <4>4, <4>5
      <3>2. CASE ~(ready /\ uploadany)
        BY <3>2 DEF CInv, TypeOK, PresentPendingFrame
      <3>3. QED BY <3>1, <3>2
    <2>2. QED BY <2>1 DEF CInv, TypeOK, PresentPendingFrame, nes, top, marks, olds
  <1>2. FirstInv' /\ MarksInv' /\ ShadowInv'
    BY DEF CInv, FirstInv, MarksInv, ShadowInv, PresentPendingFrame, Marked, OldRoute,
       OldImage, nes, marks, olds
  <1>3. PhaseInv'
    BY DEF CInv, PhaseInv, PresentPendingFrame, TypeOK, olds
  <1>4. VramInv'
    <2>1. CASE ready /\ uploadany
      BY <2>1 DEF CInv, VramInv, PresentPendingFrame, TypeOK, MapType, MarkType, Unmarked, olds
    <2>2. CASE ~(ready /\ uploadany)
      BY <2>2 DEF CInv, VramInv, PresentPendingFrame, olds
    <2>3. QED BY <2>1, <2>2
  <1>5. ready => vram' = shadow
    <2> SUFFICES ASSUME ready PROVE vram' = shadow
      OBVIOUS
    <2>1. fcvalid
      BY DEF CInv, PhaseInv
    <2>2. \A s \in Surfaces, r \in Rows : vram'[s][r] = shadow[s][r]
      BY <2>1 DEF CInv, VramInv, PresentPendingFrame
    <2>3. vram' \in MapType /\ shadow \in MapType
      BY <1>1 DEF CInv, TypeOK
    <2>4. ASSUME NEW s \in Surfaces PROVE vram'[s] = shadow[s]
      BY <2>2, <2>3 DEF MapType
    <2>5. QED BY <2>3, <2>4 DEF MapType
  <1>6. ~ready => vram' = vram
    BY DEF PresentPendingFrame
  <1>7. QED BY <1>1, <1>2, <1>3, <1>4, <1>5, <1>6 DEF CInv

\* A row the render skips already holds its image.
LEMMA SkippedIsRight ==
    ASSUME CInv, NEW s \in Surfaces, NEW r \in Rows, ~Converts(s, r)
    PROVE  fcvalid /\ shadow[s][r] = ImageOf(s, r)
  <1>1. fcvalid
    <2> SUFFICES ASSUME ~fcvalid PROVE FALSE
      OBVIOUS
    <2>1. oldtop = None /\ oldmirror = [q \in Quads |-> Fill] /\ FillChanged
      BY DEF CInv, FirstInv, FillChanged
    <2>2. CASE s = Hud
      BY <2>1, <2>2, RouteType, NamesAssumption DEF CInv, Converts, Forced, RouteOf, Routes
    <2>3. CASE s \in Quads
      BY <2>1, <2>3, NamesAssumption DEF Converts, Forced, RouteOf
    <2>4. QED BY <2>2, <2>3 DEF Surfaces
  <1>2. OldRoute(s) = RouteOf(s)
    BY NamesAssumption DEF Converts, Forced, OldRoute, RouteOf, Surfaces
  <1>3. RouteOf(s) \in Routes
    BY RouteType DEF CInv
  <1>4. ~Marked(s, r)
    BY <1>2, <1>3 DEF Converts, Marked, CInv, MarksInv, Routes
  <1>5. OldImage(s, r) = ImageOf(s, r)
    BY <1>1, <1>2 DEF Converts, OldImage, ImageOf, FillChanged
  <1>6. QED BY <1>1, <1>4, <1>5 DEF CInv, ShadowInv

\* Rendering leaves the shadow map equal to the live picture.
LEMMA RenderStep ==
    ASSUME CInv, RenderFrame
    PROVE  CInv' /\ shadow' = LivePicture
  <1>1. \A s \in Surfaces, r \in Rows : shadow'[s][r] = ImageOf(s, r)
    BY SkippedIsRight DEF RenderFrame
  <1>2. \A s \in Surfaces, r \in Rows : ImageOf(s, r) \in Images
    BY ImageType DEF CInv
  <1>3. shadow' = LivePicture
    <2>1. shadow' = [s \in Surfaces |-> [r \in Rows |->
                     IF Converts(s, r) THEN ImageOf(s, r) ELSE shadow[s][r]]]
      BY DEF RenderFrame
    <2>2. QED BY <2>1, SkippedIsRight DEF LivePicture
  <1>4. shadow' \in MapType
    BY <1>2, <1>3 DEF LivePicture, MapType
  <1>5. upload' \in MarkType(Surfaces) /\ uploadany' \in BOOLEAN
    <2>1. \A s \in Surfaces, r \in Rows : (upload[s][r] \/ Converts(s, r)) \in BOOLEAN
      BY DEF CInv, TypeOK, MarkType
    <2>2. QED BY <2>1, Zenon DEF RenderFrame, MarkType
  <1>6. TopRoute \in Routes
    BY NamesAssumption DEF CInv, TypeOK, TopRoute
  <1>7. TypeOK'
    BY <1>4, <1>5, <1>6 DEF CInv, TypeOK, RenderFrame, MarkType, Unmarked, nes, top
  <1>8. FirstInv' /\ MarksInv' /\ PhaseInv'
    BY DEF RenderFrame, FirstInv, MarksInv, PhaseInv, Unmarked
  <1>9. ShadowInv'
    <2>1. oldtop' # None
      BY <1>6, NamesAssumption DEF RenderFrame
    <2>2. ASSUME NEW s \in Surfaces, NEW r \in Rows
          PROVE  shadow'[s][r] = OldImage(s, r)'
      <3>1. OldRoute(s)' = RouteOf(s)
        BY NamesAssumption DEF RenderFrame, OldRoute, RouteOf, Surfaces
      <3>2. OldImage(s, r)' = ImageOf(s, r)
        BY <3>1 DEF RenderFrame, OldImage, ImageOf, nes
      <3>3. QED BY <1>1, <3>2
    <2>3. QED BY <2>1, <2>2 DEF ShadowInv
  <1>10. VramInv'
    <2>1. ASSUME NEW s \in Surfaces, NEW r \in Rows
          PROVE  /\ upload'[s][r] => uploadany'
                 /\ upload'[s][r] \/ vram'[s][r] = shadow'[s][r]
      <3>1. upload'[s][r] = (upload[s][r] \/ Converts(s, r))
        BY DEF RenderFrame
      <3>2. upload'[s][r] => uploadany'
        BY <3>1 DEF RenderFrame, CInv, VramInv
      <3>3. CASE Converts(s, r)
        BY <3>1, <3>2, <3>3
      <3>4. CASE ~Converts(s, r)
        <4>1. fcvalid /\ shadow'[s][r] = shadow[s][r]
          BY <3>4, <1>1, SkippedIsRight
        <4>2. QED BY <3>1, <3>2, <3>4, <4>1 DEF CInv, VramInv, RenderFrame
      <3>5. QED BY <3>3, <3>4
    <2>2. QED BY <2>1 DEF VramInv
  <1>11. QED BY <1>3, <1>7, <1>8, <1>9, <1>10 DEF CInv

-----------------------------------------------------------------------------
\* The pipeline's invariant holds in every reachable state.
THEOREM CacheInvariant == Spec => []CInv
  <1>1. Init => CInv
    <2> SUFFICES ASSUME Init PROVE CInv
      OBVIOUS
    <2>1. TypeOK
      <3>1. shadow \in MapType /\ vram \in MapType
        BY NamesAssumption DEF Init, MapType, Images
      <3>2. dirty \in MarkType(Pages) /\ upload \in MarkType(Surfaces)
        BY DEF Init, Unmarked, MarkType
      <3>3. route \in [Quads -> Routes] /\ oldmirror \in [Quads -> Routes]
        BY DEF Init, Routes
      <3>4. tile \in [Pages -> [Rows -> Tiles]] /\ attr \in [Pages -> [Groups -> Colors]]
        BY NamesAssumption DEF Init
      <3>5. QED BY <3>1, <3>2, <3>3, <3>4, NamesAssumption DEF Init, TypeOK
    <2>2. FirstInv /\ MarksInv /\ ShadowInv /\ VramInv /\ PhaseInv
      BY DEF Init, FirstInv, MarksInv, ShadowInv, VramInv, PhaseInv, Unmarked
    <2>3. QED BY <2>1, <2>2 DEF CInv
  <1>2. CInv /\ [Next]_vars => CInv'
    <2> SUFFICES ASSUME CInv, [Next]_vars PROVE CInv'
      OBVIOUS
    <2>1. CASE WritePpuData
      <3>1. PICK q \in Quads :
               /\ route[q] # Fill
               /\ \/ \E r \in Rows, v \in Tiles : StoreTile(route[q], r, v)
                  \/ \E g \in Groups, v \in Colors : StoreAttr(route[q], g, v)
        BY <2>1 DEF WritePpuData
      <3>2. route[q] \in Pages
        BY <3>1 DEF CInv, TypeOK, Routes
      <3>3. QED BY <2>1, <3>1, <3>2, StoreStep DEF WritePpuData
    <2>2. CASE WriteExRam
      BY <2>2, StoreStep, NamesAssumption DEF WriteExRam
    <2>3. CASE WriteMirror
      <3>1. TypeOK'
        BY <2>3 DEF WriteMirror, CInv, TypeOK, top, marks, olds, output, screen
      <3>2. QED BY <2>3, <3>1, QuietStep DEF WriteMirror
    <2>4. CASE WriteFill
      <3>1. TypeOK'
        BY <2>4 DEF WriteFill, CInv, TypeOK, top, marks, olds, output, screen
      <3>2. QED BY <2>4, <3>1, QuietStep DEF WriteFill
    <2>5. CASE PresentPendingFrame
      BY <2>5, PresentStep
    <2>6. CASE CaptureTop
      <3>1. TypeOK'
        BY <2>6 DEF CaptureTop, CInv, TypeOK, nes, marks, olds, output, screen
      <3>2. FirstInv' /\ MarksInv' /\ VramInv' /\ ShadowInv'
        BY <2>6 DEF CaptureTop, CInv, FirstInv, MarksInv, VramInv, ShadowInv, Marked,
           OldRoute, OldImage, nes, marks, olds, output, screen
      <3>3. PhaseInv'
        BY <2>6 DEF CaptureTop, CInv, PhaseInv, screen, olds
      <3>4. QED BY <3>1, <3>2, <3>3 DEF CInv
    <2>7. CASE RenderFrame
      BY <2>7, RenderStep
    <2>8. CASE UNCHANGED vars
      <3>1. TypeOK'
        BY <2>8 DEF CInv, TypeOK, vars, nes, top, marks, olds, output, screen
      <3>2. QED BY <2>8, <3>1, QuietStep DEF vars, nes
    <2>9. QED BY <2>1, <2>2, <2>3, <2>4, <2>5, <2>6, <2>7, <2>8 DEF Next
  <1>3. QED BY <1>1, <1>2, PTL DEF Spec

\* No variable of the pipeline leaves its type.
THEOREM PipelineTypes == Spec => []TypeOK
  <1>1. CInv => TypeOK
    BY DEF CInv
  <1>2. QED BY <1>1, CacheInvariant, PTL

\* Whatever is rerouted, refilled or written, no row that would be skipped is
\* stale.
THEOREM NoInvalidationMissed == Spec => []NothingMissed
  <1>1. CInv => NothingMissed
    BY SkippedIsRight DEF CInv, NothingMissed, VramInv
  <1>2. QED BY <1>1, CacheInvariant, PTL

\* The cached renderer implements the snapshot renderer.
THEOREM SnapshotsShown == Spec => ShowsSnapshots
  <1>1. Init => Frames!Init
    BY DEF Init, Frames!Init
  <1>2. CInv /\ CInv' /\ [Next]_vars => [Frames!Next]_<<LivePicture, shadow, ready, vram>>
    <2> SUFFICES ASSUME CInv, [Next]_vars
                 PROVE  Frames!Next
      OBVIOUS
    <2>1. CASE WritePpuData \/ WriteExRam \/ WriteMirror \/ WriteFill \/ CaptureTop
      <3>1. UNCHANGED <<shadow, ready, vram>>
        BY <2>1 DEF WritePpuData, WriteExRam, WriteMirror, WriteFill, CaptureTop, output, screen
      <3>2. QED BY <3>1 DEF Frames!Next, Frames!Change
    <2>2. CASE PresentPendingFrame
      <3>1. LivePicture' = LivePicture
        BY <2>2 DEF PresentPendingFrame, nes, top, LivePicture, ImageOf, RouteOf, TopRoute
      <3>2. CASE ready
        BY <2>2, <3>1, <3>2, PresentStep DEF PresentPendingFrame, Frames!Next, Frames!Present
      <3>3. CASE ~ready
        BY <2>2, <3>3, PresentStep DEF PresentPendingFrame, Frames!Next, Frames!Change, CInv, TypeOK
      <3>4. QED BY <3>2, <3>3
    <2>3. CASE RenderFrame
      <3>1. LivePicture' = LivePicture
        BY <2>3 DEF RenderFrame, nes, top, LivePicture, ImageOf, RouteOf, TopRoute
      <3>2. ~ready
        BY <2>3 DEF RenderFrame, CInv, PhaseInv
      <3>3. QED BY <2>3, <3>1, <3>2, RenderStep DEF RenderFrame, Frames!Next, Frames!Render
    <2>4. CASE UNCHANGED vars
      BY <2>4 DEF vars, output, screen, Frames!Next, Frames!Change
    <2>5. QED BY <2>1, <2>2, <2>3, <2>4 DEF Next
  <1>3. QED
    BY <1>1, <1>2, CacheInvariant, PTL DEF Spec, ShowsSnapshots, Frames!Spec, Frames!fvars

-----------------------------------------------------------------------------
\* The coalesced upload is exact, for maps of any size.

\* Rows before Lo are settled; rows from Lo to Hi are the run being collected.
Lo == Dest(part) + (IF step \in {"run", "send"} THEN y ELSE x)
Hi == Dest(part) + x
Settled(d) == loaded[d] = (IF wanted[d] THEN ShadowOf(d) ELSE Old)

RegistersInv ==
    /\ step = "entry" => part = "bottom" /\ x = 0
    /\ step = "entry" => any = (\E d \in VramRows : wanted[d])
    /\ step = "scan" => x < Size(part)
    /\ step = "run" => y <= x /\ x < Size(part) /\ flags[Hi]
    /\ step = "send" => y < x

RowsInv ==
    /\ step = "done" => \A d \in VramRows : Settled(d)
    /\ step # "done" => \A d \in VramRows :
          /\ d < Lo => Settled(d)
          /\ Lo <= d => loaded[d] = Old
          /\ Lo <= d /\ d < Hi => wanted[d]
          /\ Hi <= d => flags[d] = wanted[d]

DmaInv == DmaTypeOK /\ RegistersInv /\ RowsInv

\* The rows loaded, and their number.
LoadedRows == {d \in VramRows : loaded[d] # Old}
Counts == IsFiniteSet(LoadedRows) /\ sent = Cardinality(LoadedRows)

-----------------------------------------------------------------------------
\* The positions of both loops are rows.
LEMMA Positions ==
    ASSUME DmaTypeOK, NEW i \in Nat, i < Size(part)
    PROVE  Dest(part) + i \in VramRows
  BY SizeAssumption DEF DmaTypeOK, Dest, Size, VramRows

\* Ending a part is sound when every row of it is settled.
LEMMA AdvanceStep ==
    ASSUME DmaInv, NEW n \in Nat, n <= Size(part), n > 0, Advance(n),
           step \in {"scan", "send"},
           wanted' = wanted, flags' = flags, any' = any, y' = y,
           loaded' \in [VramRows -> Int], sent' \in Nat,
           \A d \in VramRows :
              /\ d < Dest(part) + n => loaded'[d] = (IF wanted[d] THEN ShadowOf(d) ELSE Old)
              /\ Dest(part) + n <= d => loaded'[d] = Old /\ flags[d] = wanted[d]
    PROVE  DmaInv'
  <1>1. CASE n < Size(part)
    <2>1. x' = n /\ step' = "scan" /\ part' = part
      BY <1>1 DEF Advance
    <2>2. DmaTypeOK'
      BY <1>1, <2>1 DEF DmaInv, DmaTypeOK, Size
    <2>3. RegistersInv'
      BY <1>1, <2>1 DEF RegistersInv, Size
    <2>4. Lo' = Dest(part) + n /\ Hi' = Dest(part) + n
      BY <2>1 DEF Lo, Hi, Dest
    <2>5. RowsInv'
      BY <2>1, <2>4, SizeAssumption DEF RowsInv, Settled, DmaInv, DmaTypeOK, Dest, VramRows
    <2>6. QED BY <2>2, <2>3, <2>5 DEF DmaInv
  <1>2. CASE n = Size(part) /\ part = "bottom"
    <2>1. x' = 0 /\ step' = "scan" /\ part' = "top"
      BY <1>2, SizeAssumption DEF Advance, Size
    <2>2. DmaTypeOK'
      BY <1>2, <2>1, SizeAssumption DEF DmaInv, DmaTypeOK, Size
    <2>3. RegistersInv'
      BY <2>1, SizeAssumption DEF RegistersInv, Size
    <2>4. Lo' = Dest(part) + n /\ Hi' = Dest(part) + n
      BY <1>2, <2>1, SizeAssumption DEF Lo, Hi, Dest, Size
    <2>5. RowsInv'
      BY <2>1, <2>4, SizeAssumption DEF RowsInv, Settled, DmaInv, DmaTypeOK, Dest, VramRows
    <2>6. QED BY <2>2, <2>3, <2>5 DEF DmaInv
  <1>3. CASE n = Size(part) /\ part = "top"
    <2>1. x' = 0 /\ step' = "done" /\ part' = "top"
      BY <1>3, SizeAssumption DEF Advance, Size
    <2>2. DmaTypeOK'
      BY <1>3, <2>1, SizeAssumption DEF DmaInv, DmaTypeOK, Size
    <2>3. RegistersInv'
      BY <2>1 DEF RegistersInv
    <2>4. \A d \in VramRows : d < Dest(part) + n
      BY <1>3, SizeAssumption DEF Dest, Size, VramRows
    <2>5. RowsInv'
      BY <2>1, <2>4 DEF RowsInv, Settled
    <2>6. QED BY <2>2, <2>3, <2>5 DEF DmaInv
  <1>4. QED BY <1>1, <1>2, <1>3, SizeAssumption DEF DmaInv, DmaTypeOK, Size

\* Skipping a clean row.
LEMMA SkipStep == ASSUME DmaInv, Skip PROVE DmaInv'
  <1>1. x \in Nat /\ x < Size(part) /\ Dest(part) + x \in VramRows
    BY Positions, SizeAssumption DEF DmaInv, Skip, DmaTypeOK, RegistersInv, Size
  <1>2. Lo = Dest(part) + x /\ Hi = Dest(part) + x
    BY DEF Skip, Lo, Hi
  <1>3. \A d \in VramRows :
           /\ d < Dest(part) + (x + 1) => loaded'[d] = (IF wanted[d] THEN ShadowOf(d) ELSE Old)
           /\ Dest(part) + (x + 1) <= d => loaded'[d] = Old /\ flags[d] = wanted[d]
    BY <1>1, <1>2, SizeAssumption DEF Skip, Flagged, DmaInv, RowsInv, Settled, VramRows, Dest
  <1>4. x + 1 \in Nat /\ x + 1 <= Size(part) /\ x + 1 > 0
    BY <1>1, SizeAssumption DEF Size
  <1>5. QED BY <1>3, <1>4, AdvanceStep DEF Skip, DmaInv, DmaTypeOK

\* Sending a run settles its rows.
LEMMA SendStep == ASSUME DmaInv, Send PROVE DmaInv'
  <1>1. x \in Nat /\ y \in Nat /\ y < x /\ x <= Size(part)
    BY SizeAssumption DEF DmaInv, Send, DmaTypeOK, RegistersInv, Size
  <1>2. Lo = Dest(part) + y /\ Hi = Dest(part) + x
    BY DEF Send, Lo, Hi
  <1>3. RunLength \in Nat /\ Dest(part) + y + RunLength = Dest(part) + x
    BY <1>1, SizeAssumption DEF RunLength, Dest
  <1>4. ASSUME NEW d \in VramRows
        PROVE  /\ d < Dest(part) + x => loaded'[d] = (IF wanted[d] THEN ShadowOf(d) ELSE Old)
               /\ Dest(part) + x <= d => loaded'[d] = Old /\ flags[d] = wanted[d]
    <2>1. CASE d < Dest(part) + y
      BY <1>1, <1>2, <2>1, SizeAssumption DEF Send, DmaInv, RowsInv, Settled, VramRows, Dest
    <2>2. CASE Dest(part) + y <= d /\ d < Dest(part) + x
      <3>1. wanted[d]
        BY <1>2, <2>2 DEF Send, DmaInv, RowsInv
      <3>2. loaded'[d] = Source(part) + (d - Dest(part))
        BY <1>3, <2>2 DEF Send
      <3>3. Source(part) + (d - Dest(part)) = ShadowOf(d)
        BY <1>1, <2>2, SizeAssumption DEF Source, Dest, ShadowOf, Size, VramRows
      <3>4. ~(Dest(part) + x <= d)
        BY <1>1, <2>2, SizeAssumption DEF Dest, VramRows
      <3>5. QED BY <3>1, <3>2, <3>3, <3>4
    <2>3. CASE Dest(part) + x <= d
      BY <1>1, <1>2, <1>3, <2>3, SizeAssumption DEF Send, DmaInv, RowsInv, VramRows, Dest
    <2>4. QED BY <1>1, <2>1, <2>2, <2>3, SizeAssumption DEF VramRows, Dest
  <1>5. loaded' \in [VramRows -> Int]
    BY SizeAssumption DEF Send, DmaInv, DmaTypeOK, VramRows, Source, Dest
  <1>6. sent' \in Nat
    BY <1>3 DEF Send, DmaInv, DmaTypeOK
  <1>7. x > 0
    BY <1>1
  <1>8. QED BY <1>1, <1>4, <1>5, <1>6, <1>7, AdvanceStep DEF Send

\* Extending a run by a flagged row.
LEMMA TakeStep == ASSUME DmaInv, TakeRow PROVE DmaInv'
  <1>1. /\ x \in Nat /\ y \in Nat /\ y <= x /\ x < Size(part)
        /\ Hi = Dest(part) + x /\ Hi \in VramRows /\ flags[Hi]
    BY Positions, SizeAssumption DEF DmaInv, TakeRow, DmaTypeOK, RegistersInv, Size, Hi
  <1>2. step' \in {"send", "run"} /\ x' = x + 1 /\ Hi' = Hi + 1 /\ Lo' = Lo /\ Lo = Dest(part) + y
    BY <1>1, SizeAssumption DEF TakeRow, Hi, Lo, Dest
  <1>3. step' = "run" => x' < Size(part) /\ flags[Dest(part) + x']
    BY <1>1, <1>2, SizeAssumption DEF TakeRow, RunEnds, Flagged, Size
  <1>4. DmaTypeOK'
    BY <1>1, <1>2, SizeAssumption DEF DmaInv, DmaTypeOK, TakeRow, Size
  <1>5. RegistersInv'
    <2>1. step' = "run" => flags'[Hi']
      BY <1>1, <1>2, <1>3, SizeAssumption, Positions DEF TakeRow, DmaInv, DmaTypeOK, Hi, Dest, VramRows, Size
    <2>2. QED BY <1>1, <1>2, <1>3, <2>1 DEF RegistersInv, TakeRow, Size
  <1>6. RowsInv'
    <2>1. \A d \in VramRows : Hi <= d => flags[d] = wanted[d]
      BY DEF DmaInv, RowsInv, TakeRow
    <2>2. ASSUME NEW d \in VramRows, Hi + 1 <= d
          PROVE  flags'[d] = wanted[d]
      <3>1. d # Hi /\ Hi <= d
        BY <1>1, <2>2, SizeAssumption DEF VramRows
      <3>2. flags'[d] = flags[d]
        BY <1>1, <3>1 DEF TakeRow, DmaInv, DmaTypeOK
      <3>3. QED BY <2>1, <3>1, <3>2
    <2>3. \A d \in VramRows : Lo <= d /\ d < Hi + 1 => wanted[d]
      BY <1>1, <2>1 DEF DmaInv, RowsInv, TakeRow, VramRows
    <2>4. QED BY <1>1, <1>2, <2>2, <2>3 DEF DmaInv, RowsInv, TakeRow, Settled
  <1>7. QED BY <1>4, <1>5, <1>6 DEF DmaInv

-----------------------------------------------------------------------------
\* The invariant of the two loops.
THEOREM DmaInvariant == DmaSpec => []DmaInv
  <1>1. DmaInit => DmaInv
    <2> SUFFICES ASSUME DmaInit PROVE DmaInv
      OBVIOUS
    <2>1. DmaTypeOK
      BY SizeAssumption DEF DmaInit, DmaTypeOK, Old, Size
    <2>2. RegistersInv
      BY DEF DmaInit, RegistersInv
    <2>3. RowsInv
      BY SizeAssumption DEF DmaInit, RowsInv, Lo, Hi, Dest, VramRows
    <2>4. QED BY <2>1, <2>2, <2>3 DEF DmaInv
  <1>2. DmaInv /\ [DmaNext]_dmaVars => DmaInv'
    <2> SUFFICES ASSUME DmaInv, [DmaNext]_dmaVars PROVE DmaInv'
      OBVIOUS
    <2>1. CASE Enter
      <3>1. CASE any
        <4>1. x = 0 /\ x' = 0 /\ step' = "scan" /\ Lo' = Lo /\ Hi' = Hi /\ part' = part
          BY <2>1, <3>1 DEF Enter, DmaInv, RegistersInv, Lo, Hi
        <4>2. DmaTypeOK'
          BY <2>1, <4>1 DEF Enter, DmaInv, DmaTypeOK
        <4>3. RegistersInv'
          BY <2>1, <4>1, SizeAssumption DEF RegistersInv, Size
        <4>4. RowsInv'
          BY <2>1, <4>1 DEF Enter, DmaInv, RowsInv, Settled
        <4>5. QED BY <4>2, <4>3, <4>4 DEF DmaInv
      <3>2. CASE ~any
        <4>1. step' = "done" /\ \A d \in VramRows : ~wanted[d]
          BY <2>1, <3>2 DEF Enter, DmaInv, RegistersInv
        <4>2. \A d \in VramRows : loaded[d] = Old
          BY <2>1, SizeAssumption DEF Enter, DmaInv, RegistersInv, RowsInv, Lo, Dest, VramRows
        <4>3. QED BY <2>1, <3>2, <4>1, <4>2 DEF Enter, DmaInv, DmaTypeOK, RegistersInv, RowsInv,
           Settled, Size
      <3>3. QED BY <3>1, <3>2 DEF DmaInv, DmaTypeOK
    <2>2. CASE Skip
      BY <2>2, SkipStep
    <2>3. CASE StartRun
      <3>1. x \in Nat /\ flags[Hi] /\ Lo' = Lo /\ Hi' = Hi
        BY <2>3, SizeAssumption DEF StartRun, DmaInv, DmaTypeOK, Flagged, Hi, Lo, Size
      <3>2. DmaTypeOK'
        BY <2>3, <3>1, SizeAssumption DEF StartRun, DmaInv, DmaTypeOK, Size
      <3>3. RegistersInv'
        BY <2>3, <3>1 DEF StartRun, DmaInv, RegistersInv, Size
      <3>4. RowsInv'
        BY <2>3, <3>1 DEF StartRun, DmaInv, RowsInv, Settled
      <3>5. QED BY <3>2, <3>3, <3>4 DEF DmaInv
    <2>4. CASE TakeRow
      BY <2>4, TakeStep
    <2>5. CASE Send
      BY <2>5, SendStep
    <2>6. CASE Return \/ UNCHANGED dmaVars
      BY <2>6 DEF Return, dmaVars, DmaInv, DmaTypeOK, RegistersInv, RowsInv, Lo, Hi, Settled, Size
    <2>7. QED BY <2>1, <2>2, <2>3, <2>4, <2>5, <2>6 DEF DmaNext
  <1>3. QED BY <1>1, <1>2, PTL DEF DmaSpec

\* Exactly the flagged rows are loaded, each from its own shadow row.
THEOREM UploadIsExact == DmaSpec => []RowsExact
  <1>1. DmaInv => RowsExact
    <2> SUFFICES ASSUME DmaInv, NEW d \in VramRows
                 PROVE  /\ loaded[d] # Old => wanted[d] /\ loaded[d] = ShadowOf(d)
                        /\ step = "done" /\ wanted[d] => loaded[d] = ShadowOf(d)
      BY DEF RowsExact
    <2>1. Lo \in Int
      BY SizeAssumption DEF DmaInv, DmaTypeOK, Lo, Dest, Size
    <2>2. QED BY <2>1, SizeAssumption DEF DmaInv, RowsInv, Settled, VramRows
  <1>2. QED BY <1>1, DmaInvariant, PTL

\* X stays within its loop.
THEOREM DmaTypes == DmaSpec => []DmaTypeOK
  <1>1. DmaInv => DmaTypeOK
    BY DEF DmaInv
  <1>2. QED BY <1>1, DmaInvariant, PTL

\* The rows a run has sent are counted once: the rows loaded are the ones before the
\* run, the run itself, and nothing else.
LEMMA RunCounted ==
    ASSUME DmaInv, Send
    PROVE  LoadedRows' = LoadedRows \cup (Lo..(Hi - 1)) /\ LoadedRows \cap (Lo..(Hi - 1)) = {}
  <1>1. x \in Nat /\ y \in Nat /\ y < x /\ x <= Size(part)
    BY SizeAssumption DEF DmaInv, Send, DmaTypeOK, RegistersInv, Size
  <1>2. Lo = Dest(part) + y /\ Hi = Dest(part) + x
    BY DEF Send, Lo, Hi
  <1>3. Dest(part) \in Nat /\ Source(part) \in Nat /\ Dest(part) + Size(part) <= BottomRows + TopRows
    BY SizeAssumption DEF Dest, Source, Size
  <1>4. RunLength \in Nat /\ Dest(part) + y + RunLength = Dest(part) + x
    BY <1>1, <1>3 DEF RunLength
  <1>5. Lo..(Hi - 1) \subseteq VramRows
    <2> DEFINE e == Dest(part)
               z == Size(part)
               all == BottomRows + TopRows
    <2>1. e \in Nat /\ e + z <= all /\ x <= z /\ z \in Nat /\ all \in Nat
      BY <1>1, <1>3, SizeAssumption DEF Size
    <2> HIDE DEF e, z, all
    <2>2. (e + y)..((e + x) - 1) \subseteq 0..(all - 1)
      BY <1>1, <2>1
    <2>3. VramRows = 0..(all - 1)
      BY SizeAssumption DEF VramRows, all
    <2>4. Lo..(Hi - 1) = (e + y)..((e + x) - 1)
      BY <1>2 DEF e
    <2>5. QED BY <2>2, <2>3, <2>4
  <1>6. ASSUME NEW d \in VramRows
        PROVE  /\ d \in Lo..(Hi - 1) => loaded'[d] # Old /\ loaded[d] = Old
               /\ d \notin Lo..(Hi - 1) => loaded'[d] = loaded[d]
    <2>1. d \in Int /\ (d \in Lo..(Hi - 1) <=> Dest(part) + y <= d /\ d < Dest(part) + y + RunLength)
      BY <1>1, <1>2, <1>3, <1>4, SizeAssumption DEF VramRows
    <2>2. loaded'[d] = IF Dest(part) + y <= d /\ d < Dest(part) + y + RunLength
                       THEN Source(part) + (d - Dest(part)) ELSE loaded[d]
      BY DEF Send
    <2>3. d \in Lo..(Hi - 1) => loaded[d] = Old
      BY <1>1, <1>2, <1>3, <2>1, <1>4 DEF DmaInv, RowsInv, Send
    <2>4. d \in Lo..(Hi - 1) => Source(part) + (d - Dest(part)) # Old
      BY <1>1, <1>2, <1>3, <2>1 DEF Old
    <2>5. CASE d \in Lo..(Hi - 1)
      <3>1. loaded'[d] = Source(part) + (d - Dest(part))
        BY <2>1, <2>2, <2>5
      <3>2. QED BY <2>3, <2>4, <2>5, <3>1
    <2>6. CASE d \notin Lo..(Hi - 1)
      <3>1. loaded'[d] = loaded[d]
        BY <2>1, <2>2, <2>6
      <3>2. QED BY <2>6, <3>1
    <2>7. QED BY <2>5, <2>6
  <1>7. QED BY <1>5, <1>6 DEF LoadedRows

\* No row is transferred twice, and none but the flagged ones.
THEOREM NothingSentTwice == DmaSpec => []NoExtraBytes
  <1>1. DmaInit => Counts
    <2> SUFFICES ASSUME DmaInit PROVE Counts
      OBVIOUS
    <2>1. LoadedRows = {} /\ sent = 0
      BY DEF DmaInit, LoadedRows
    <2>2. QED BY <2>1, FS_EmptySet DEF Counts
  <1>2. DmaInv /\ Counts /\ [DmaNext]_dmaVars => Counts'
    <2> SUFFICES ASSUME DmaInv, Counts, [DmaNext]_dmaVars PROVE Counts'
      OBVIOUS
    <2>1. CASE Send
      <3> DEFINE run == Lo..(Hi - 1)
      <3>1. Lo \in Nat /\ Hi \in Nat /\ Lo < Hi /\ Hi - Lo = RunLength
        BY <2>1, SizeAssumption DEF DmaInv, Send, DmaTypeOK, RegistersInv, Size, Lo, Hi, Dest,
           RunLength
      <3>2. IsFiniteSet(run) /\ Cardinality(run) = RunLength
        <4>1. IsFiniteSet(run) /\ Cardinality(run) = IF Lo > Hi - 1 THEN 0 ELSE (Hi - 1) - Lo + 1
          BY <3>1, FS_Interval
        <4>2. QED BY <3>1, <4>1
      <3>3. LoadedRows' = LoadedRows \cup run /\ LoadedRows \cap run = {}
        BY <2>1, RunCounted
      <3>4. IsFiniteSet(LoadedRows) /\ sent = Cardinality(LoadedRows) /\ sent' = sent + RunLength
        BY <2>1 DEF Counts, Send
      <3> HIDE DEF run
      <3>5. /\ IsFiniteSet(LoadedRows \cup run)
            /\ Cardinality(LoadedRows \cup run) =
                 Cardinality(LoadedRows) + Cardinality(run) - Cardinality(LoadedRows \cap run)
        BY <3>2, <3>4, FS_Union
      <3>6. Cardinality({}) = 0 /\ sent \in Int
        BY FS_EmptySet DEF DmaInv, DmaTypeOK
      <3>7. RunLength \in Int
        BY <3>1
      <3>8. sent' = Cardinality(LoadedRows')
        <4>1. Cardinality(LoadedRows \cap run) = 0
          BY <3>3, <3>6
        <4>2. Cardinality(LoadedRows \cup run) = sent + RunLength
          BY <3>2, <3>4, <3>5, <3>6, <3>7, <4>1
        <4>3. QED BY <3>3, <3>4, <4>2
      <3>9. IsFiniteSet(LoadedRows')
        BY <3>3, <3>5
      <3>10. QED BY <3>8, <3>9 DEF Counts
    <2>2. CASE ~Send
      <3>1. loaded' = loaded /\ sent' = sent
        BY <2>2 DEF DmaNext, dmaVars, Enter, Skip, StartRun, TakeRow, Return
      <3>2. LoadedRows' = LoadedRows
        BY <3>1 DEF LoadedRows
      <3>3. QED BY <3>1, <3>2 DEF Counts
    <2>3. QED BY <2>1, <2>2
  <1>3. Counts => NoExtraBytes
    BY DEF Counts, NoExtraBytes, LoadedRows
  <1>4. QED BY <1>1, <1>2, <1>3, DmaInvariant, PTL DEF DmaSpec

-----------------------------------------------------------------------------
\* The coalesced upload ends, with every flag consumed.

\* Flags are clear before the row looked at, and all of them at the return.
ClearedInv == \A d \in VramRows : d < Hi \/ step = "done" => ~flags[d]

\* A bound on the steps the loop still takes: three for a row at most.
Stage ==
    CASE step = "entry" -> 4 [] step = "send" -> 3 [] step = "scan" -> 2 [] step = "run" -> 1
      [] OTHER -> 0
StepsLeft ==
    IF step = "done" THEN 0 ELSE 3 * (BottomRows + TopRows - Hi) + Stage

\* The row looked at is a row of the two maps, or the one behind them.
LEMMA HiBound ==
    ASSUME DmaTypeOK
    PROVE  Hi \in 0..(BottomRows + TopRows)
  BY SizeAssumption DEF DmaTypeOK, Hi, Dest, Size

\* Advance leads to the row after n, in either part, or to the return.
LEMMA AdvanceMoves ==
    ASSUME DmaTypeOK, NEW n \in Nat, n <= Size(part), n > 0, Advance(n)
    PROVE  \/ step' = "scan" /\ Hi' = Dest(part) + n
           \/ step' = "done" /\ Dest(part) + n = BottomRows + TopRows
  <1>1. CASE n < Size(part)
    BY <1>1 DEF Advance, Hi, Dest
  <1>2. CASE n = Size(part) /\ part = "bottom"
    BY <1>2, SizeAssumption DEF Advance, Hi, Dest, Size
  <1>3. CASE n = Size(part) /\ part = "top"
    BY <1>3, SizeAssumption DEF Advance, Hi, Dest, Size
  <1>4. QED BY <1>1, <1>2, <1>3, SizeAssumption DEF DmaTypeOK, Size

\* "The loop ends": every step of UploadNametablesCoalesced lowers a natural number
\* that starts at three steps a row, and four, so it takes no more steps than that.
THEOREM UploadTerminates ==
    DmaSpec => /\ [](StepsLeft \in 0..(3 * (BottomRows + TopRows) + 4))
               /\ [][StepsLeft' < StepsLeft]_dmaVars
  <1>1. DmaInv => StepsLeft \in 0..(3 * (BottomRows + TopRows) + 4)
    BY HiBound, SizeAssumption DEF DmaInv, StepsLeft, Stage
  <1>2. ASSUME DmaInv, DmaNext, ~UNCHANGED dmaVars
        PROVE  StepsLeft' < StepsLeft
    <2>0. Hi \in Int /\ Dest(part) \in Int /\ x \in Nat /\ Hi = Dest(part) + x
      BY <1>2, HiBound, SizeAssumption DEF DmaInv, DmaTypeOK, Hi, Dest, Size
    <2>1. CASE Enter
      <3>1. Hi' = Hi
        BY <2>1 DEF Enter, Hi, Dest
      <3>2. Hi <= BottomRows + TopRows
        BY <1>2, HiBound DEF DmaInv
      <3>3. QED BY <2>0, <2>1, <3>1, <3>2, SizeAssumption DEF Enter, StepsLeft, Stage
    <2>2. CASE Skip
      <3>1. x + 1 \in Nat /\ x + 1 <= Size(part) /\ x + 1 > 0
        BY <1>2, <2>0, <2>2, SizeAssumption DEF Skip, DmaInv, RegistersInv, DmaTypeOK, Size
      <3>2. \/ step' = "scan" /\ Hi' = Hi + 1
            \/ step' = "done" /\ Hi + 1 = BottomRows + TopRows
        BY <1>2, <2>0, <2>2, <3>1, AdvanceMoves DEF Skip, DmaInv
      <3>3. QED BY <2>0, <2>2, <3>2, SizeAssumption DEF Skip, StepsLeft, Stage
    <2>3. CASE StartRun
      <3>1. Hi' = Hi
        BY <2>3 DEF StartRun, Hi, Dest
      <3>2. QED BY <2>0, <2>3, <3>1, SizeAssumption DEF StartRun, StepsLeft, Stage
    <2>4. CASE TakeRow
      <3>1. Hi' = Hi + 1
        BY <2>0, <2>4 DEF TakeRow, Hi, Dest
      <3>2. QED BY <2>0, <2>4, <3>1, SizeAssumption DEF TakeRow, StepsLeft, Stage
    <2>5. CASE Send
      <3>1. x <= Size(part) /\ x > 0
        BY <1>2, <2>0, <2>5, SizeAssumption DEF Send, DmaInv, RegistersInv, DmaTypeOK, Size
      <3>2. \/ step' = "scan" /\ Hi' = Hi
            \/ step' = "done" /\ Hi = BottomRows + TopRows
        BY <1>2, <2>0, <2>5, <3>1, AdvanceMoves DEF Send, DmaInv
      <3>3. step = "send"
        BY <2>5 DEF Send
      <3>4. StepsLeft = 3 * (BottomRows + TopRows - Hi) + 3
        BY <3>3 DEF StepsLeft, Stage
      <3>5. CASE step' = "scan" /\ Hi' = Hi
        <4>1. StepsLeft' = 3 * (BottomRows + TopRows - Hi) + 2
          BY <3>5 DEF StepsLeft, Stage
        <4>2. QED BY <2>0, <3>4, <4>1, SizeAssumption
      <3>6. CASE step' = "done" /\ Hi = BottomRows + TopRows
        <4>1. StepsLeft' = 0
          BY <3>6 DEF StepsLeft
        <4>2. QED BY <2>0, <3>4, <3>6, <4>1, SizeAssumption
      <3>7. QED BY <3>2, <3>5, <3>6
    <2>6. QED BY <1>2, <2>1, <2>2, <2>3, <2>4, <2>5 DEF DmaNext, Return
  <1>3. DmaInv /\ [DmaNext]_dmaVars => [StepsLeft' < StepsLeft]_dmaVars
    BY <1>2
  <1>4. QED BY <1>1, <1>3, DmaInvariant, PTL DEF DmaSpec

\* When UploadNametablesCoalesced returns, no row is left flagged: the next frame does not
\* send it again.
THEOREM UploadConsumes == DmaSpec => [](step = "done" => Consumed)
  <1>1. DmaInit => ClearedInv
    BY SizeAssumption DEF DmaInit, ClearedInv, VramRows, Hi, Dest
  <1>2. ASSUME DmaInv, ClearedInv, [DmaNext]_dmaVars
        PROVE  ClearedInv'
    <2>0. /\ Hi \in Int /\ Dest(part) \in Int /\ x \in Nat /\ Hi = Dest(part) + x
          /\ VramRows \subseteq Int
      BY <1>2, HiBound, SizeAssumption DEF DmaInv, DmaTypeOK, Hi, Dest, Size, VramRows
    <2>1. CASE Enter
      <3>1. Hi' = Hi /\ flags' = flags /\ step' # "entry"
        BY <2>1 DEF Enter, Hi, Dest
      <3>2. step' = "done" => \A d \in VramRows : ~flags[d]
        BY <1>2, <2>1, <2>0, SizeAssumption
        DEF Enter, DmaInv, RegistersInv, RowsInv, VramRows, Hi, Dest
      <3>3. QED BY <1>2, <3>1, <3>2 DEF ClearedInv
    <2>2. CASE Skip
      <3>1. x + 1 \in Nat /\ x + 1 <= Size(part) /\ x + 1 > 0
        BY <1>2, <2>0, <2>2, SizeAssumption DEF Skip, DmaInv, RegistersInv, DmaTypeOK, Size
      <3>2. \/ step' = "scan" /\ Hi' = Hi + 1
            \/ step' = "done" /\ Hi + 1 = BottomRows + TopRows
        BY <1>2, <2>0, <2>2, <3>1, AdvanceMoves DEF Skip, DmaInv
      <3>3. ~flags[Hi] /\ flags' = flags
        BY <2>0, <2>2 DEF Skip, Flagged
      <3>4. \A d \in VramRows : d < Hi + 1 => ~flags[d]
        BY <1>2, <2>0, <3>3 DEF ClearedInv
      <3>5. QED BY <2>0, <3>2, <3>3, <3>4, SizeAssumption DEF ClearedInv, VramRows
    <2>3. CASE StartRun
      <3>1. Hi' = Hi /\ flags' = flags /\ step' = "run"
        BY <2>3 DEF StartRun, Hi, Dest
      <3>2. QED BY <1>2, <3>1 DEF ClearedInv
    <2>4. CASE TakeRow
      <3>1. Hi' = Hi + 1 /\ step' # "done"
        BY <2>0, <2>4 DEF TakeRow, Hi, Dest
      <3>2. flags' = [flags EXCEPT ![Hi] = FALSE] /\ flags \in [VramRows -> BOOLEAN]
        BY <1>2, <2>4 DEF TakeRow, Hi, DmaInv, DmaTypeOK
      <3>3. ASSUME NEW d \in VramRows, d < Hi + 1
            PROVE  ~flags'[d]
        BY <1>2, <2>0, <3>2, <3>3 DEF ClearedInv
      <3>4. QED BY <3>1, <3>3 DEF ClearedInv
    <2>5. CASE Send
      <3>1. x <= Size(part) /\ x > 0
        BY <1>2, <2>0, <2>5, SizeAssumption DEF Send, DmaInv, RegistersInv, DmaTypeOK, Size
      <3>2. \/ step' = "scan" /\ Hi' = Hi
            \/ step' = "done" /\ Hi = BottomRows + TopRows
        BY <1>2, <2>0, <2>5, <3>1, AdvanceMoves DEF Send, DmaInv
      <3>3. flags' = flags
        BY <2>5 DEF Send
      <3>4. QED BY <1>2, <2>0, <3>2, <3>3, SizeAssumption DEF ClearedInv, VramRows
    <2>6. CASE Return \/ UNCHANGED dmaVars
      BY <1>2, <2>6 DEF Return, dmaVars, ClearedInv, Hi, Dest
    <2>7. QED BY <1>2, <2>1, <2>2, <2>3, <2>4, <2>5, <2>6 DEF DmaNext
  <1>3. ClearedInv => (step = "done" => Consumed)
    BY DEF ClearedInv, Consumed
  <1>4. QED BY <1>1, <1>2, <1>3, DmaInvariant, PTL DEF DmaSpec
=============================================================================
