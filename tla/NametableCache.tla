--------------------------- MODULE NametableCache ---------------------------
(***************************************************************************)
(* The nametable pipeline of the renderer (snes/src/native_video.inc,      *)
(* native_fill_cache.inc, and the PPU and mapper writers of native.s), in  *)
(* the configuration with the fill cache and pipelined presentation.       *)
(*                                                                         *)
(* NES nametables live in three physical pages and a fill register pair;   *)
(* $5105 routes four logical quadrants to them, and a fifth one, the HUD   *)
(* on BG2, has its own route.  Rows are converted to a shadow map in WRAM  *)
(* only when marked dirty, rerouted or refilled, and uploaded to VRAM only *)
(* when converted.                                                         *)
(***************************************************************************)
EXTENDS Integers

CONSTANTS
    Pages,      \* the physical pages ($3000, $3400, $5C00 in NES memory)
    ExRam,      \* the one the program can also write at $5C00-$5FFF
    Quads,      \* the quadrants routed by $5105
    Rows,       \* tile rows of a nametable (30 in the code)
    GroupSize,  \* rows coloured by one attribute byte (4 in the code)
    Tiles,      \* contents of a row of tiles
    Colors,     \* contents of a row of attributes
    ZeroTile, ZeroColor     \* those of cleared memory

Fill == "Fill"      \* route 3
None == "None"      \* the reset value of OLDTOP
Hud  == "Hud"       \* the fifth quadrant

Routes   == Pages \cup {Fill}
Surfaces == Quads \cup {Hud}

ASSUME NamesAssumption ==
    /\ Fill \notin Pages /\ None \notin Routes /\ Hud \notin Quads
    /\ ExRam \in Pages
    /\ ZeroTile \in Tiles /\ ZeroColor \in Colors

ASSUME RowsAssumption == Rows \subseteq Nat /\ GroupSize \in Nat \ {0}

VARIABLES
    tile, attr,                 \* the physical pages
    route,                      \* $5105
    filltile, fillcolor,        \* $5106, $5107
    topmirror, topquad,         \* TOPMIRROR; the quadrant TOPTEMP selects
    oldmirror, oldtop,          \* OLDMIRROR, OLDTOP
    fcvalid, fctile, fccolor,   \* FILL_CACHE_VALID, FILL_TILE_CACHE, _COLOR_
    dirty, dirtyany,            \* DIRTY, DIRTY_ANY
    shadow,                     \* the converted maps at $7F0000
    upload, uploadany,          \* UPLOAD, UPLOAD_ANY
    vram,                       \* the maps in VRAM
    ready,                      \* FRAME_READY
    phase                       \* progress of the frame

nes    == <<tile, attr, route, filltile, fillcolor>>
top    == <<topmirror, topquad>>
marks  == <<dirty, dirtyany>>
olds   == <<oldmirror, oldtop, fcvalid, fctile, fccolor>>
output == <<shadow, upload, uploadany>>
screen == <<vram, ready>>
vars   == <<nes, top, marks, olds, output, screen, phase>>

Group(r) == r \div GroupSize
Groups   == {Group(r) : r \in Rows}

\* A converted row: tile words with the attributes of its group.
Images == Tiles \X Colors
Unmarked(X) == [x \in X |-> [r \in Rows |-> FALSE]]

\* Reset: WRAM is cleared, OLDMIRROR and OLDTOP are set to $FF.  As a value of
\* $5105, $FF routes every quadrant to the fill registers.
Init ==
    /\ tile = [p \in Pages |-> [r \in Rows |-> ZeroTile]]
    /\ attr = [p \in Pages |-> [g \in Groups |-> ZeroColor]]
    /\ \E p \in Pages : route = [q \in Quads |-> p]
    /\ filltile = ZeroTile /\ fillcolor = ZeroColor
    /\ topmirror = route /\ topquad \in Quads
    /\ oldmirror = [q \in Quads |-> Fill] /\ oldtop = None
    /\ fcvalid = FALSE /\ fctile = ZeroTile /\ fccolor = ZeroColor
    /\ dirty = Unmarked(Pages) /\ dirtyany = FALSE
    /\ shadow = [s \in Surfaces |-> [r \in Rows |-> <<ZeroTile, ZeroColor>>]]
    /\ upload = Unmarked(Surfaces) /\ uploadany = FALSE
    /\ \E garbage \in Images :
          vram = [s \in Surfaces |-> [r \in Rows |-> garbage]]
    /\ ready = FALSE /\ phase = "main"

-----------------------------------------------------------------------------
(* Writes of the NES program.  Each runs with the NMI held off by the gate *)
(* or inside the frame, so a store and its marks are one step.             *)

(* Slip: an attribute byte marks only the first row it colours.            *)
MarkFirst(p, rows) ==
    /\ dirty' = [dirty EXCEPT ![p] =
           [r \in Rows |-> @[r] \/ (r \in rows /\ r % GroupSize = 0)]]
    /\ dirtyany' = TRUE

MarkPhysicalRow(p, rows) ==
    /\ dirty' = [dirty EXCEPT ![p] = [r \in Rows |-> @[r] \/ r \in rows]]
    /\ dirtyany' = TRUE

StoreTile(p, r, v) ==
    /\ tile' = [tile EXCEPT ![p][r] = v]
    /\ MarkPhysicalRow(p, {r})
    /\ UNCHANGED attr

StoreAttr(p, g, v) ==
    /\ attr' = [attr EXCEPT ![p][g] = v]
    /\ MarkPhysicalRow(p, {r \in Rows : Group(r) = g})
    /\ UNCHANGED tile

\* $2007: the address resolves through the route; fill and equal values are
\* ignored.
WritePpuData ==
    /\ \E q \in Quads :
          /\ route[q] # Fill
          /\ \/ \E r \in Rows, v \in Tiles :
                   v # tile[route[q]][r] /\ StoreTile(route[q], r, v)
             \/ \E g \in Groups, v \in Colors :
                   v # attr[route[q]][g] /\ StoreAttr(route[q], g, v)
    /\ UNCHANGED <<route, filltile, fillcolor, top, olds, output, screen, phase>>

\* $5C00-$5FFF: marked whatever the value.
WriteExRam ==
    /\ \/ \E r \in Rows, v \in Tiles : StoreTile(ExRam, r, v)
       \/ \E g \in Groups, v \in Colors : StoreAttr(ExRam, g, v)
    /\ UNCHANGED <<route, filltile, fillcolor, top, olds, output, screen, phase>>

\* $5105, $5106, $5107: plain stores.
WriteMirror ==
    /\ route' \in [Quads -> Routes]
    /\ UNCHANGED <<tile, attr, filltile, fillcolor, top, marks, olds, output,
                   screen, phase>>

WriteFill ==
    /\ \/ filltile' \in Tiles /\ UNCHANGED fillcolor
       \/ fillcolor' \in Colors /\ UNCHANGED filltile
    /\ UNCHANGED <<tile, attr, route, top, marks, olds, output, screen, phase>>

-----------------------------------------------------------------------------
(* The host's frame: presentation, NES NMI handler, CaptureTop, IRQs, render. *)

PresentPendingFrame ==
    /\ phase = "main"
    /\ IF ready /\ uploadany
       THEN /\ vram' = [s \in Surfaces |-> [r \in Rows |->
                           IF upload[s][r] THEN shadow[s][r] ELSE vram[s][r]]]
            /\ upload' = Unmarked(Surfaces) /\ uploadany' = FALSE
       ELSE UNCHANGED <<vram, upload, uploadany>>
    /\ ready' = FALSE
    /\ phase' = "nmi"
    /\ UNCHANGED <<nes, top, marks, olds, shadow>>

CaptureTop ==
    /\ phase = "nmi"
    /\ topmirror' = route /\ topquad' \in Quads
    /\ phase' = "raster"
    /\ UNCHANGED <<nes, marks, olds, output, screen>>

(* Slip: the fill cache does not look at the color.                        *)
FillChangedTile == ~fcvalid \/ filltile # fctile

FillChanged == ~fcvalid \/ filltile # fctile \/ fillcolor # fccolor

TopRoute == topmirror[topquad]
RouteOf(s) == IF s = Hud THEN TopRoute ELSE route[s]

(* Slip: the HUD is forced when the quadrants' routes change.              *)
ForcedTogether(s) == route # oldmirror

\* A quadrant is converted whole when any route changed since last time.
Forced(s) == IF s = Hud THEN TopRoute # oldtop ELSE route # oldmirror

\* Rows ConvertNametable reaches, after its two early tests.
Converts(s, r) ==
    \/ Forced(s)
    \/ RouteOf(s) = Fill /\ FillChanged
    \/ RouteOf(s) # Fill /\ dirtyany /\ dirty[RouteOf(s)][r]

\* What ConvertRow and FillRow write.
ImageOf(s, r) ==
    IF RouteOf(s) = Fill THEN <<filltile, fillcolor>>
    ELSE <<tile[RouteOf(s)][r], attr[RouteOf(s)][Group(r)]>>

RenderFrame ==
    /\ phase = "raster"
    /\ shadow' = [s \in Surfaces |-> [r \in Rows |->
                     IF Converts(s, r) THEN ImageOf(s, r) ELSE shadow[s][r]]]
    /\ upload' = [s \in Surfaces |-> [r \in Rows |->
                     upload[s][r] \/ Converts(s, r)]]
    /\ uploadany' = (uploadany \/ \E s \in Surfaces, r \in Rows : Converts(s, r))
    /\ oldmirror' = route /\ oldtop' = TopRoute
    /\ fcvalid' = TRUE /\ fctile' = filltile /\ fccolor' = fillcolor
    /\ dirty' = Unmarked(Pages) /\ dirtyany' = FALSE
    /\ ready' = TRUE
    /\ phase' = "main"
    /\ UNCHANGED <<nes, top, vram>>

Next ==
    \/ WritePpuData \/ WriteExRam \/ WriteMirror \/ WriteFill
    \/ PresentPendingFrame \/ CaptureTop \/ RenderFrame

Spec == Init /\ [][Next]_vars
-----------------------------------------------------------------------------
(* Properties.                                                             *)

MarkType(X) == [X -> [Rows -> BOOLEAN]]
MapType == [Surfaces -> [Rows -> Images]]

\* Every variable keeps its type.
TypeOK ==
    /\ tile \in [Pages -> [Rows -> Tiles]] /\ attr \in [Pages -> [Groups -> Colors]]
    /\ route \in [Quads -> Routes] /\ filltile \in Tiles /\ fillcolor \in Colors
    /\ topmirror \in [Quads -> Routes] /\ topquad \in Quads
    /\ oldmirror \in [Quads -> Routes] /\ oldtop \in Routes \cup {None}
    /\ fcvalid \in BOOLEAN /\ fctile \in Tiles /\ fccolor \in Colors
    /\ dirty \in MarkType(Pages) /\ dirtyany \in BOOLEAN
    /\ shadow \in MapType
    /\ upload \in MarkType(Surfaces) /\ uploadany \in BOOLEAN
    /\ vram \in MapType
    /\ ready \in BOOLEAN /\ phase \in {"main", "nmi", "raster"}

\* The picture the NES state stands for now.
LivePicture == [s \in Surfaces |-> [r \in Rows |-> ImageOf(s, r)]]

\* Once a frame has been rendered, every row the next render would skip is
\* already in the shadow map as the NES state has it NOW, and every row it
\* would not upload is already in VRAM: however writes, reroutings and
\* refills follow one another, no invalidation is missed.
NothingMissed ==
    fcvalid => \A s \in Surfaces, r \in Rows :
                  /\ ~Converts(s, r) => shadow[s][r] = ImageOf(s, r)
                  /\ ~(uploadany /\ upload[s][r]) => vram[s][r] = shadow[s][r]

Frames == INSTANCE PresentedFrame WITH
    live <- LivePicture, pending <- shadow, ready <- ready, shown <- vram

\* With all its caches, the renderer shows what converting and uploading every
\* row of every frame would show: the NES maps as they were at one RenderFrame,
\* whatever was written to them afterwards ("Main-loop PPU and mapper writes
\* must not alter a frame that is already queued for upload").
ShowsSnapshots == Frames!Spec
=============================================================================
