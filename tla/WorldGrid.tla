------------------------------ MODULE WorldGrid ------------------------------
(***************************************************************************)
(* The geometry of the full-library world: the row-major grid of cells,    *)
(* the pyramid of cache tiles over it, the tiles a route between two cells *)
(* needs, and where the renderer puts a cell of a tile on the screen.      *)
(*                                                                         *)
(* Everything the code computes here in floating point has whole cell      *)
(* coordinates (the route rectangle and a margin of one cell), so integers *)
(* are exact.  Positions of drawn cells are fractions of a cell, given as  *)
(* a numerator over a denominator.                                         *)
(***************************************************************************)
EXTENDS Integers, FiniteSets

CONSTANTS TileCells,         \* cells along an edge of a level 0 tile (8)
          Branching,         \* WORLD_TILE_LOD_BRANCHING (8)
          Edge,              \* pixels along the edge of a cell thumbnail (384)
          MaxRouteTiles,     \* MAX_WORLD_ROUTE_TILES (16)
          MaxRequestTiles    \* MAX_RENDERER_WORLD_REQUEST_TILES (32)

ASSUME WorldGridAssumption ==
  /\ TileCells \in Nat \ {0} /\ Edge \in Nat \ {0}
  /\ Branching \in Nat /\ Branching > 1
  /\ MaxRouteTiles \in Nat \ {0} /\ MaxRequestTiles \in Nat \ {0}

AtLeastOne(n) == IF n < 1 THEN 1 ELSE n
Smaller(a, b) == IF a < b THEN a ELSE b
Larger(a, b)  == IF a < b THEN b ELSE a
DivCeil(a, b) == (a + b - 1) \div b

\* auto_world_columns: the edge of the smallest square that holds every entry.
AutoColumns(n) == CHOOSE c \in 1 .. n + 1 : c * c >= n /\ \A d \in 1 .. c - 1 : d * d < n

Layout(n, columns) ==
  [count |-> n, columns |-> AtLeastOne(columns), rows |-> DivCeil(n, AtLeastOne(columns))]

HasCell(layout, i) == i \in 0 .. layout.count - 1
Column(layout, i)  == i % layout.columns
Row(layout, i)     == i \div layout.columns

ClampTo(v, upper) == IF v <= 0 THEN 0 ELSE Smaller(v, upper)

\* visible_world_range of a rectangle of whole cells [x0, x1) x [y0, y1).
EmptyRange == [c0 |-> 0, c1 |-> 0, r0 |-> 0, r1 |-> 0]
VisibleRange(layout, x0, x1, y0, y1, margin) ==
  IF layout.count = 0 THEN EmptyRange
  ELSE [c0 |-> ClampTo(x0 - margin, layout.columns), c1 |-> ClampTo(x1 + margin, layout.columns),
        r0 |-> ClampTo(y0 - margin, layout.rows),    r1 |-> ClampTo(y1 + margin, layout.rows)]

\* world_tiles_for_range: the tiles that a range of cells touches.
TilesForRange(range, cells) ==
  IF range.c0 >= range.c1 \/ range.r0 >= range.r1 THEN {}
  ELSE [row    : range.r0 \div AtLeastOne(cells) .. DivCeil(range.r1, AtLeastOne(cells)) - 1,
        column : range.c0 \div AtLeastOne(cells) .. DivCeil(range.c1, AtLeastOne(cells)) - 1]

\* The bounding rectangle of two cells, with a margin of one cell.
RouteRange(layout, s, t) ==
  VisibleRange(layout,
    Smaller(Column(layout, s), Column(layout, t)), Larger(Column(layout, s), Column(layout, t)) + 1,
    Smaller(Row(layout, s), Row(layout, t)), Larger(Row(layout, s), Row(layout, t)) + 1, 1)

RouteTiles(layout, s, t, cells) ==
  IF HasCell(layout, s) /\ HasCell(layout, t)
  THEN TilesForRange(RouteRange(layout, s, t), cells) ELSE {}

-----------------------------------------------------------------------------
(* The tile pyramid. *)

LodCells[lod \in Nat] == IF lod = 0 THEN TileCells ELSE Branching * LodCells[lod - 1]

TileColumns(columns, lod) == DivCeil(columns, LodCells[lod])
TileRows(rows, lod)       == DivCeil(rows, LodCells[lod])

\* tile_pyramid_cache_entries: levels are added until one has at most one tile.
Lods(columns, rows) ==
  { lod \in 0 .. columns + rows :
      \A l \in 0 .. lod - 1 : TileColumns(columns, l) * TileRows(rows, l) > 1 }

PyramidKeys(columns, rows) ==
  UNION { [lod : {lod}, row : 0 .. TileRows(rows, lod) - 1,
           column : 0 .. TileColumns(columns, lod) - 1] : lod \in Lods(columns, rows) }

\* The cells of a tile, clipped at the edge of the grid.
TileSpan(columns, rows, key) ==
  [c0 |-> key.column * LodCells[key.lod],
   c1 |-> Smaller((key.column + 1) * LodCells[key.lod], columns),
   r0 |-> key.row * LodCells[key.lod],
   r1 |-> Smaller((key.row + 1) * LodCells[key.lod], rows)]

\* The library indices under a span; a last row may be shorter than the grid.
SpanIndices(columns, count, span) ==
  { i \in { r * columns + c : r \in span.r0 .. span.r1 - 1, c \in span.c0 .. span.c1 - 1 } : i \in 0 .. count - 1 }

\* world_route_lod_for_budget: the finest level whose tiles fit the budget.
FitsBudget(layout, s, t, lod) ==
  Cardinality(RouteTiles(layout, s, t, LodCells[lod])) \in 1 .. MaxRouteTiles
NoLod == -1
RouteLod(layout, s, t, lods) ==
  IF \E lod \in lods : FitsBudget(layout, s, t, lod)
  THEN CHOOSE lod \in lods : /\ FitsBudget(layout, s, t, lod)
                             /\ \A l \in lods : l < lod => ~FitsBudget(layout, s, t, l)
  ELSE NoLod

\* select_world_route_lod of muralctl, which writes the tiles the daemon reads.
BuilderFits_Below(layout, s, t, lod) ==
  Cardinality(RouteTiles(layout, s, t, LodCells[lod])) < MaxRouteTiles
BuilderFits(layout, s, t, lod) ==
  Cardinality(RouteTiles(layout, s, t, LodCells[lod])) <= MaxRouteTiles
BuilderLod(layout, s, t, lods) ==
  IF \E lod \in lods : BuilderFits(layout, s, t, lod)
  THEN CHOOSE lod \in lods : /\ BuilderFits(layout, s, t, lod)
                             /\ \A l \in lods : l < lod => ~BuilderFits(layout, s, t, l)
  ELSE NoLod

KeysAt(lod, tiles) == { [lod |-> lod, row |-> t.row, column |-> t.column] : t \in tiles }
RouteKeys(layout, s, t, lod) == KeysAt(lod, RouteTiles(layout, s, t, LodCells[lod]))

\* neighborhood_world_tile_keys_for_center: the tiles within radius of a cell's tile.
NeighborKeys(layout, center, radius, lod) ==
  LET column == Column(layout, center) \div LodCells[lod]
      row    == Row(layout, center) \div LodCells[lod]
  IN [lod : {lod},
      row : Larger(row - radius, 0) .. Smaller(row + radius, TileRows(layout.rows, lod) - 1),
      column : Larger(column - radius, 0)
                 .. Smaller(column + radius, TileColumns(layout.columns, lod) - 1)]

-----------------------------------------------------------------------------
(* The picture of a tile and where the renderer draws it. *)

\* world_lod_child_blocks: the tiles one level down that a tile is made of.
ChildBlocks(columns, rows, key) ==
  LET span  == TileSpan(columns, rows, key)
      child == LodCells[key.lod - 1]
  IN { [c0 |-> c * child, c1 |-> Smaller((c + 1) * child, span.c1),
        r0 |-> r * child, r1 |-> Smaller((r + 1) * child, span.r1)] :
         r \in span.r0 \div child .. DivCeil(span.r1, child) - 1,
         c \in span.c0 \div child .. DivCeil(span.c1, child) - 1 }

\* scaled_offset: where cell number i of a block of n cells starts, in pixels.
ScaledOffset(i, n) == (i * Edge) \div AtLeastOne(n)

\* generate_world_l0_tile gives every cell its thumbnail; generate_world_lod_tile
\* squeezes every block of cells into one.  Along one axis: the width of the
\* picture and the first pixel of a cell.
PictureCells(columns, rows, key) ==
  LET span == TileSpan(columns, rows, key)
  IN IF key.lod = 0 THEN span.c1 - span.c0
     ELSE DivCeil(span.c1, LodCells[key.lod - 1]) - span.c0 \div LodCells[key.lod - 1]
CellPixel(columns, rows, key, column) ==
  LET span  == TileSpan(columns, rows, key)
      child == LodCells[key.lod - 1]
      block == column \div child
  IN IF key.lod = 0 THEN (column - span.c0) * Edge
     ELSE (block - span.c0 \div child) * Edge
            + ScaledOffset(column - block * child,
                           Smaller((block + 1) * child, span.c1) - block * child)

\* world_tile_rect_for_view stretches the picture over a whole tile: the cell
\* starts at DrawnAt / (pixels of the picture), counted in cells.
PicturePixels(columns, rows, key) == PictureCells(columns, rows, key) * Edge
DrawnAt(columns, rows, key, column) ==
  key.column * LodCells[key.lod] * PicturePixels(columns, rows, key)
    + CellPixel(columns, rows, key, column) * LodCells[key.lod]

\* world_camera_path: the overview shown between the start cell and the target.
Overview(layout, s, t) ==
  LET x0 == Smaller(Column(layout, s), Column(layout, t)) - 1
      x1 == Larger(Column(layout, s), Column(layout, t)) + 2
      y0 == Smaller(Row(layout, s), Row(layout, t)) - 1
      y1 == Larger(Row(layout, s), Row(layout, t)) + 2
      width  == Smaller(Larger(x1 - x0, 1), AtLeastOne(layout.columns))
      height == Smaller(Larger(y1 - y0, 1), AtLeastOne(layout.rows))
      x == Smaller(Larger(x0, 0), AtLeastOne(layout.columns) - width)
      y == Smaller(Larger(y0, 0), AtLeastOne(layout.rows) - height)
  IN [x0 |-> x, x1 |-> x + width, y0 |-> y, y1 |-> y + height]
=============================================================================
