--------------------------- MODULE MCCanvasCache ---------------------------
(* A small instance of CanvasCache: two walls, one of them too much for the *)
(* memory cache once the other is in it.                                    *)
EXTENDS CanvasCache

Scopes == {{1, 2}}
Bytes == [w \in Walls |-> w + 1]
=============================================================================
