--------------------------- MODULE ImageEditorMC ---------------------------
(* A wide and a square image, and templates Free and square. *)
EXTENDS ImageEditor

MCSize == [wide |-> [w |-> Int2Frac(40), h |-> Int2Frac(30)],
           square |-> [w |-> Int2Frac(20), h |-> Int2Frac(20)]]
MCRatio == [Free |-> Zero, Square |-> One]
MCPulls == {<<6, 4>>}
=============================================================================
