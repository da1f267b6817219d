--------------------------- MODULE MCFrameBuffer ---------------------------
(* FrameBuffer on a small instance: ids wrap after IdMax + 1 frames. *)
EXTENDS FrameBuffer

=============================================================================
