--------------------------- MODULE MCReplyBuffer ----------------------------
(* ReplyBuffer scaled down: chunks of a few bytes, and sources of up to    *)
(* several chunks, so that every remainder modulo a chunk occurs.          *)
EXTENDS ReplyBuffer
=============================================================================
