--------------------------- MODULE MCCachingLexer --------------------------
(* The token cache under a caller that looks up to three tokens ahead. *)
EXTENDS CachingLexer

MCAhead == 0 .. 3
=============================================================================
