---------------------------- MODULE MCTextureDelay ----------------------------
(* TextureDelay with three textures.                                         *)
EXTENDS TextureDelay
=============================================================================
