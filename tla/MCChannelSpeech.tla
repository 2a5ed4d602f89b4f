--------------------------- MODULE MCChannelSpeech ---------------------------
(* Small instances of ChannelSpeech for TLC. *)
EXTENDS ChannelSpeech

CONSTANTS msg, act, w1, w2
=============================================================================
