-------------------------- MODULE MCChannelAdapters --------------------------
(* Instances of ChannelAdapters for TLC. *)
EXTENDS ChannelAdapters

CONSTANTS discord, telegram, p1, p2, p3
=============================================================================
