--------------------------- MODULE MCCommandQueue ---------------------------
(* Instances of CommandQueue for TLC. *)
EXTENDS CommandQueueMailbox, TLC

CONSTANTS s1, s2

Config(max, debounce, cap, drop, md) ==
  [max_concurrent |-> max, debounce |-> debounce, cap |-> cap, drop |-> drop,
   default_mode |-> md]

Setting(md, debounce, cap, drop) ==
  [mode |-> md, debounce |-> debounce, cap |-> cap, drop |-> drop]

(* The default policy with debounce, one worker slot and room for two; a   *)
(* client may raise the limits, for all sessions or for one.               *)
CollectConfig == Config(1, 1, 2, "summarize", "collect")
RaisedConfigs == {Config(2, 1, 3, "summarize", "collect")}
RaisedLane    == {Setting("collect", 0, 3, "")}
CollectOnly   == {"collect"}

(* Two slots, no debounce, room for one.                                   *)
WideConfig == Config(2, 0, 1, "summarize", "collect")
AllModes   == QueueMode

InterruptModes == {"followup", "interrupt"}
NoConfigs   == {}
NoOverrides == {}
=============================================================================
