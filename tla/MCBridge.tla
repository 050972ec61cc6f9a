------------------------------ MODULE MCBridge ------------------------------
(* Instance of BridgeSession for TLC. *)
EXTENDS BridgeSession

MCWatched ==
    [haptics |-> {"SET_HAPTICS_GAIN"},
     audio |-> {"SET_AUDIO_REACTIVE_HAPTICS"},
     rumble |-> {"SET_CLASSIC_RUMBLE_GAIN"},
     triggers |-> {"SET_TRIGGER_EFFECT_INTENSITY"},
     color |-> {"SET_LIGHTBAR_COLOR"},
     override |-> {"SET_LIGHTBAR_OVERRIDE"},
     sound |-> {"SET_SPEAKER_VOLUME"},
     mic |-> {"SET_DUPLEX_ENABLED", "SET_MIC_MUTE"},
     switches |-> {"SET_IDLE_DISCONNECT_ENABLED"},
     remap |-> {"SET_BUTTON_REMAP"}]
=============================================================================
