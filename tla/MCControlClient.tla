---------------------------- MODULE MCControlClient ----------------------------
EXTENDS ControlClient

MCCalmLevel == [s \in {"temp", "humi", "lux"} |-> "high"]
MCActuators == <<"ac", "led">>
=============================================================================
