------------------------------ MODULE MCPicker ------------------------------
(* Two creations, so that one request meets another; two tabs.              *)
EXTENDS Picker

MCNoValue == {}
=============================================================================
