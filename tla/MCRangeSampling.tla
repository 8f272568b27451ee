-------------------------- MODULE MCRangeSampling --------------------------
(* RangeSampling for TLC: one error stands for all. *)
EXTENDS RangeSampling

SomeError == {"DeviceDisconnected"}
=============================================================================
