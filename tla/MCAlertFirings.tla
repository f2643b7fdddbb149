---------------------------- MODULE MCAlertFirings -----------------------------
(* Two claims of one source, both past the threshold: the later one crosses *)
(* only while the earlier one has not arrived.                              *)
EXTENDS AlertFirings

MCPublisher == [c \in Claims |-> "s"]
================================================================================
