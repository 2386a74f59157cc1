---------------------------- MODULE MCRetryClient ----------------------------
(* Constants of the retry-loop model for TLC.                              *)
EXTENDS RetryClient, TLC

CONSTANTS c1, c2, c3, c4
=============================================================================
