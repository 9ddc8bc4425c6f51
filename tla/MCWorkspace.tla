----------------------------- MODULE MCWorkspace -----------------------------
(* Contents of the tree for TLC; the first is the baseline.                  *)
EXTENDS Workspace, TLC

CONSTANTS t0, t1
=============================================================================
