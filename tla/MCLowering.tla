----------------------------- MODULE MCLowering -----------------------------
(* Small instances of Lowering: every method body of at most MaxSize        *)
(* statements and run-time checks.                                          *)
EXTENDS Lowering
=============================================================================
