---------------------------- MODULE MCAbiMemory ----------------------------
(* Instances of AbiMemory for TLC: two goroutines, payloads of 0 to 2      *)
(* bytes, and as many addresses as make a free region exist whenever the   *)
(* limit lets allocate look for one.                                       *)
EXTENDS AbiMemory

\* An ignored limit, and one below the default.
MCLimits == {-1, 1}

\* For the counterexample run: one-byte payloads.
MCFewLimits == {0, 2}
=============================================================================
