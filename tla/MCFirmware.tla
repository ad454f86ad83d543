----------------------------- MODULE MCFirmware ----------------------------
(* main() with its own shapes, batches and data on the array of the SoC;    *)
(* or another caller that alternates a legal INT32 job, a legal packed INT8 *)
(* job and two that START refuses: a misaligned base and a reduction beyond *)
(* MAX_K.                                                                   *)
EXTENDS DemoFirmware

Small == accel_gemm(At["ta"], At["tb"], At["tc_hw"], 1, 1, 1)
Large == accel_layer(At["ta"], At["tb"], At["tc_hw"], 5, 1, 1, 3, 2, TRUE)
MCDescriptors == {Small, Large, [Large EXCEPT !["B_BASE"] = @ + 2], [Small EXCEPT !["K"] = 65]}
NoWrites == {}
=============================================================================
