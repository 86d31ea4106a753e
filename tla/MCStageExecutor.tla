--------------------------- MODULE MCStageExecutor ---------------------------
EXTENDS StageExecutor

OnePool == <<1, 1, 1>>
TwoPools == <<1, 1, 2, 2>>

Plain == [pools |-> OnePool, slots |-> 2, passes |-> 2, distance |-> 1, carry |-> FALSE,
          retain |-> FALSE, overlap |-> FALSE, immediate |-> FALSE,
          faults |-> {"cancel", "create", "job", "fill", "prepare", "encode", "reader",
                      "drain", "stall", "early_finish"}]

(* The first group of a pass is carried over from the pass before.          *)
Carrying == [Plain EXCEPT !.passes = 3, !.carry = TRUE,
                          !.faults = {"cancel", "fill", "drain", "step"}]

(* Two pools, one at a time or both retained.                               *)
Serial == [Plain EXCEPT !.pools = TwoPools,
                        !.faults = {"cancel", "create", "fill", "drain"}]
Retaining == [Serial EXCEPT !.retain = TRUE]

(* A synchronous backend: no prefetch, overlapped fills, immediate readers. *)
Synchronous == [Plain EXCEPT !.distance = 0, !.overlap = TRUE, !.immediate = TRUE,
                             !.faults = {"cancel", "fill", "short", "job", "encode"}]

SmallLayouts == {Carrying, Serial, Retaining, Synchronous}
AllLayouts == SmallLayouts \cup {Plain}
===============================================================================
