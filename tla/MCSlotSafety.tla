----------------------------- MODULE MCSlotSafety -----------------------------
(* One slot of two bytes that is filled three times, with either of two      *)
(* items, and read by up to two queues.  The slots of a tracker share only   *)
(* the poison flag; several slots at once are checked in StageExecutor.      *)
EXTENDS SlotSafetyClient

CONSTANT s1

MCSlot == {s1}
MCCapacity == [s \in {s1} |-> 2]
===============================================================================
