--------------------------- MODULE MCXiaoCamLoop ---------------------------
(***************************************************************************)
(* XiaoCamLoop on a small instance, and its refinement of SensorStream.    *)
(***************************************************************************)
EXTENDS XiaoCamLoop

\* The stream's phase, from what the SDK has open and how far the task is.
Phase ==
    CASE Owner = None -> "free"
      [] Owner # None /\ open # None -> "open"
      [] Owner # None /\ open = None /\ pc \in {"ending", "finish"} -> "closed"
      [] OTHER -> "reserved"

Stream == INSTANCE SensorStream WITH
    owner <- Owner, phase <- Phase, leaving <- stopping

\* Reserving, stopping and ending keep the promises of cam_loop.h: one owner at a
\* time, a stream opened once and closed only when its owner asked, no
\* subscription taken over by another.
ImplementsSensorStream == Stream!Spec
=============================================================================
