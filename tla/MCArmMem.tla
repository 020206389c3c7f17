------------------------------- MODULE MCArmMem -------------------------------
(* ArmMem on the boards under platform/arm.                                  *)
EXTENDS ArmMem

MCBoards == {ArndaleBoard, RealviewPba8, Sa1100, Versatile, VexpressA15, VexpressA9}
==============================================================================
