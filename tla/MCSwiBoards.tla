---------------------------- MODULE MCSwiBoards ----------------------------
(***************************************************************************)
(* Every board of platform/arm and platform/armv8.                         *)
(***************************************************************************)
EXTENDS SwiBoards

MCBoards == DOMAIN Board
=============================================================================
