---------------------------- MODULE MCContainers ----------------------------
(* Bounds of Containers for TLC.  Ten blocks are the clone of a tablets of   *)
(* two chunks; two uses at once are an assignment inside a loop.             *)
EXTENDS Containers

MCMaxOpen == [k \in Kinds |-> IF k = "tablets" THEN 1 ELSE 2]
MCMaxBlocks == [k \in Kinds |-> CASE k = "tablets" -> 10 [] k = "ivec" -> 8 [] OTHER -> 7]
=============================================================================
