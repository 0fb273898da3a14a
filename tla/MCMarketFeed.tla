---------------------------- MODULE MCMarketFeed ----------------------------
(***************************************************************************)
(* The live feed for TLC.                                                  *)
(***************************************************************************)
EXTENDS MarketFeed, TLC

MCOwnerOf == [o \in Order |-> "u1"]
MCNodeOf == [c \in Client |-> "n1"]
MCUserOf == [c \in Client |-> "u1"]
MCWanted == [c \in Client |-> {Book, Orders("u1")}]
=============================================================================
