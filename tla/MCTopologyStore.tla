-------------------------- MODULE MCTopologyStore --------------------------
(* The instance of TopologyStore for TLC: a station's counter is at zero or  *)
(* at 20 Mbit, and a ping takes 250 ms, which is worth nothing in the health *)
(* score.                                                                    *)
EXTENDS TopologyStore
MCBytes == {0, 2500000}
MCLatencies == {250}
=============================================================================
