-------------------------- MODULE MCSegmentLimits --------------------------
(***************************************************************************)
(* Limit discovery on byte counts scaled down so that every comparison of  *)
(* the planner falls on both sides: the margin is 2 and record caps run    *)
(* from 6 to 12.                                                           *)
(***************************************************************************)
EXTENDS SegmentLimits

MCMargin == 2
MCMinRecord == 6
MCMaxRecord == 12
MCResponses ==
    [maxrec : {Missing, Garbage, 0, 5, 6, 12, 13}, wblock : {Missing, Garbage, 8},
     nsup : {Missing, 120}]
    \cup [maxrec : {8}, wblock : {Missing}, nsup : {Garbage, 0}]

(* With a maximum of 4 below the target of 20 every non-empty put raises.  *)
MCConfigs == [target : {1, 2, 3, 4, 20}, max : {0, 4, 20}, min : {1, 3},
              single : {0, 1, 5}, ttl : {0, 60}]

MCPayloadSizes == 0 .. 11
=============================================================================
