------------------------------ MODULE MCCloudIxl ------------------------------
(***************************************************************************)
(* Route tables for TLC: the one of cloud_ixl_routes.c, and one of three   *)
(* routes over the same point position, in which only the sections make    *)
(* two of them conflict.                                                   *)
(***************************************************************************)
EXTENDS CloudIxl, TLC

LabSections ==
    ("RUTA_AB" :> {"CV_01", "CV_02"}) @@ ("RUTA_AC" :> {"CV_01", "CV_03"})
LabPoints == [r \in {"RUTA_AB", "RUTA_AC"} |-> {"P_01"}]
LabPosition ==
    ("RUTA_AB" :> [p \in {"P_01"} |-> "LEFT"]) @@ ("RUTA_AC" :> [p \in {"P_01"} |-> "RIGHT"])

WideSections == ("R1" :> {"S1", "S2"}) @@ ("R2" :> {"S2", "S3"}) @@ ("R3" :> {"S3"})
WidePoints   == [r \in {"R1", "R2", "R3"} |-> {"P1"}]
WidePosition == [r \in {"R1", "R2", "R3"} |-> [p \in {"P1"} |-> "LEFT"]]
===============================================================================
