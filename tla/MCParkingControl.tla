--------------------------- MODULE MCParkingControl ---------------------------
EXTENDS ParkingControl, FiniteSets
MCGearOf == [s \in Segments |-> IF s = "ahead" THEN "D" ELSE "R"]
===============================================================================
