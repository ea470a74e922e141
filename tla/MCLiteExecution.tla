--------------------------- MODULE MCLiteExecution ---------------------------
EXTENDS LiteExecution, MCParkingControl
===============================================================================
