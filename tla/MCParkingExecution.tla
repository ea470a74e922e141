-------------------------- MODULE MCParkingExecution --------------------------
EXTENDS ParkingExecution, MCParkingControl
===============================================================================
