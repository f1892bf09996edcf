----------------------------- MODULE MCOriginPlan -----------------------------
EXTENDS OriginPlan

MCExists == <<{"origin", "alias"}, {"origin"}, {"alias"}>>
MCZones == [signed : [Names -> BOOLEAN], tlsa : {{}, {"tcp"}, {"udp", "tcp"}}]
===============================================================================
