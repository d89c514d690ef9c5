------------------------------ MODULE MCServer ------------------------------
EXTENDS ServerParts

\* A device before the control connection, and one after it.
MCOrder == <<"3", "Socket#7", "V10">>
=============================================================================
