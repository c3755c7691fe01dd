----------------------------- MODULE MCCloudClient -----------------------------
EXTENDS CloudClient
CONSTANTS a1, i1, i2
=============================================================================
