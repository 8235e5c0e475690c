---------------------------- MODULE MCAccessKey ----------------------------
EXTENDS AccessKey

CONSTANTS none, vault

MCCrms == {"primary", "secondary"}
MCMaxFailures == 2
\* The primary CRM alone: its two streams commit only its own slot.
MCPrimaryOnly == {"primary"}
\* Each CRM upgrades once, and every abandoned stream may burn one key.
MCMaxKeys == 2 * Cardinality(MCCrms) + MCMaxFailures
=============================================================================
