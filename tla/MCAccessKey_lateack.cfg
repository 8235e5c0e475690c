\* The primary CRM alone, so that no commit of the other role's slot
\* interleaves: one abandoned stream whose ack the server still reads.
CONSTANTS
    none = none
    vault = vault
    None = none
    Vault = vault
    Crms <- MCPrimaryOnly
    Sess = {1, 2}
    MaxKeys <- MCMaxKeys
    MaxFailures <- MCMaxFailures
SPECIFICATION Spec
INVARIANT RegisteredKeyHeld
