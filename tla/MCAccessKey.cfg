\* Primary and secondary CRM, two concurrent streams, two abandoned streams.
CONSTANTS
    none = none
    vault = vault
    None = none
    Vault = vault
    Crms <- MCCrms
    Sess = {1, 2}
    MaxKeys <- MCMaxKeys
    MaxFailures <- MCMaxFailures
SPECIFICATION Spec
INVARIANT TypeOK
