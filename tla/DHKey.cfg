CONSTANTS
    ByteBits = 4
    KeyLen = 2
    MaxDHKey <- MCMaxDHKey
SPECIFICATION Spec
INVARIANT KeyMatchesJava
