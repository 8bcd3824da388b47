\* Two issuers, two key versions and three overlapping sessions.
SPECIFICATION Spec
CONSTANTS
  Issuer = {i1, i2}
  MaxVersion = 2
  Tx = {t1, t2, t3}
  Kind = {"create", "issuer", "organization", "rename", "save", "activate", "insert"}
SYMMETRY SessionSymmetry
 
PROPERTY ImplementsIdentity
PROPERTY InsertsUnderSigner
