\* Two issuers, three key versions, two concurrent rotations and two downloads;
\* or two servers, two keys, three masters and three runs that seal them anew.
SPECIFICATION MCSpec
CONSTANTS
  Issuer = {i1, i2}
  MaxVersion = 3
  Rotation = {r1, r2}
  Download = {d1, d2}
  Server = {s1, s2}
  Row = {k1, k2}
  Run = {w1, w2, w3}
  MaxMaster = 3
SYMMETRY CallSymmetry
CHECK_DEADLOCK FALSE
INVARIANT KeysOpenable
INVARIANT ExportedOnce
INVARIANT EnvelopesOpenable
PROPERTY ImplementsIdentity
