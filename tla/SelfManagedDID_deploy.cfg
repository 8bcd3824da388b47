\* An administrator downloads, deploys, validates and selects while a credential
\* is issued and the one issuer is suspended and restored.
SPECIFICATION Spec
CONSTANTS
  Issuer = {i1}
  Version <- OneVersion
  Filing = {f1}
  Checking = {c1}
  Issuing = {s1}
  MaxRevision = 3
CHECK_DEADLOCK FALSE
INVARIANT LinkageVerifiable
PROPERTY SelectedWasDeployed
PROPERTY WrittenUnderSelection
PROPERTY FilesAreCurrent
