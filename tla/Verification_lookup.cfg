\* A submitted document without a status of its own, whose row may be unreadable.
SPECIFICATION MCSpec
CONSTANTS
  listed = listed
  stored = stored
  plain = plain
  legacy = legacy
  wallet = wallet
  signed = signed
  Credential = {plain, stored}
  Recorded = {plain, stored}
  Listed = {}
  Wallet = {}
  Stored = {stored}
  Legacy = {}
  Anchored = {stored}
  SignedBy <- FirstKey
  MaxMethods = 1
  DefaultStore = store1
  ProfileStore = store2
  OwnStore = store3
  Account = account
  MaxTransitions = 2
  Request = {r1}
CHECK_DEADLOCK FALSE
INVARIANT ExistingOnlyWhileIssued
