SPECIFICATION Spec
CONSTANTS
  Keys = {k1, k2}
  OwnerKeys = {k2}
  Fields = {"name", "email", "plan"}
  OwnerFields = {"plan"}
  Values = {v0}
  v1 = v1
  v2 = v2
  FieldValues <- MCFieldValues
  Null = Null
  Unfit = Unfit
  Malformed = Malformed
  Keep = Keep
  Workers = {w1, w2}
SYMMETRY MCSymmetry
INVARIANTS TypeOK NoLostUpdate FieldsAsAnswered
PROPERTY OwnerKeysChangedByOwner
