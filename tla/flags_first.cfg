SPECIFICATION Spec
CONSTANTS
  Names = {seed_data, bind_addr}
  Values = {v1, v2}
  Malformed = Malformed
  Unset = Unset
INVARIANT FlagsFirst
