CONSTANTS
  Widths = {2, 4}
  Precision = 3
  Exponents = 6
  mantissa_bits = 2
  exponent_bits = 4
SPECIFICATION TemplatesSpec
INVARIANTS
  Saturates
  Exact
  Rounds
  Lanewise
