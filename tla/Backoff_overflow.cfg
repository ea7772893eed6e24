SPECIFICATION Spec
CONSTANTS
  Width = 8
  Sequences = {q1}
  Kinds = {"fibonacci"}
  Bases = {3}
  Caps = {50}
  Decorations <- NoDecoration
  JitterTenths = 0
  MinWait = 0
  MaxWait = 0
  Hints = {0}
  MaxRetries = 12
INVARIANT OverflowSafe
