CONSTANTS
  p1 = p1
  p2 = p2
  p3 = p3
  h1 = h1
  h2 = h2
  None = None
  Failed = Failed
  Threads = {t1, t2}
  Sources = {p1, p3}
  Extractable = {p1}
  HashValues = {h1, h2}
  Hash <- MCHash
SPECIFICATION Spec
INVARIANT ExtractedAtMostOnce
