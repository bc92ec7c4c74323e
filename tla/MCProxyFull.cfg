\* run_real_proxy on a device of two pages and a store of two slots.
CONSTANTS
  z = z  a = a  b = b  c = c  d = d
  fz = fz  fa = fa  fb = fb  p0 = p0  p1 = p1  p2 = p2
  t1 = t1  t2 = t2
  Threads = {t1}
  Offsets = {o1, o2}
  Pages = {z, a}
  ZeroPage = z
  Fingerprints = {fz, fa, fb}
  Prefixes = {p0, p1, p2}
  FpOf <- MCFpOf
  PrefixOf <- MCPrefixOf
  BloomBits = {1, 2, 3, 4}
  BloomOf <- MCBloomOf
  TotalSlots = 2
  MaxEntries = 2
  DryRun = FALSE
  NoEntry = NoEntry
  NoMeta = NoMeta
  NoRequest = NoRequest
SPECIFICATION Spec
INVARIANT NeverFull
