\* run_dry_run_simulation: one thread, a dedup table of one entry.
CONSTANTS
  z = z  a = a  b = b  c = c  d = d
  fz = fz  fa = fa  fb = fb  p0 = p0  p1 = p1  p2 = p2
  t1 = t1  t2 = t2
  Threads = {t1}
  Offsets = {o1, o2}
  Pages = {z, a}
  ZeroPage = z
  Fingerprints = {fz, fa, fb}
  Prefixes = {p0, p1, p2}
  FpOf <- MCFpOf
  PrefixOf <- MCPrefixOf
  BloomBits = {1, 2, 3, 4}
  BloomOf <- MCBloomOf
  TotalSlots = 3
  MaxEntries = 1
  DryRun = TRUE
  NoEntry = NoEntry
  NoMeta = NoMeta
  NoRequest = NoRequest
SPECIFICATION Spec
INVARIANT NoLiveSlotFreed
