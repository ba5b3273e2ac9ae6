SPECIFICATION MCSpec
CONSTANTS
  Procs = {p, q}
  Passphrases = {a, b}
  NoPass = nopass
  Exclusive = TRUE
  Stmts = 2
  MaxInodes = 3
  s1 = s1
  s2 = s2
  h1 = h1
  h2 = h2
  NoHash = NoHash
  Nil = Nil
  mutectrl = mutectrl
  mutecrypt = mutecrypt
  muteproto = muteproto
INVARIANTS ConfigRefreshed
PROPERTIES OnePassphrase RekeyBoth NoWalkBack  UpdateComplete
CHECK_DEADLOCK FALSE
