SPECIFICATION Spec
CONSTANT Passphrases = {p1, p2}
INVARIANT ServerSeesPassphrase
CHECK_DEADLOCK FALSE
