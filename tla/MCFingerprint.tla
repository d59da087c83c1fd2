--------------------------- MODULE MCFingerprint ---------------------------
EXTENDS Fingerprint
============================================================================
