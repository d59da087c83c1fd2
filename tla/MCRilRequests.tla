--------------------------- MODULE MCRilRequests ---------------------------
EXTENDS RilRequests

\* a vendor before and after version 15; no client, an old and a new one
MCSettings == {[version |-> 12, client |-> "none", oemHook |-> FALSE],
               [version |-> 12, client |-> "V1_0", oemHook |-> TRUE],
               [version |-> 15, client |-> "V1_0", oemHook |-> FALSE],
               [version |-> 15, client |-> "V1_1", oemHook |-> TRUE]}

\* the length of every structure the functions tell apart, of short arrays of
\* words, and lengths that are no multiple of a word
MCLengths == {1, 2, 3, 4, 6, 8, 10, 12, 16, 20, 24, 32, 36, 40, 44, 52, 56, 60, 72, 80, 84, 88,
              136, 144, 248, 372, 440, 964}
============================================================================
