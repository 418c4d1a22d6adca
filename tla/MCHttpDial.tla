------------------------------- MODULE MCHttpDial ------------------------------
\* HttpDial on two dials; dials, names, URLs and outproxies are interchangeable.
EXTENDS HttpDial, TLC

Symmetry == Permutations(Dials) \cup Permutations(Names)
              \cup Permutations(Urls) \cup Permutations(Exits)
=============================================================================
