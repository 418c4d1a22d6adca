--------------------------- MODULE MCTunnelLifecycle --------------------------
\* TunnelLifecycle on a few calls.
EXTENDS TunnelLifecycle

CONSTANTS s1, s2, s3, c1, c2

ThreeStarts == {s1, s2, s3}
OneStop == {c1}
TwoStops == {c1, c2}
=============================================================================
