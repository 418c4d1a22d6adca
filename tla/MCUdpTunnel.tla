----------------------------- MODULE MCUdpTunnel ------------------------------
\* UdpTunnel on a few calls, with delays small enough to enumerate the jitter.
EXTENDS UdpTunnel

CONSTANTS s1, s2, c1

TwoStarts == {s1, s2}
OneStop == {c1}
=============================================================================
