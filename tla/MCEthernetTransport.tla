------------------------ MODULE MCEthernetTransport ------------------------
\* The instance of EthernetTransport that TLC checks: timeouts below, at and
\* above a late delay, and the -1 the client library calls infinite.
EXTENDS EthernetTransport

ReadTimeouts == {-1, 0, 1, 2, 4}
=============================================================================
