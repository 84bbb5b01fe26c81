--------------------------- MODULE MCCurlTransport ---------------------------
\* One call over small pipes, with requests and responses that overflow them.
EXTENDS CurlTransport
=============================================================================
