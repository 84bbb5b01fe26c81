------------------------ MODULE MCVoiceServiceListed ------------------------
\* The instances of MCVoiceService, with the history of late reports.
EXTENDS MCVoiceService, VoiceServiceListed
=============================================================================
