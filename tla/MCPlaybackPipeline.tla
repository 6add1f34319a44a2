------------------------- MODULE MCPlaybackPipeline -------------------------
\* Module PlaybackPipeline on small instances; the configurations give the bounds.
EXTENDS PlaybackPipeline
=============================================================================
