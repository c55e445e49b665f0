----------------------------- MODULE MCPreview -----------------------------
EXTENDS UVCPreview, TLC
Symmetry == Permutations(Buffers) \cup Permutations(CaptureThreads)
=============================================================================
