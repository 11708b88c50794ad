------------------------- MODULE MCEncoderResources -------------------------
\* Every encoder, with a viewer that gives up after two empty frames.
EXTENDS EncoderResources

MCKind == {"vk", "vktest", "lossless", "hevc", "ffv1", "vaapi", "cuda", "probe", "modifiers", "dump"}
=============================================================================
