--------------------------- MODULE MCESampPipeline ---------------------------
EXTENDS ESampPipelineOrder
=============================================================================
