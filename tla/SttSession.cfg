\* Every adapter; frames of two chunks.
CONSTANTS
    Providers = {"deepgram", "assemblyai", "google", "openai"}
    Target = 2
    Minimum = 2
    Capacity = 1
    MaxChunks <- Offered
SPECIFICATION FairSpec
INVARIANTS
  Inv
  CompleteWhenOk
PROPERTIES
  FinalizeResolves
