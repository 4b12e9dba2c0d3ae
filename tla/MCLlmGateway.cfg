SPECIFICATION Spec
CONSTANTS
  Providers = {"rule_based", "ollama", "llama_cpp", "llamacpp", "routing_split", "adapter_toggle"}
  Retries = 1
  Texts <- MCTexts
  ModelCalls <- MCModelCalls
  Runs <- MCRuns
INVARIANTS
  TypeOK
  CallsAreSafe
  DeclinesAreFinal
  ComparisonsAgree
PROPERTIES
  EventuallyReady
