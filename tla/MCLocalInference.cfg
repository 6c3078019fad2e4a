CONSTANTS
  Services = {stage}
  Queries = {query}
  Clients = {client}
  Kinds = {"embedding", "caption", "stt", "vad", "diarization", "audio_event", "ocr"}
  Inputs <- MCInputs
  ProviderMax = 2
  ServiceMax = 3
  MaxResponses = 2
  MaxCalls = 2
  MaxFailures = 2
SPECIFICATION Spec
CHECK_DEADLOCK FALSE
INVARIANT AnswersSound
INVARIANT ProviderStateTrue
PROPERTY CallsEnd
