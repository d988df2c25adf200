SPECIFICATION Spec
CONSTANTS
  h1 = h1
  h2 = h2
  Handlers = {h1, h2}
  AsyncHandlers = {h2}
  Names <- Listened
  EmittedNames <- Emitted
  Offers <- Offered
  MaxListeners = 2
  MaxSerial = 3
  MaxEmits = 2
  Callers = {"c1", "c2"}
  EventTypes = {"created", "base"}
  Bases <- SuperTypes
  Handling <- Handled
  Sagas <- Watched
  Commands <- Answers
  AllowSubclass = TRUE
  MaxApplied = 2
  MaxCommits = 3
  Clients = {"a", "b"}
  Kinds = {"memory", "tcp", "nats", "redis", "rabbitmq", "kafka"}
  CallersOf <- MCCallersOf
  ProxyTimeout = {"memory"}
  Retries <- MCRetries
  EventHandlers <- MCEventHandlers
  MaxEvents = 1
  MaxListens <- MCMaxListens
INVARIANTS EventsHeard CallsAnswered NothingSkipped
PROPERTIES NothingDropped
CHECK_DEADLOCK FALSE
