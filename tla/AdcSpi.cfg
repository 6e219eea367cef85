SPECIFICATION Spec
CONSTANTS
  Channels = {0, 1, 2}
  MaxMissed = 2
INVARIANTS ExchangeOver ChannelRight ResultFresh
PROPERTIES ConvertsAlone ReadReturns
