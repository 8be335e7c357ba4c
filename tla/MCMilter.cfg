SPECIFICATION MilterSpec
CONSTANTS
  Sender <- MCSender
  Capacity = 7
INVARIANT AskedAboutSender
