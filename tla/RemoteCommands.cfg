SPECIFICATION Spec
CONSTANTS
  prompt = prompt  create = create
  Command = {prompt, create}
  Creates = {create}
  Capacity = 1
  MaxLost = 1
  MaxDeaths = 1
INVARIANTS RunsOnce Truthful
PROPERTIES ImplementsCommands ClaimedIsAnswered
CHECK_DEADLOCK FALSE
