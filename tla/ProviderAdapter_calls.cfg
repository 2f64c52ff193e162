\* Every prompt and every answer, through every adapter.
SPECIFICATION FairSpec
CONSTANTS
    Adapters = {"openai", "anthropic", "mock"}
    Prompts <- AllPrompts
    Statuses = {200, 302, 401, 403, 500}
    Bodies <- AllBodies
    Timeout = 2
INVARIANTS
    PromptConveyed
    NothingLostNothingAdded
PROPERTIES
    SilenceEnds
CHECK_DEADLOCK FALSE
