\* One creation after the other with a post-step that does not exist.
SPECIFICATION Spec
CHECK_DEADLOCK FALSE
CONSTANTS
    dev = dev
    hub = hub
    s1 = s1
    s2 = s2
    NoOrg = NoOrg
    NoAlias = NoAlias
    Orgs = {dev, hub, s1, s2}
    Scratch = {dev, s1, s2}
    Spare = {s1, s2}
    Aliases = {"feature", "prod"}
    DefaultAlias = "feature"
    Target0 = "prod"
    Builtin <- MCBuiltin
    Custom <- MCCustom
    Unset = {"permsets"}
    Unknown = {"typo"}
    NumCommands <- MCNumCommands
    MaxAttempts = 2
    Details <- MCDetails
    StepSets <- MCStepSets
    ConfigSteps = {"deploy"}
    Holder0 <- MCHolder0
INVARIANTS
    UnknownStepChangesNothing
